--------------------------- MODULE JsQueue_proofs ---------------------------
(***************************************************************************)
(* The order and the bound of the events in the hands of the SDK, on top   *)
(* of the type invariant, what storage holds of them, and the identity.    *)
(***************************************************************************)
EXTENDS JsApiIntegration_proofs

Below(s, n) == \A i \in 1..Len(s) : s[i] <= n

(* The conjuncts of HeldSound, QueueOrder and HeldBounded in terms of the  *)
(* two parts of Held, and of storage.                                      *)
BatchInv ==
    /\ Sorted(batch) /\ Below(batch, tracked) /\ Len(batch) <= MaxBatch
    /\ req[Drain].pc \in {"idle", "failed"} => batch = <<>>
QueuedInv ==
    /\ Sorted(queue) /\ Below(queue, tracked)
    /\ \A i \in 1..Len(batch), j \in 1..Len(queue) : batch[i] < queue[j]
    /\ Len(batch) + Len(queue) <= MaxQueueSize + MaxBatch
    /\ boot \notin {"on", "closed"} => queue = <<>> /\ batch = <<>>
StoredInv == Sorted(store.queue) /\ Below(store.queue, tracked)

QueueInv == BatchInv /\ QueuedInv /\ StoredInv

-----------------------------------------------------------------------------
(* Sorted sequences of events *)

LEMMA ConcatSorted ==
    ASSUME NEW a \in Seq(Events), NEW b \in Seq(Events)
    PROVE  /\ Len(a \o b) = Len(a) + Len(b)
           /\ Sorted(a \o b) <=> /\ Sorted(a) /\ Sorted(b)
                                 /\ \A i \in 1..Len(a), j \in 1..Len(b) : a[i] < b[j]
           /\ \A n \in Nat : Below(a \o b, n) <=> Below(a, n) /\ Below(b, n)
<1> DEFINE c == a \o b
<1>1. /\ Len(a) \in Nat /\ Len(b) \in Nat /\ Len(c) = Len(a) + Len(b)
      /\ \A i \in 1..Len(a) : c[i] = a[i]
      /\ \A j \in 1..Len(b) : c[Len(a) + j] = b[j]
  BY ConcatProperties, LenProperties
<1>2. \A i \in 1..Len(c) : i \in 1..Len(a) \/ (i - Len(a) \in 1..Len(b) /\ c[i] = b[i - Len(a)])
  BY <1>1
<1> HIDE DEF c
<1>3. ASSUME Sorted(c)
      PROVE  Sorted(a) /\ Sorted(b) /\ \A i \in 1..Len(a), j \in 1..Len(b) : a[i] < b[j]
  <2>1. Sorted(a)
    BY <1>1, <1>3 DEF Sorted
  <2>2. Sorted(b)
    <3> SUFFICES ASSUME NEW i \in 1..Len(b), NEW j \in 1..Len(b), i < j PROVE b[i] < b[j]
      BY DEF Sorted
    <3>1. Len(a) + i \in 1..Len(c) /\ Len(a) + j \in 1..Len(c) /\ Len(a) + i < Len(a) + j
      BY <1>1
    <3>2. c[Len(a) + i] < c[Len(a) + j]
      BY <3>1, <1>3 DEF Sorted
    <3> QED
      BY <3>2, <1>1
  <2>3. ASSUME NEW i \in 1..Len(a), NEW j \in 1..Len(b) PROVE a[i] < b[j]
    <3>1. i \in 1..Len(c) /\ Len(a) + j \in 1..Len(c) /\ i < Len(a) + j
      BY <1>1
    <3>2. c[i] < c[Len(a) + j]
      BY <3>1, <1>3 DEF Sorted
    <3> QED
      BY <3>2, <1>1
  <2> QED
    BY <2>1, <2>2, <2>3
<1>4. ASSUME Sorted(a), Sorted(b), \A i \in 1..Len(a), j \in 1..Len(b) : a[i] < b[j]
      PROVE  Sorted(c)
  <2> SUFFICES ASSUME NEW i \in 1..Len(c), NEW j \in 1..Len(c), i < j PROVE c[i] < c[j]
    BY DEF Sorted
  <2>1. CASE i \in 1..Len(a) /\ j \in 1..Len(a)
    BY <2>1, <1>1, <1>4 DEF Sorted
  <2>2. CASE i \in 1..Len(a) /\ j \notin 1..Len(a)
    BY <2>2, <1>1, <1>2, <1>4
  <2>3. CASE i \notin 1..Len(a)
    <3>1. /\ i - Len(a) \in 1..Len(b) /\ j - Len(a) \in 1..Len(b) /\ i - Len(a) < j - Len(a)
          /\ c[i] = b[i - Len(a)] /\ c[j] = b[j - Len(a)]
      BY <2>3, <1>1, <1>2
    <3> QED
      BY <3>1, <1>4 DEF Sorted
  <2> QED
    BY <2>1, <2>2, <2>3
<1>5. ASSUME NEW n \in Nat PROVE Below(c, n) <=> Below(a, n) /\ Below(b, n)
  <2>1. ASSUME Below(c, n) PROVE Below(a, n) /\ Below(b, n)
    <3>1. \A j \in 1..Len(b) : Len(a) + j \in 1..Len(c)
      BY <1>1
    <3>2. \A j \in 1..Len(b) : c[Len(a) + j] <= n
      BY <3>1, <2>1 DEF Below
    <3>3. Below(b, n)
      BY <3>2, <1>1 DEF Below
    <3>4. Below(a, n)
      BY <2>1, <1>1 DEF Below
    <3> QED
      BY <3>3, <3>4
  <2>2. ASSUME Below(a, n), Below(b, n) PROVE Below(c, n)
    BY <2>2, <1>1, <1>2 DEF Below
  <2> QED
    BY <2>1, <2>2
<1> QED
  BY <1>1, <1>3, <1>4, <1>5 DEF c

(* What is left of a sorted sequence when its first events are removed. *)
LEMMA AfterSorted ==
    ASSUME NEW s \in Seq(Events), NEW n \in Nat, Sorted(s)
    PROVE  /\ Sorted(FirstN(s, n)) /\ Sorted(AfterN(s, n))
           /\ \A i \in 1..Len(FirstN(s, n)), j \in 1..Len(AfterN(s, n)) :
                  FirstN(s, n)[i] < AfterN(s, n)[j]
           /\ \A m \in Nat : Below(s, m) => Below(FirstN(s, n), m) /\ Below(AfterN(s, n), m)
<1> DEFINE a == FirstN(s, n)
           b == AfterN(s, n)
<1>1. a \in Seq(Events) /\ b \in Seq(Events) /\ a \o b = s
  BY SplitProps, FirstNProps, AfterNProps
<1> HIDE DEF a, b
<1>2. /\ Sorted(a) /\ Sorted(b)
      /\ \A i \in 1..Len(a), j \in 1..Len(b) : a[i] < b[j]
      /\ \A m \in Nat : Below(s, m) => Below(a, m) /\ Below(b, m)
  BY <1>1, ConcatSorted
<1> QED
  BY <1>2 DEF a, b

LEMMA NewestSorted ==
    ASSUME NEW s \in Seq(Events), Sorted(s)
    PROVE  /\ Newest(s) \in Seq(Events) /\ Sorted(Newest(s))
           /\ Len(Newest(s)) <= MaxQueueSize
           /\ \A m \in Nat : Below(s, m) => Below(Newest(s), m)
           /\ \A m \in Nat : (\A i \in 1..Len(s) : m < s[i])
                               => \A i \in 1..Len(Newest(s)) : m < Newest(s)[i]
<1>1. Len(s) \in Nat /\ Len(s) - Smaller(MaxQueueSize, Len(s)) \in Nat
  BY LenProperties, ConfigAssumption DEF Smaller
<1>2. Newest(s) = AfterN(s, Len(s) - Smaller(MaxQueueSize, Len(s)))
  BY DEF Newest
<1>3. Newest(s) \in Seq(Events) /\ Len(Newest(s)) <= MaxQueueSize
  <2>1. Newest(s) \in Seq(Events) /\ Len(Newest(s)) = Smaller(MaxQueueSize, Len(s))
    BY NewestProps
  <2>2. Smaller(MaxQueueSize, Len(s)) <= MaxQueueSize
    BY <1>1, ConfigAssumption DEF Smaller
  <2> QED
    BY <2>1, <2>2
<1>4. /\ Sorted(Newest(s))
      /\ \A m \in Nat : Below(s, m) => Below(Newest(s), m)
  BY <1>1, <1>2, AfterSorted
<1>5. \A i \in 1..Len(Newest(s)) :
         /\ i + (Len(s) - Smaller(MaxQueueSize, Len(s))) \in 1..Len(s)
         /\ Newest(s)[i] = s[i + (Len(s) - Smaller(MaxQueueSize, Len(s)))]
  BY <1>1, NewestProps, ConfigAssumption DEF Smaller
<1> QED
  BY <1>3, <1>4, <1>5

-----------------------------------------------------------------------------
(* The invariant *)

LEMMA QueueInvMeans == ASSUME TypeOK PROVE QueueInv <=> QueueOrder /\ HeldBounded /\ HeldSound
<1>1. /\ queue \in Seq(Events) /\ batch \in Seq(Events) /\ store.queue \in Seq(Events)
      /\ tracked \in Nat
  BY InstanceAssumption DEF TypeOK, Stores
<1>2. /\ Len(Held) = Len(batch) + Len(queue)
      /\ Sorted(Held) <=> /\ Sorted(batch) /\ Sorted(queue)
                          /\ \A i \in 1..Len(batch), j \in 1..Len(queue) : batch[i] < queue[j]
      /\ Below(Held, tracked) <=> Below(batch, tracked) /\ Below(queue, tracked)
  BY <1>1, ConcatSorted DEF Held
<1>3. /\ Below(Held, tracked) <=> \A i \in 1..Len(Held) : Held[i] <= tracked
      /\ Below(store.queue, tracked) <=> \A i \in 1..Len(store.queue) : store.queue[i] <= tracked
  BY DEF Below
<1> QED
  BY <1>2, <1>3
     DEF QueueInv, BatchInv, QueuedInv, StoredInv, QueueOrder, HeldBounded, HeldSound

LEMMA EmptyQueue ==
    /\ <<>> \in Seq(Events) /\ Len(<<>>) = 0 /\ Sorted(<<>>) /\ \A n : Below(<<>>, n)
  BY EmptySeq DEF Sorted, Below

LEMMA QueueInit == ASSUME Init PROVE QueueInv
<1>1. store.queue = <<>>
  <2>1. store \in {EmptyStore} \cup LegacyStores
    BY DEF Init
  <2>2. CASE store = EmptyStore
    BY <2>2 DEF EmptyStore
  <2>3. CASE store = [EmptyStore EXCEPT !.user = 1]
    BY <2>3 DEF EmptyStore
  <2>4. ASSUME NEW c \in Customs, store = [EmptyStore EXCEPT !.user = c, !.identified = TRUE]
        PROVE  store.queue = <<>>
    BY <2>4 DEF EmptyStore
  <2> QED
    BY <2>1, <2>2, <2>3, <2>4 DEF LegacyStores
<1> QED
  BY <1>1, EmptyQueue, ConfigAssumption
     DEF Init, QueueInv, BatchInv, QueuedInv, StoredInv, IdleRequest, Requesters

(* A step that touches neither events nor the drain's request, and leaves  *)
(* init, or the queue, where they are.                                     *)
LEMMA QueueSame ==
    ASSUME QueueInv, UNCHANGED <<queue, batch, tracked>>, store'.queue = store.queue,
           req'[Drain].pc \in {"idle", "failed"} => req[Drain].pc \in {"idle", "failed"},
           boot' \notin {"on", "closed"} => boot \notin {"on", "closed"}
    PROVE  QueueInv'
  BY DEF QueueInv, BatchInv, QueuedInv, StoredInv, Sorted, Below

LEMMA LoadQueueInv == ASSUME TypeOK, QueueInv, LoadQueue PROVE QueueInv'
<1> USE ConfigAssumption, InstanceAssumption
<1>1. queue = <<>> /\ batch = <<>> /\ batch' = <<>> /\ store' = store /\ tracked' = tracked
  BY DEF LoadQueue, QueueInv, QueuedInv
<1>2. store.queue \in Seq(Events) /\ store.queue \o <<>> = store.queue /\ tracked \in Nat
  BY ConcatEmptySeq DEF TypeOK, Stores
<1>3. queue' = Newest(store.queue) \/ queue' = <<>>
  BY <1>1, <1>2 DEF LoadQueue
<1>4. /\ queue' \in Seq(Events) /\ Sorted(queue') /\ Below(queue', tracked)
      /\ Len(queue') <= MaxQueueSize
  <2>1. Sorted(store.queue) /\ Below(store.queue, tracked)
    BY DEF QueueInv, StoredInv
  <2>2. CASE queue' = Newest(store.queue)
    BY <1>2, <2>1, <2>2, NewestSorted
  <2>3. CASE queue' = <<>>
    BY <2>3, EmptyQueue
  <2> QED
    BY <1>3, <2>2, <2>3
<1>5. Len(queue') \in Nat
  BY <1>4, LenProperties
<1>6. boot' = "on" /\ req' = req
  BY DEF LoadQueue
<1>7. BatchInv' /\ StoredInv'
  BY <1>1, <1>6 DEF QueueInv, BatchInv, StoredInv, Sorted, Below
<1>8. QueuedInv'
  BY <1>1, <1>4, <1>5, <1>6, EmptyQueue DEF QueuedInv, Sorted, Below
<1> QED
  BY <1>7, <1>8 DEF QueueInv

LEMMA TrackInv == ASSUME TypeOK, QueueInv, Track PROVE QueueInv'
<1> USE ConfigAssumption, InstanceAssumption
<1> DEFINE e == tracked + 1
           grown == Append(queue, e)
<1>1. /\ queue \in Seq(Events) /\ batch \in Seq(Events) /\ tracked \in Nat /\ e \in Events
      /\ store \in Stores /\ Len(queue) \in Nat /\ Len(batch) \in Nat
  BY LenProperties DEF TypeOK, Track, Events
<1>2. /\ queue' = Newest(grown) /\ batch' = batch /\ tracked' = e /\ boot' = boot /\ req' = req
      /\ boot = "on" /\ store' = Persisted(queue')
  BY DEF Track, life
<1>3. /\ grown \in Seq(Events) /\ Len(grown) = Len(queue) + 1
      /\ \A i \in 1..Len(queue) : grown[i] = queue[i]
      /\ grown[Len(queue) + 1] = e
  BY <1>1, AppendProperties
<1> HIDE DEF e, grown
<1>4. \A i \in 1..Len(grown) : i \in 1..Len(queue) \/ (i = Len(queue) + 1 /\ grown[i] = e)
  BY <1>1, <1>3
<1>5. \A i \in 1..Len(queue) : queue[i] \in Nat /\ queue[i] < e
  BY <1>1, ElementOfSeq DEF QueueInv, QueuedInv, Below, e, Events
<1>6. \A i \in 1..Len(batch) : batch[i] \in Nat /\ batch[i] < e
  BY <1>1, ElementOfSeq DEF QueueInv, BatchInv, Below, e, Events
<1>7. Sorted(grown) /\ Below(grown, e)
  <2>1. Sorted(grown)
    <3> SUFFICES ASSUME NEW i \in 1..Len(grown), NEW j \in 1..Len(grown), i < j
                 PROVE  grown[i] < grown[j]
      BY DEF Sorted
    <3>1. CASE j \in 1..Len(queue)
      <4>1. i \in 1..Len(queue) /\ grown[i] = queue[i] /\ grown[j] = queue[j]
        BY <3>1, <1>1, <1>3
      <4>2. Sorted(queue)
        BY DEF QueueInv, QueuedInv
      <4> QED
        BY <3>1, <4>1, <4>2 DEF Sorted
    <3>2. CASE j = Len(queue) + 1
      BY <3>2, <1>1, <1>3, <1>5
    <3> QED
      BY <3>1, <3>2, <1>4
  <2>2. Below(grown, e)
    <3>1. e \in Nat /\ e <= e
      BY <1>1 DEF Events
    <3>2. ASSUME NEW i \in 1..Len(grown) PROVE grown[i] <= e
      BY <3>1, <1>3, <1>4, <1>5
    <3> QED
      BY <3>2 DEF Below
  <2> QED
    BY <2>1, <2>2
<1>8. \A i \in 1..Len(batch) : \A j \in 1..Len(grown) : batch[i] < grown[j]
  <2> TAKE i \in 1..Len(batch)
  <2> TAKE j \in 1..Len(grown)
  <2>1. CASE j \in 1..Len(queue)
    BY <2>1, <1>3 DEF QueueInv, QueuedInv
  <2>2. CASE grown[j] = e
    BY <2>2, <1>6
  <2> QED
    BY <2>1, <2>2, <1>4
<1>9. /\ queue' \in Seq(Events) /\ Sorted(queue') /\ Len(queue') <= MaxQueueSize
      /\ Below(queue', e)
      /\ \A i \in 1..Len(batch) : \A j \in 1..Len(queue') : batch[i] < queue'[j]
  <2>1. e \in Nat
    BY <1>1 DEF Events
  <2> QED
    BY <2>1, <1>2, <1>3, <1>6, <1>7, <1>8, NewestSorted
<1>10. Len(queue') \in Nat
  BY <1>9, LenProperties
<1>11. BatchInv'
  <2>1. \A i \in 1..Len(batch) : batch[i] <= e
    BY <1>1, <1>6 DEF Events
  <2> QED
    BY <1>2, <2>1 DEF QueueInv, BatchInv, Sorted, Below
<1>12. QueuedInv'
  <2>1. Len(batch) + Len(queue') <= MaxQueueSize + MaxBatch
    BY <1>1, <1>9, <1>10 DEF QueueInv, BatchInv
  <2> QED
    BY <1>2, <1>9, <2>1 DEF QueuedInv, Sorted, Below
<1>13. StoredInv'
  <2>1. store'.queue = queue' \/ store'.queue = store.queue
    BY <1>1, <1>2, <1>9, PersistedType
  <2>2. \A i \in 1..Len(store.queue) : store.queue[i] <= e
    <3>1. \A i \in 1..Len(store.queue) : store.queue[i] \in Nat /\ store.queue[i] <= tracked
      BY <1>1, ElementOfSeq DEF Stores, Events, QueueInv, StoredInv, Below
    <3> QED
      BY <3>1, <1>1 DEF e
  <2> QED
    BY <1>2, <1>9, <2>1, <2>2 DEF QueueInv, StoredInv, Sorted, Below
<1> QED
  BY <1>11, <1>12, <1>13 DEF QueueInv

LEMMA DrainTakesInv == ASSUME TypeOK, QueueInv, DrainTakes PROVE QueueInv'
<1> USE ConfigAssumption, InstanceAssumption
<1>1. /\ queue \in Seq(Events) /\ tracked \in Nat /\ Len(queue) \in Nat
      /\ Sorted(queue) /\ Below(queue, tracked) /\ batch = <<>>
      /\ Len(queue) <= MaxQueueSize + MaxBatch
  <2>1. queue \in Seq(Events) /\ tracked \in Nat /\ Len(queue) \in Nat
    BY LenProperties DEF TypeOK
  <2>2. batch = <<>> /\ Sorted(queue) /\ Below(queue, tracked)
    BY DEF DrainTakes, QueueInv, BatchInv, QueuedInv
  <2>3. Len(batch) + Len(queue) <= MaxQueueSize + MaxBatch
    BY DEF QueueInv, QueuedInv
  <2> QED
    BY <2>1, <2>2, <2>3, EmptyQueue
<1>2. /\ batch' = FirstN(queue, MaxBatch) /\ queue' = AfterN(queue, MaxBatch)
      /\ boot' = boot /\ store' = store /\ tracked' = tracked /\ queue # <<>>
      /\ req' = Calling(Drain)
  BY DEF DrainTakes, life
<1>3. req'[Drain].pc = "envelope"
  BY <1>2 DEF Calling, IdleRequest, TypeOK, Requesters
<1>4. /\ Sorted(batch') /\ Below(batch', tracked)
      /\ Sorted(queue') /\ Below(queue', tracked)
      /\ \A i \in 1..Len(batch'), j \in 1..Len(queue') : batch'[i] < queue'[j]
  BY <1>1, <1>2, AfterSorted
<1>5. Len(batch') <= MaxBatch /\ Len(batch') + Len(queue') = Len(queue)
  <2>1. Len(batch') = Smaller(MaxBatch, Len(queue))
    BY <1>1, <1>2, FirstNProps
  <2>2. Len(queue') = Len(queue) - Smaller(MaxBatch, Len(queue))
    BY <1>1, <1>2, AfterNProps
  <2> QED
    BY <1>1, <2>1, <2>2 DEF Smaller
<1>6. BatchInv'
  BY <1>2, <1>3, <1>4, <1>5 DEF BatchInv, Sorted, Below
<1>7. QueuedInv'
  <2>1. boot \in {"on", "closed"}
    BY <1>2 DEF QueueInv, QueuedInv
  <2> QED
    BY <1>1, <1>2, <1>4, <1>5, <2>1 DEF QueuedInv, Sorted, Below
<1>8. StoredInv'
  BY <1>2 DEF QueueInv, StoredInv, Sorted, Below
<1> QED
  BY <1>6, <1>7, <1>8 DEF QueueInv

(* The queue is stored, or storage keeps its queue. *)
LEMMA PersistedInv ==
    ASSUME TypeOK, QueueInv, tracked' = tracked,
           NEW s \in Seq(Events), Sorted(s), Below(s, tracked), store' = Persisted(s)
    PROVE  StoredInv'
<1>1. store'.queue = s \/ store'.queue = store.queue
  BY PersistedType DEF TypeOK
<1> QED
  BY <1>1 DEF QueueInv, StoredInv, Sorted, Below

LEMMA AcceptInv == ASSUME TypeOK, QueueInv, NEW r \in Requesters, Accept(r) PROVE QueueInv'
<1> USE ConfigAssumption, InstanceAssumption
<1>1. boot' = boot /\ queue' = queue /\ tracked' = tracked
  BY DEF Accept, life
<1>2. CASE r = Drain
  <2>1. batch' = <<>> /\ store' = Persisted(queue)
    BY <1>2 DEF Accept
  <2>2. StoredInv'
    BY <1>1, <2>1, PersistedInv DEF QueueInv, QueuedInv, TypeOK
  <2>3. BatchInv'
    BY <2>1, EmptyQueue DEF BatchInv, Sorted, Below
  <2>4. QueuedInv'
    <3>1. Len(queue) \in Nat /\ Len(batch) \in Nat
      BY LenProperties DEF TypeOK
    <3>2. Len(queue) <= MaxQueueSize + MaxBatch
      BY <3>1 DEF QueueInv, QueuedInv
    <3> QED
      BY <1>1, <2>1, <3>1, <3>2, EmptyQueue DEF QueueInv, QueuedInv, Sorted, Below
  <2> QED
    BY <2>2, <2>3, <2>4 DEF QueueInv
<1>3. CASE r # Drain
  <2>1. batch' = batch /\ store' = store /\ req'[Drain] = req[Drain]
    BY <1>3 DEF Accept, TypeOK, Requesters
  <2> QED
    BY <1>1, <2>1, QueueSame
<1> QED
  BY <1>2, <1>3

LEMMA FailInv ==
    ASSUME TypeOK, QueueInv, NEW r \in Requesters, NEW retryable \in BOOLEAN, Fail(r, retryable)
    PROVE  QueueInv'
<1> USE ConfigAssumption, InstanceAssumption
<1>1. CASE r = Drain /\ DrainCatches(retryable)
  <2>1. /\ queue' = KeptAfter(retryable) /\ batch' = <<>> /\ tracked' = tracked /\ boot' = boot
        /\ store' = Persisted(queue')
    BY <1>1 DEF DrainCatches, life
  <2>2. queue \in Seq(Events) /\ batch \in Seq(Events) /\ tracked \in Nat
        /\ Len(queue) \in Nat /\ Len(batch) \in Nat
    BY LenProperties DEF TypeOK
  <2>3. /\ queue' \in Seq(Events) /\ Sorted(queue') /\ Below(queue', tracked)
        /\ Len(queue') <= MaxQueueSize + MaxBatch
    <3>1. CASE queue' = <<>>
      BY <3>1, EmptyQueue
    <3>2. CASE queue' = queue
      BY <2>2, <3>2 DEF QueueInv, QueuedInv
    <3>3. CASE queue' = batch \o queue
      <4>1. batch \o queue \in Seq(Events) /\ Len(batch \o queue) = Len(batch) + Len(queue)
        BY <2>2, ConcatProperties
      <4>2. Sorted(batch \o queue) /\ Below(batch \o queue, tracked)
        BY <2>2, ConcatSorted DEF QueueInv, BatchInv, QueuedInv
      <4> QED
        BY <3>3, <4>1, <4>2 DEF QueueInv, QueuedInv
    <3> QED
      BY <2>1, <3>1, <3>2, <3>3 DEF KeptAfter, Requeued
  <2>4. StoredInv'
    BY <2>1, <2>3, PersistedInv
  <2>5. BatchInv'
    BY <2>1, EmptyQueue DEF BatchInv, Sorted, Below
  <2>6. boot \in {"on", "closed"} \/ queue' = <<>>
    BY <2>1, EmptyQueue, ConcatEmptySeq DEF QueueInv, QueuedInv, KeptAfter, Requeued
  <2>7. QueuedInv'
    <3>1. Len(queue') \in Nat
      BY <2>3, LenProperties
    <3> QED
      BY <2>1, <2>3, <2>6, <3>1, EmptyQueue DEF QueuedInv, Sorted, Below
  <2> QED
    BY <2>4, <2>5, <2>7 DEF QueueInv
<1>2. CASE r # Drain
  <2>1. /\ UNCHANGED <<boot, queue, batch, store, tracked>> /\ req'[Drain] = req[Drain]
    BY <1>2 DEF Fail, TypeOK, Requesters, life
  <2> QED
    BY <2>1, QueueSame
<1> QED
  BY <1>1, <1>2 DEF Fail

LEMMA CrashInv == ASSUME TypeOK, QueueInv, Crash PROVE QueueInv'
<1>1. queue' = <<>> /\ batch' = <<>> /\ store' = store /\ tracked' = tracked
  BY DEF Crash
<1>2. StoredInv'
  BY <1>1 DEF QueueInv, StoredInv, Sorted, Below
<1> QED
  BY <1>1, <1>2, EmptyQueue, ConfigAssumption DEF QueueInv, BatchInv, QueuedInv, Sorted, Below

(* The steps of a request that only move it on. *)
LEMMA GoOnInv ==
    ASSUME TypeOK, QueueInv, NEW r \in Requesters,
           Envelope(r) \/ Post(r) \/ Answered(r) \/ BackOff(r) \/ Retry(r)
    PROVE  QueueInv'
<1>1. UNCHANGED <<boot, queue, batch, store, tracked>>
  BY DEF Envelope, Post, Answered, BackOff, Retry, GoOn, life
<1>2. req'[Drain].pc \notin {"idle", "failed"} \/ req'[Drain] = req[Drain]
  <2>1. req \in [Requesters -> Requests]
    BY DEF TypeOK
  <2>2. CASE r = Drain
    <3>1. \/ req' = [req EXCEPT ![r] = [req[r] EXCEPT !.pc = "ready", !.anon = anonId]]
          \/ req' = [req EXCEPT ![r] = [req[r] EXCEPT !.pc = "sent", !.user = userId]]
          \/ req' = [req EXCEPT ![r] = [req[r] EXCEPT !.pc = "body"]]
          \/ req' = [req EXCEPT ![r] = [req[r] EXCEPT !.pc = "pause"]]
          \/ req' = [req EXCEPT ![r] = [req[r] EXCEPT !.pc = "sent", !.attempt = @ + 1]]
      BY DEF Envelope, Post, Answered, BackOff, Retry, GoOn
    <3>2. req[r] \in Requests
      BY <2>1
    <3>3. /\ [req[r] EXCEPT !.pc = "ready", !.anon = anonId].pc = "ready"
          /\ [req[r] EXCEPT !.pc = "sent", !.user = userId].pc = "sent"
          /\ [req[r] EXCEPT !.pc = "body"].pc = "body"
          /\ [req[r] EXCEPT !.pc = "pause"].pc = "pause"
          /\ [req[r] EXCEPT !.pc = "sent", !.attempt = @ + 1].pc = "sent"
      BY <3>2 DEF Requests
    <3>4. \E to : req' = [req EXCEPT ![r] = to] /\ to.pc \in {"ready", "sent", "body", "pause"}
      BY <3>1, <3>3
    <3>5. req'[r].pc \in {"ready", "sent", "body", "pause"}
      BY <2>1, <3>4
    <3> QED
      BY <2>2, <3>5
  <2>3. CASE r # Drain
    BY <2>1, <2>3 DEF Envelope, Post, Answered, BackOff, Retry, GoOn, Requesters
  <2> QED
    BY <2>2, <2>3
<1> QED
  BY <1>1, <1>2, QueueSame

(* The steps of the drain that only end it, and of the visitor's identity. *)
LEMMA OtherInv ==
    ASSUME TypeInv, QueueInv,
           \/ Load \/ AdoptAnonymous \/ AdoptFlag
           \/ TrackSettled \/ TimerFires \/ Flush \/ Shutdown
           \/ DrainDone \/ DrainFailed \/ FlagWritten
           \/ \E n \in Resets : Reset(n) \/ ForgetAnonymous(n) \/ ForgetUser(n)
           \/ \E c \in Customs : Identify(c)
    PROVE  QueueInv'
<1> USE InstanceAssumption
<1>1. req \in [Requesters -> Requests] /\ store \in Stores /\ Drain \in Requesters
  BY DEF TypeInv, TypeOK, Requesters
<1>2. CASE Load \/ AdoptAnonymous \/ AdoptFlag
  BY <1>1, <1>2, QueueSame DEF Load, AdoptAnonymous, AdoptFlag, pipeline, Stores
<1>3. CASE TrackSettled \/ TimerFires \/ Flush \/ Shutdown
  BY <1>3, QueueSame DEF TrackSettled, TimerFires, Flush, Shutdown, OnlyFlushBy, life
<1>4. ASSUME NEW n \in Resets, Reset(n) \/ ForgetAnonymous(n) \/ ForgetUser(n)
      PROVE  QueueInv'
  BY <1>1, <1>4, QueueSame DEF Reset, ForgetAnonymous, ForgetUser, SetUser, Stores, life, pipeline
<1>5. CASE DrainDone \/ DrainFailed
  <2>1. boot' \in {boot, "closed"} /\ UNCHANGED <<queue, batch, store, tracked>>
    BY <1>5 DEF DrainDone, DrainFailed, DrainEnds
  <2>2. req'[Drain].pc \in {"idle", "failed"} => req[Drain].pc \in {"idle", "failed"}
    BY <1>5 DEF DrainDone, DrainFailed
  <2>3. boot' = "closed" \/ boot' = boot
    BY <2>1
  <2> QED
    BY <2>1, <2>2, <2>3, QueueSame
<1>6. CASE FlagWritten
  <2>1. \/ req' = req
        \/ \E c \in Customs : req' = Calling(c)
    <3>1. flagWrites[1] \in Customs \cup Resets
      BY <1>6, ElementOfSeq, EmptySeq DEF FlagWritten, TypeInv, TypeOK
    <3> QED
      BY <1>6, <3>1 DEF FlagWritten, NextFlag
  <2>2. req'[Drain] = req[Drain]
    BY <1>1, <2>1 DEF Calling, Drain
  <2>3. store'.queue = store.queue
    BY <1>1, <1>6 DEF FlagWritten, Stores
  <2> QED
    BY <1>6, <2>2, <2>3, QueueSame DEF FlagWritten, life
<1>7. ASSUME NEW c \in Customs, Identify(c) PROVE QueueInv'
  <2>1. req'[Drain] = req[Drain] /\ store'.queue = store.queue
    BY <1>1, <1>7 DEF Identify, SetUser, Stores, Drain
  <2> QED
    BY <1>7, <2>1, QueueSame DEF Identify, life
<1> QED
  BY <1>2, <1>3, <1>4, <1>5, <1>6, <1>7

LEMMA TrackSingleInv == ASSUME TypeOK, QueueInv, TrackSingle PROVE QueueInv'
<1> USE InstanceAssumption
<1>1. /\ boot = "on" /\ UNCHANGED <<boot, queue, batch, store>> /\ tracked' = tracked + 1
      /\ req' = Calling(tracked + 1) /\ tracked \in Nat /\ req \in [Requesters -> Requests]
  BY DEF TrackSingle, TypeOK, life
<1>2. req'[Drain] = req[Drain]
  BY <1>1 DEF Calling, Drain, Requesters
<1>3. ASSUME NEW s \in Seq(Events), Below(s, tracked) PROVE Below(s, tracked + 1)
  <2>1. \A i \in 1..Len(s) : s[i] \in Nat
    BY ElementOfSeq DEF Events
  <2> QED
    BY <1>1, <1>3, <2>1 DEF Below
<1>4. queue \in Seq(Events) /\ batch \in Seq(Events) /\ store.queue \in Seq(Events)
  BY DEF TypeOK, Stores
<1>5. /\ Below(queue, tracked + 1) /\ Below(batch, tracked + 1)
      /\ Below(store.queue, tracked + 1)
  BY <1>3, <1>4 DEF QueueInv, BatchInv, QueuedInv, StoredInv
<1> QED
  BY <1>1, <1>2, <1>5 DEF QueueInv, BatchInv, QueuedInv, StoredInv, Sorted, Below

LEMMA QueueNext == ASSUME TypeInv, QueueInv, [Next]_vars PROVE QueueInv'
<1>1. TypeOK
  BY DEF TypeInv
<1>2. CASE LoadQueue
  BY <1>1, <1>2, LoadQueueInv
<1>3. CASE Track
  BY <1>1, <1>3, TrackInv
<1>4. CASE TrackSingle
  BY <1>1, <1>4, TrackSingleInv
<1>5. CASE DrainTakes
  BY <1>1, <1>5, DrainTakesInv
<1>6. ASSUME NEW r \in Requesters, Step(r) PROVE QueueInv'
  BY <1>1, <1>6, GoOnInv, AcceptInv, FailInv DEF Step
<1>7. CASE Crash
  BY <1>1, <1>7, CrashInv
<1>8. CASE \/ Load \/ AdoptAnonymous \/ AdoptFlag
           \/ TrackSettled \/ TimerFires \/ Flush \/ Shutdown
           \/ DrainDone \/ DrainFailed \/ FlagWritten
           \/ \E n \in Resets : Reset(n) \/ ForgetAnonymous(n) \/ ForgetUser(n)
           \/ \E c \in Customs : Identify(c)
  BY <1>8, OtherInv
<1>9. CASE UNCHANGED vars
  BY <1>9, QueueSame DEF vars
<1> QED
  BY <1>2, <1>3, <1>4, <1>5, <1>6, <1>7, <1>8, <1>9 DEF Next

LEMMA QueueInvariant == Spec => [](TypeInv /\ QueueInv)
<1>1. Init => TypeInv /\ QueueInv
  BY TypeInit, QueueInit
<1>2. (TypeInv /\ QueueInv) /\ [Next]_vars => (TypeInv /\ QueueInv)'
  BY TypeNext, QueueNext
<1> QED
  BY <1>1, <1>2, PTL DEF Spec

(* The batch being sent and the queue behind it are always in the order of *)
(* the track calls and without duplicates: for every configuration, every  *)
(* number of events, retries, flushes and restarts.                        *)
THEOREM OrderKept == Spec => []QueueOrder
<1>1. TypeInv /\ QueueInv => QueueOrder
  BY QueueInvMeans DEF TypeInv
<1> QED
  BY <1>1, QueueInvariant, PTL

(* Memory holds at most maxQueueSize + MAX_BATCH events: the requeue of    *)
(* drain may exceed maxQueueSize, but never by more than a batch.          *)
THEOREM MemoryBounded == Spec => []HeldBounded
<1>1. TypeInv /\ QueueInv => HeldBounded
  BY QueueInvMeans DEF TypeInv
<1> QED
  BY <1>1, QueueInvariant, PTL

-----------------------------------------------------------------------------
(* The queue in memory is always a suffix of the queue in storage: a crash *)
(* loses no event that waits, except those of the batch being sent.        *)

(* s is the end of t, element by element. *)
EndOf(s, t) ==
    /\ Len(s) <= Len(t)
    /\ \A i \in 1..Len(s) : s[i] = t[i + (Len(t) - Len(s))]

LEMMA ReverseProps ==
    ASSUME NEW s \in Seq(Events)
    PROVE  /\ Reverse(s) \in Seq(Events) /\ Len(Reverse(s)) = Len(s)
           /\ \A i \in 1..Len(s) : Reverse(s)[i] = s[Len(s) - i + 1]
<1>1. Len(s) \in Nat
  BY LenProperties
<1>2. \A i \in 1..Len(s) : s[Len(s) - i + 1] \in Events
  <2> TAKE i \in 1..Len(s)
  <2>1. Len(s) - i + 1 \in 1..Len(s)
    BY <1>1
  <2> QED
    BY <2>1, ElementOfSeq
<1>3. Reverse(s) \in [1..Len(s) -> Events]
  BY <1>2 DEF Reverse
<1>4. Reverse(s) \in Seq(Events)
  BY <1>1, <1>3, IsASeq
<1>5. DOMAIN Reverse(s) = 1..Len(s)
  BY DEF Reverse
<1>6. Len(Reverse(s)) = Len(s)
  BY <1>1, <1>4, <1>5, LenProperties
<1> QED
  BY <1>4, <1>6 DEF Reverse

LEMMA EndIsSuffix ==
    ASSUME NEW s \in Seq(Events), NEW t \in Seq(Events), EndOf(s, t)
    PROVE  IsSuffix(s, t)
<1> DEFINE r == Reverse(s)
           u == Reverse(t)
           n == Len(s)
<1>1. n \in Nat /\ Len(t) \in Nat /\ n <= Len(t)
  BY LenProperties DEF EndOf
<1>2. /\ r \in Seq(Events) /\ Len(r) = n /\ \A i \in 1..n : r[i] = s[n - i + 1]
      /\ u \in Seq(Events) /\ Len(u) = Len(t) /\ \A i \in 1..Len(t) : u[i] = t[Len(t) - i + 1]
  BY ReverseProps
<1>3. \A i \in 1..n : r[i] = u[i]
  <2> TAKE i \in 1..n
  <2>1. n - i + 1 \in 1..n /\ (n - i + 1) + (Len(t) - n) = Len(t) - i + 1 /\ i \in 1..Len(t)
    BY <1>1
  <2>2. s[n - i + 1] = t[Len(t) - i + 1]
    BY <2>1 DEF EndOf
  <2> QED
    BY <1>2, <2>1, <2>2
<1> HIDE DEF r, u, n
<1>4. \A i \in 1..n : r[i] \in Events /\ u[i] \in Events
  BY <1>1, <1>2, ElementOfSeq
<1>5. /\ SubSeq(r, 1, n) \in Seq(Events) /\ Len(SubSeq(r, 1, n)) = n
      /\ \A i \in 1..n : SubSeq(r, 1, n)[i] = r[i]
  BY <1>1, <1>4, SubSeqProperties
<1>6. /\ SubSeq(u, 1, n) \in Seq(Events) /\ Len(SubSeq(u, 1, n)) = n
      /\ \A i \in 1..n : SubSeq(u, 1, n)[i] = u[i]
  BY <1>1, <1>4, SubSeqProperties
<1>7. SubSeq(r, 1, n) = SubSeq(u, 1, n)
  BY <1>3, <1>5, <1>6, SeqEqual
<1>8. IsPrefix(r, u)
  BY <1>1, <1>2, <1>7 DEF IsPrefix
<1> QED
  BY <1>8 DEF IsSuffix, r, u

-----------------------------------------------------------------------------
Loaded == boot \in {"on", "closed"}
StoredEnd == PersistQueue /\ Loaded => EndOf(queue, store.queue)

(* Only a loaded client is shut down: its drain closes no other. *)
ShutsLoaded == \A i \in 1..Len(chain) : chain[i] = Closer => Loaded

LEMMA EndSelf == ASSUME NEW s \in Seq(Events) PROVE EndOf(s, s)
  BY LenProperties DEF EndOf

(* What a batch leaves of the queue, or a trim of the stored queue. *)
LEMMA EndAfter ==
    ASSUME NEW s \in Seq(Events), NEW t \in Seq(Events), EndOf(s, t), NEW n \in Nat
    PROVE  EndOf(AfterN(s, n), t)
<1> DEFINE k == Smaller(n, Len(s))
           a == AfterN(s, n)
<1>1. Len(s) \in Nat /\ Len(t) \in Nat /\ k \in Nat /\ k <= Len(s) /\ Len(s) <= Len(t)
  BY LenProperties DEF Smaller, EndOf
<1>2. Len(a) = Len(s) - k /\ \A i \in 1..Len(a) : a[i] = s[i + k]
  BY AfterNProps
<1> HIDE DEF k, a
<1>3. \A i \in 1..Len(a) : a[i] = t[i + (Len(t) - Len(a))]
  <2> TAKE i \in 1..Len(a)
  <2>1. i + k \in 1..Len(s) /\ (i + k) + (Len(t) - Len(s)) = i + (Len(t) - Len(a))
    BY <1>1, <1>2
  <2>2. s[i + k] = t[(i + k) + (Len(t) - Len(s))]
    BY <2>1 DEF EndOf
  <2> QED
    BY <1>2, <2>1, <2>2
<1> QED
  BY <1>1, <1>2, <1>3 DEF EndOf, a

LEMMA EndSame ==
    ASSUME StoredEnd, queue' = queue, store'.queue = store.queue,
           Loaded' => Loaded
    PROVE  StoredEnd'
  BY DEF StoredEnd, EndOf

LEMMA EndPersisted ==
    ASSUME TypeOK, TypeOK', store' = Persisted(queue')
    PROVE  StoredEnd'
<1>1. queue' \in Seq(Events) /\ store \in Stores
  BY DEF TypeOK
<1>2. PersistQueue => store'.queue = queue'
  BY <1>1 DEF Persisted, Stores
<1>3. EndOf(queue', queue')
  BY <1>1, EndSelf
<1> QED
  BY <1>2, <1>3 DEF StoredEnd, Loaded, EndOf

LEMMA EndLoaded == ASSUME TypeOK, QueueInv, LoadQueue PROVE StoredEnd'
<1>1. queue = <<>> /\ store' = store
  BY DEF LoadQueue, QueueInv, QueuedInv
<1>2. store.queue \in Seq(Events) /\ store.queue \o <<>> = store.queue
  BY ConcatEmptySeq DEF TypeOK, Stores
<1>3. PersistQueue => queue' = Newest(store.queue)
  BY <1>1, <1>2 DEF LoadQueue
<1>4. Len(store.queue) - Smaller(MaxQueueSize, Len(store.queue)) \in Nat
  BY <1>2, LenProperties, ConfigAssumption DEF Smaller
<1>5. EndOf(Newest(store.queue), store.queue)
  BY <1>2, <1>4, EndSelf, EndAfter DEF Newest
<1> QED
  BY <1>1, <1>3, <1>5 DEF StoredEnd, Loaded, EndOf

LEMMA EndTaken == ASSUME TypeOK, StoredEnd, DrainTakes PROVE StoredEnd'
<1>1. /\ queue' = AfterN(queue, MaxBatch) /\ store' = store /\ boot' = boot
      /\ queue \in Seq(Events) /\ store.queue \in Seq(Events) /\ MaxBatch \in Nat
  BY ConfigAssumption DEF DrainTakes, life, TypeOK, Stores
<1>2. EndOf(queue, store.queue) => EndOf(queue', store.queue)
  BY <1>1, EndAfter
<1> QED
  BY <1>1, <1>2 DEF StoredEnd, Loaded, EndOf

LEMMA EndStep ==
    ASSUME TypeOK, TypeOK', StoredEnd, NEW r \in Requesters, Step(r)
    PROVE  StoredEnd'
<1>1. CASE Envelope(r) \/ Post(r) \/ Answered(r) \/ BackOff(r) \/ Retry(r)
  <2>1. UNCHANGED <<boot, queue, store>>
    BY <1>1 DEF Envelope, Post, Answered, BackOff, Retry, GoOn, life
  <2> QED
    BY <2>1, EndSame DEF Loaded
<1>2. CASE Accept(r)
  <2>1. queue' = queue /\ boot' = boot /\ (store' = store \/ store' = Persisted(queue'))
    BY <1>2 DEF Accept, life
  <2> QED
    BY <2>1, EndSame, EndPersisted DEF Loaded
<1>3. ASSUME NEW retryable \in BOOLEAN, Fail(r, retryable) PROVE StoredEnd'
  <2>1. CASE DrainCatches(retryable)
    BY <2>1, EndPersisted DEF DrainCatches
  <2>2. CASE r # Drain
    BY <1>3, <2>2, EndSame DEF Fail, Loaded, life
  <2> QED
    BY <1>3, <2>1, <2>2 DEF Fail
<1> QED
  BY <1>1, <1>2, <1>3 DEF Step

(* The steps that touch neither the queue nor its copy. *)
LEMMA EndOther ==
    ASSUME TypeInv, StoredEnd, ShutsLoaded,
           \/ Load \/ AdoptAnonymous \/ AdoptFlag
           \/ TrackSingle \/ TrackSettled \/ TimerFires \/ Flush \/ Shutdown
           \/ DrainDone \/ DrainFailed \/ FlagWritten
           \/ \E n \in Resets : Reset(n) \/ ForgetAnonymous(n) \/ ForgetUser(n)
           \/ \E c \in Customs : Identify(c)
    PROVE  StoredEnd'
<1>1. store \in Stores
  BY DEF TypeInv, TypeOK
<1>2. CASE Load \/ AdoptAnonymous \/ AdoptFlag
  BY <1>1, <1>2 DEF Load, AdoptAnonymous, AdoptFlag, StoredEnd, Loaded
<1>3. CASE TrackSingle \/ TrackSettled \/ TimerFires \/ Flush \/ Shutdown
  BY <1>3, EndSame DEF TrackSingle, TrackSettled, TimerFires, Flush, Shutdown, OnlyFlushBy, Loaded, life
<1>4. ASSUME NEW n \in Resets, Reset(n) \/ ForgetAnonymous(n) \/ ForgetUser(n)
      PROVE  StoredEnd'
  BY <1>1, <1>4, EndSame DEF Reset, ForgetAnonymous, ForgetUser, SetUser, Stores, Loaded, life, pipeline
<1>5. CASE DrainDone \/ DrainFailed
  <2>1. UNCHANGED <<queue, store>>
    BY <1>5 DEF DrainDone, DrainFailed
  <2>3. chain \in Seq(Owners) /\ chain # <<>>
    BY <1>5 DEF TypeInv, TypeOK, DrainHead, DrainDone, DrainFailed
  <2>4. boot' = boot \/ chain[1] = Closer
    BY <1>5, <2>3, HeadTailProperties DEF DrainDone, DrainFailed, DrainEnds
  <2>5. 1 \in 1..Len(chain)
    BY <2>3, EmptySeq
  <2>6. Loaded' => Loaded
    BY <2>4, <2>5 DEF ShutsLoaded, Loaded
  <2> QED
    BY <2>1, <2>6, EndSame
<1>6. CASE FlagWritten
  BY <1>1, <1>6, EndSame DEF FlagWritten, Stores, Loaded, life
<1>7. ASSUME NEW c \in Customs, Identify(c) PROVE StoredEnd'
  BY <1>1, <1>7, EndSame DEF Identify, SetUser, Stores, Loaded, life
<1> QED
  BY <1>2, <1>3, <1>4, <1>5, <1>6, <1>7

-----------------------------------------------------------------------------
LEMMA ShutsSame ==
    ASSUME ShutsLoaded, chain' = chain, Loaded => Loaded'
    PROVE  ShutsLoaded'
  BY DEF ShutsLoaded

LEMMA ShutsFlush ==
    ASSUME ShutsLoaded, chain \in Seq(Owners), Loaded => Loaded', NEW owner \in Owners,
           FlushBy(owner), owner = Closer => Loaded
    PROVE  ShutsLoaded'
<1>1. /\ Len(chain) \in Nat /\ Len(chain') = Len(chain) + 1
      /\ \A i \in 1..Len(chain) : chain'[i] = chain[i]
      /\ chain'[Len(chain) + 1] = owner
  BY AppendProperties, LenProperties DEF FlushBy
<1>2. ASSUME NEW i \in 1..Len(chain'), chain'[i] = Closer PROVE Loaded'
  <2>1. i \in 1..Len(chain) \/ i = Len(chain) + 1
    BY <1>1
  <2> QED
    BY <1>1, <1>2, <2>1 DEF ShutsLoaded
<1> QED
  BY <1>2 DEF ShutsLoaded

LEMMA ShutsEnds ==
    ASSUME ShutsLoaded, chain \in Seq(Owners), chain # <<>>, NEW ok \in BOOLEAN, DrainEnds(ok)
    PROVE  ShutsLoaded'
<1>1. /\ Len(chain) \in Nat \ {0} /\ Len(chain') = Len(chain) - 1
      /\ \A i \in 1..Len(chain') : chain'[i] = chain[i + 1]
  BY HeadTailProperties, EmptySeq DEF DrainEnds
<1>2. Loaded => Loaded'
  BY DEF DrainEnds, Loaded
<1>3. ASSUME NEW i \in 1..Len(chain'), chain'[i] = Closer PROVE Loaded'
  <2>1. i + 1 \in 1..Len(chain) /\ chain[i + 1] = Closer
    BY <1>1, <1>3
  <2> QED
    BY <1>2, <2>1 DEF ShutsLoaded
<1> QED
  BY <1>3 DEF ShutsLoaded

LEMMA ShutsNext == ASSUME TypeInv, ShutsLoaded, [Next]_vars PROVE ShutsLoaded'
<1>1. chain \in Seq(Owners)
  BY DEF TypeInv, TypeOK
<1>2. CASE Load \/ AdoptAnonymous \/ AdoptFlag \/ LoadQueue
  BY <1>2, ShutsSame DEF Load, AdoptAnonymous, AdoptFlag, LoadQueue, Loaded, pipeline
<1>3. CASE Track \/ TrackSingle \/ DrainTakes
  BY <1>3, ShutsSame DEF Track, TrackSingle, DrainTakes, Loaded, life
<1>4. CASE TrackSettled
  BY <1>1, <1>4, ShutsSame, ShutsFlush, OwnersApart DEF TrackSettled, Loaded, Owners, life
<1>5. CASE TimerFires \/ Flush \/ Shutdown
  BY <1>1, <1>5, ShutsFlush, OwnersApart
     DEF TimerFires, Flush, Shutdown, OnlyFlushBy, Loaded, Owners, life
<1>6. CASE DrainDone \/ DrainFailed
  <2>1. chain # <<>>
    BY <1>6 DEF TypeInv, DrainHead, DrainDone, DrainFailed
  <2>2. \E ok \in BOOLEAN : DrainEnds(ok)
    BY <1>6, ConfigAssumption DEF DrainDone, DrainFailed
  <2> QED
    BY <1>1, <2>1, <2>2, ShutsEnds
<1>7. ASSUME NEW r \in Requesters, Step(r) PROVE ShutsLoaded'
  <2>1. chain' = chain /\ boot' = boot
    BY <1>7 DEF Step, Envelope, Post, Answered, BackOff, Retry, GoOn, Accept, Fail, DrainCatches,
                life
  <2> QED
    BY <2>1, ShutsSame DEF Loaded
<1>8. ASSUME NEW n \in Resets, Reset(n) PROVE ShutsLoaded'
  BY <1>1, <1>8, ShutsFlush, OwnersApart DEF Reset, Loaded, Owners, life
<1>9. ASSUME FlagWritten \/ \E n \in Resets : ForgetAnonymous(n) \/ ForgetUser(n)
      PROVE  ShutsLoaded'
  BY <1>9, ShutsSame DEF ForgetAnonymous, ForgetUser, FlagWritten, Loaded, life, pipeline
<1>10. ASSUME NEW c \in Customs, Identify(c) PROVE ShutsLoaded'
  BY <1>10, ShutsSame DEF Identify, Loaded, life
<1>11. CASE Crash
  <2>1. Len(chain') = 0
    BY <1>11, EmptyQueue DEF Crash
  <2> QED
    BY <2>1 DEF ShutsLoaded
<1>12. CASE UNCHANGED vars
  BY <1>12, ShutsSame DEF vars, Loaded
<1> QED
  BY <1>2, <1>3, <1>4, <1>5, <1>6, <1>7, <1>8, <1>9, <1>10, <1>11, <1>12 DEF Next

LEMMA StoredNext ==
    ASSUME TypeInv, TypeInv', QueueInv, StoredEnd, ShutsLoaded, [Next]_vars
    PROVE  StoredEnd'
<1>1. TypeOK /\ TypeOK'
  BY DEF TypeInv
<1>2. CASE LoadQueue
  BY <1>1, <1>2, EndLoaded
<1>3. CASE Track
  BY <1>1, <1>3, EndPersisted DEF Track
<1>4. CASE DrainTakes
  BY <1>1, <1>4, EndTaken
<1>5. ASSUME NEW r \in Requesters, Step(r) PROVE StoredEnd'
  BY <1>1, <1>5, EndStep
<1>6. CASE Crash
  BY <1>6 DEF Crash, StoredEnd, Loaded
<1>7. CASE \/ Load \/ AdoptAnonymous \/ AdoptFlag
           \/ TrackSingle \/ TrackSettled \/ TimerFires \/ Flush \/ Shutdown
           \/ DrainDone \/ DrainFailed \/ FlagWritten
           \/ \E n \in Resets : Reset(n) \/ ForgetAnonymous(n) \/ ForgetUser(n)
           \/ \E c \in Customs : Identify(c)
  BY <1>7, EndOther
<1>8. CASE UNCHANGED vars
  BY <1>8, EndSame DEF vars, Loaded
<1> QED
  BY <1>2, <1>3, <1>4, <1>5, <1>6, <1>7, <1>8 DEF Next

(* With persistQueue the queue in memory is always the end of the stored   *)
(* one: however tracks, drains, trims and failures interleave, a crash     *)
(* finds every event in storage that waited behind the batch being sent.   *)
THEOREM QueueIsStored == Spec => []QueueStored
<1> DEFINE I == TypeInv /\ QueueInv /\ StoredEnd /\ ShutsLoaded
<1>1. Init => I
  <2>1. Init => StoredEnd
    BY DEF Init, StoredEnd, Loaded
  <2>2. Init => ShutsLoaded
    BY EmptyQueue DEF Init, ShutsLoaded
  <2> QED
    BY <2>1, <2>2, TypeInit, QueueInit
<1>2. I /\ [Next]_vars => I'
  BY TypeNext, QueueNext, StoredNext, ShutsNext
<1>3. I => QueueStored
  <2> SUFFICES ASSUME I, PersistQueue, Loaded PROVE IsSuffix(queue, store.queue)
    BY DEF QueueStored, Loaded
  <2>1. queue \in Seq(Events) /\ store.queue \in Seq(Events)
    BY DEF TypeInv, TypeOK, Stores
  <2> QED
    BY <2>1, EndIsSuffix DEF StoredEnd
<1> QED
  BY <1>1, <1>2, <1>3, PTL DEF Spec

-----------------------------------------------------------------------------
(* The identity in memory and its copy in storage.  The identified flag is *)
(* stored after the id, by writes that resolve in the order of the calls,  *)
(* so what matters is the last one that waits.                             *)

SameIds == store.user = userId /\ store.anon = anonId

(* What init has established at each of its awaits. *)
Booted ==
    /\ boot \in {"user", "flag", "queue"} => store.anon = anonId
    /\ boot = "flag" => SameIds /\ ~identified
    /\ boot = "queue" => SameIds /\ store.identified = identified

(* identify and reset only run on a loaded client. *)
OnlyLoaded == ~Loaded => ResetsSettled /\ flagWrites = <<>>

Mirror ==
    Loaded =>
        /\ SameIds
        /\ identified = IF flagWrites = <<>> THEN store.identified
                                             ELSE flagWrites[Len(flagWrites)] \in Customs

IdentityInv == Booted /\ OnlyLoaded /\ Mirror

Nobody == ~identified /\ userId \notin Customs
Forgetting == \E n \in Resets : reset[n] \in {"flush", "anonymous", "user"}
OutWriting == loggedOut /\ ~Forgetting => Nobody
OutSettled ==
    loggedOut /\ ResetsSettled =>
        /\ Nobody /\ flagWrites = <<>>
        /\ ~store.identified /\ store.user \notin Customs

OutInv == OutWriting /\ OutSettled

LEMMA NotCustom == ASSUME NEW id \in Anons \cup {None} PROVE id \notin Customs
  BY InstanceAssumption DEF Anons, None

LEMMA IdentityInit == Init => IdentityInv /\ OutInv
  BY DEF Init, IdentityInv, Booted, OnlyLoaded, ResetsSettled, Mirror, Loaded, OutInv, OutWriting,
         OutSettled

-----------------------------------------------------------------------------
(* A step that leaves the identity, its copy and its calls where they are. *)
LEMMA IdentitySame ==
    ASSUME IdentityInv, UNCHANGED <<userId, anonId, identified, flagWrites>>,
           store'.user = store.user, store'.anon = store.anon,
           store'.identified = store.identified,
           boot' = boot \/ (boot = "queue" /\ boot' = "on") \/ (boot = "on" /\ boot' = "closed"),
           reset' = reset \/ Loaded
    PROVE  IdentityInv'
<1>1. CASE Loaded
  BY <1>1 DEF IdentityInv, Booted, OnlyLoaded, Mirror, SameIds, Loaded
<1>2. CASE ~Loaded
  BY <1>2 DEF IdentityInv, Booted, OnlyLoaded, ResetsSettled, Mirror, SameIds, Loaded
<1> QED
  BY <1>1, <1>2

LEMMA OutSame ==
    ASSUME OutInv, UNCHANGED <<userId, identified, flagWrites, loggedOut>>,
           store'.user = store.user, store'.identified = store.identified,
           reset' = reset \/ Forgetting'
    PROVE  OutInv'
<1>1. Forgetting => ~ResetsSettled
  BY DEF Forgetting, ResetsSettled
<1>2. CASE reset' = reset
  BY <1>2 DEF OutInv, OutWriting, OutSettled, Nobody, Forgetting, ResetsSettled
<1>3. CASE Forgetting'
  <2>1. ~ResetsSettled'
    BY <1>3 DEF Forgetting, ResetsSettled
  <2> QED
    BY <1>3, <2>1 DEF OutInv, OutWriting, OutSettled
<1> QED
  BY <1>2, <1>3

(* The queue is persisted in the same storage, under a key of its own. *)
LEMMA PersistKeepsIds ==
    ASSUME TypeOK, NEW s, store' = store \/ store' = Persisted(s)
    PROVE  store'.user = store.user /\ store'.anon = store.anon
           /\ store'.identified = store.identified
  BY DEF TypeOK, Stores, Persisted

LEMMA BootIdentity ==
    ASSUME TypeInv, IdentityInv, Load \/ AdoptAnonymous \/ AdoptFlag
    PROVE  IdentityInv'
<1>1. /\ store \in Stores /\ identified \in BOOLEAN /\ store.identified \in BOOLEAN
      /\ ~Loaded => ResetsSettled /\ flagWrites = <<>>
  BY DEF TypeInv, TypeOK, Stores, IdentityInv, OnlyLoaded
<1>2. CASE Load
  <2>1. /\ boot = "off" /\ ~Loaded' /\ reset' = reset /\ flagWrites' = flagWrites
        /\ store'.user = store.user /\ store'.identified = store.identified
        /\ store'.anon = anonId' /\ userId' = store.user
        /\ boot' = IF store.user # None THEN "queue" ELSE "user"
        /\ store.user # None => identified' = store.identified
    BY <1>1, <1>2 DEF Load, Loaded, Stores
  <2> QED
    BY <1>1, <2>1 DEF IdentityInv, Booted, OnlyLoaded, ResetsSettled, Mirror, SameIds, Loaded
<1>3. CASE AdoptAnonymous
  <2>1. /\ boot = "user" /\ boot' = "flag" /\ UNCHANGED <<anonId, flagWrites, reset>>
        /\ store'.user = anonId /\ store'.anon = store.anon
        /\ userId' = anonId /\ identified' = FALSE
    BY <1>1, <1>3 DEF AdoptAnonymous, Stores
  <2> QED
    BY <1>1, <2>1 DEF IdentityInv, Booted, OnlyLoaded, ResetsSettled, Mirror, SameIds, Loaded
<1>4. CASE AdoptFlag
  <2>1. /\ boot = "flag" /\ boot' = "queue"
        /\ UNCHANGED <<userId, anonId, identified, flagWrites, reset>>
        /\ store'.user = store.user /\ store'.anon = store.anon /\ store'.identified = FALSE
    BY <1>1, <1>4 DEF AdoptFlag, identity, who, Stores
  <2> QED
    BY <1>1, <2>1 DEF IdentityInv, Booted, OnlyLoaded, ResetsSettled, Mirror, SameIds, Loaded
<1> QED
  BY <1>2, <1>3, <1>4

(* A restart finds nobody, when settled resets left nobody. *)
LEMMA BootOut ==
    ASSUME TypeInv, IdentityInv, OutInv, Load \/ AdoptAnonymous \/ AdoptFlag
    PROVE  OutInv'
<1>1. store \in Stores /\ anonId \in Anons \cup {None}
  BY DEF TypeInv, TypeOK
<1>2. ResetsSettled /\ UNCHANGED <<reset, flagWrites, loggedOut>>
  BY DEF Load, AdoptAnonymous, AdoptFlag, identity, who, IdentityInv, OnlyLoaded, Loaded
<1>6. (loggedOut => Nobody /\ ~store.identified /\ store.user \notin Customs /\ flagWrites = <<>>)
  BY <1>2 DEF OutInv, OutSettled
<1>3. CASE Load
  <2>1. /\ store'.user = store.user /\ store'.identified = store.identified
        /\ userId' = store.user /\ (identified' => store.identified)
    BY <1>1, <1>3 DEF Load, Stores
  <2> QED
    BY <1>2, <1>6, <2>1 DEF OutInv, OutWriting, OutSettled, Nobody
<1>4. CASE AdoptAnonymous
  <2>1. /\ store'.user = anonId /\ store'.identified = store.identified
        /\ userId' = anonId /\ ~identified'
    BY <1>1, <1>4 DEF AdoptAnonymous, Stores
  <2>2. anonId \notin Customs
    BY <1>1, NotCustom
  <2> QED
    BY <1>2, <1>6, <2>1, <2>2 DEF OutInv, OutWriting, OutSettled, Nobody
<1>5. CASE AdoptFlag
  <2>1. /\ store'.user = store.user /\ ~store'.identified
        /\ userId' = userId /\ identified' = identified
    BY <1>1, <1>5 DEF AdoptFlag, identity, who, Stores
  <2> QED
    BY <1>2, <1>6, <2>1 DEF OutInv, OutWriting, OutSettled, Nobody
<1> QED
  BY <1>3, <1>4, <1>5

-----------------------------------------------------------------------------
(* identify and reset *)

LEMMA SetUserIdentity ==
    ASSUME TypeInv, IdentityInv, Loaded, Loaded', NEW id \in Ids, NEW flag \in BOOLEAN,
           NEW call \in Customs \cup Resets, flag = (call \in Customs), SetUser(id, flag, call),
           anonId' = anonId
    PROVE  IdentityInv'
<1>1. /\ store' \in Stores /\ store'.anon = store.anon /\ store'.user = id
      /\ flagWrites' \in Seq(Customs \cup Resets)
      /\ Len(flagWrites') = Len(flagWrites) + 1
      /\ flagWrites'[Len(flagWrites) + 1] = call
  BY SetUserType
<1>2. Len(flagWrites) \in Nat
  BY LenProperties DEF TypeInv, TypeOK
<1>3. flagWrites' # <<>> /\ flagWrites'[Len(flagWrites')] = call
  BY <1>1, <1>2, EmptySeq
<1>4. userId' = id /\ identified' = flag
  BY DEF SetUser
<1> QED
  BY <1>1, <1>3, <1>4 DEF IdentityInv, Booted, OnlyLoaded, Mirror, SameIds, Loaded

LEMMA IdentifyIdentity ==
    ASSUME TypeInv, IdentityInv, NEW c \in Customs, Identify(c)
    PROVE  IdentityInv' /\ OutInv'
<1>1. c \in Ids /\ c \in Customs \cup Resets
  BY DEF Ids
<1>2. Loaded /\ Loaded'
  BY DEF Identify, Loaded, life
<1>3. IdentityInv'
  BY <1>1, <1>2, SetUserIdentity DEF Identify
<1>4. OutInv'
  BY DEF Identify, OutInv, OutWriting, OutSettled
<1> QED
  BY <1>3, <1>4

LEMMA ForgetIdentity ==
    ASSUME TypeInv, IdentityInv, NEW n \in Resets, ForgetAnonymous(n) \/ ForgetUser(n)
    PROVE  IdentityInv' /\ (OutInv => OutInv')
<1>1. /\ store \in Stores /\ anonId \in Anons \cup {None} /\ anonId \in Ids
      /\ reset \in [Resets -> {"new", "flush", "anonymous", "user", "flag", "done"}]
  BY DEF TypeInv, TypeOK, Ids
<1>2. Loaded /\ Loaded'
  <2>1. ~ResetsSettled /\ boot' = boot
    BY DEF ForgetAnonymous, ForgetUser, FirstAt, ResetsSettled, life
  <2> QED
    BY <2>1 DEF IdentityInv, OnlyLoaded, Loaded
<1>3. CASE ForgetAnonymous(n)
  <2>1. /\ UNCHANGED <<userId, identified, flagWrites, loggedOut, boot>> /\ reset'[n] = "user"
        /\ store'.user = store.user /\ store'.identified = store.identified
        /\ store'.anon = anonId'
    BY <1>1, <1>3 DEF ForgetAnonymous, life, Stores
  <2>2. IdentityInv'
    BY <1>2, <2>1 DEF IdentityInv, Booted, OnlyLoaded, Mirror, SameIds, Loaded
  <2>3. OutInv => OutInv'
    BY <2>1, OutSame DEF Forgetting
  <2> QED
    BY <2>2, <2>3
<1>4. CASE ForgetUser(n)
  <2>1. n \in Customs \cup Resets /\ FALSE = (n \in Customs) /\ FALSE \in BOOLEAN
    BY InstanceAssumption DEF Resets
  <2>2. SetUser(anonId, FALSE, n) /\ anonId' = anonId
    BY <1>4 DEF ForgetUser
  <2>3. IdentityInv'
    BY <1>1, <1>2, <2>1, <2>2, SetUserIdentity
  <2>4. userId' \notin Customs /\ ~identified' /\ reset'[n] = "flag"
    BY <1>1, <1>4, NotCustom DEF ForgetUser, SetUser
  <2>5. ~ResetsSettled'
    BY <2>4 DEF ResetsSettled
  <2> QED
    BY <2>3, <2>4, <2>5 DEF OutInv, OutWriting, OutSettled, Nobody
<1> QED
  BY <1>3, <1>4

(* The flag write that settles the last reset, with no identify since, is  *)
(* the last that waits: after it nobody is identified, in memory and in    *)
(* storage.                                                                *)
LEMMA WrittenIdentity ==
    ASSUME TypeInv, IdentityInv, FlagWritten
    PROVE  IdentityInv' /\ (OutInv => OutInv')
<1> DEFINE call == flagWrites[1]
           n == Len(flagWrites)
<1>1. /\ n \in Nat \ {0} /\ call \in Customs \cup Resets
      /\ flagWrites' \in Seq(Customs \cup Resets) /\ Len(flagWrites') = n - 1
      /\ \A i \in 1..Len(flagWrites') : flagWrites'[i] = flagWrites[i + 1]
  BY FlagsLeft DEF TypeInv
<1>2. /\ store' = [store EXCEPT !.identified = (call \in Customs)]
      /\ reset' = [m \in Resets |-> IF m = call THEN "done" ELSE reset[m]]
      /\ UNCHANGED <<boot, userId, anonId, identified, loggedOut>>
  BY DEF FlagWritten, NextFlag, life
<1>3. flagWrites # <<>> /\ Loaded
  BY DEF FlagWritten, IdentityInv, OnlyLoaded
<1>4. SameIds /\ identified = (flagWrites[n] \in Customs)
  BY <1>3 DEF IdentityInv, Mirror
<1>5. \A m \in Resets : call = m => reset[m] = "flag" /\ (n # 1 => flagWrites[n] # m)
  <2>1. 1 \in 1..Len(flagWrites) /\ n \in 1..Len(flagWrites)
    BY <1>1
  <2> QED
    BY <1>1, <2>1 DEF TypeInv, OneReset
<1>6. flagWrites[n] \in Customs \cup Resets
  BY <1>1, ElementOfSeq DEF TypeInv, TypeOK
<1>7. \A m \in Resets : flagWrites[n] = m => reset[m] = "flag"
  BY <1>1 DEF TypeInv, OneReset
<1> HIDE DEF call, n
<1>8. /\ store'.user = store.user /\ store'.anon = store.anon
      /\ store'.identified = (call \in Customs)
  BY <1>2 DEF TypeInv, TypeOK, Stores
<1>9. /\ Forgetting' <=> Forgetting
      /\ OutInv /\ loggedOut /\ ResetsSettled' => Nobody
  <2>1. \A m \in Resets : reset'[m] = reset[m] \/ (reset'[m] = "done" /\ reset[m] = "flag")
    BY <1>2, <1>5
  <2>2. Forgetting' <=> Forgetting
    BY <2>1 DEF Forgetting
  <2>3. ResetsSettled' => ~Forgetting'
    BY DEF ResetsSettled, Forgetting
  <2> QED
    BY <2>2, <2>3 DEF OutInv, OutWriting
<1>10. CASE n = 1
  <2>1. flagWrites' = <<>> /\ identified = (call \in Customs)
    BY <1>1, <1>4, <1>10, EmptySeq DEF call
  <2>2. IdentityInv'
    BY <1>2, <1>3, <1>4, <1>8, <2>1 DEF IdentityInv, Booted, OnlyLoaded, Mirror, SameIds, Loaded
  <2>3. OutInv => OutInv'
    BY <1>2, <1>4, <1>8, <1>9, <2>1 DEF OutInv, OutWriting, OutSettled, Nobody, SameIds
  <2> QED
    BY <2>2, <2>3
<1>11. CASE n # 1
  <2>1. flagWrites' # <<>> /\ flagWrites'[Len(flagWrites')] = flagWrites[n]
    BY <1>1, <1>11, EmptySeq
  <2>2. IdentityInv'
    BY <1>2, <1>3, <1>4, <1>8, <2>1 DEF IdentityInv, Booted, OnlyLoaded, Mirror, SameIds, Loaded
  <2>3. ASSUME OutInv PROVE ~(loggedOut /\ ResetsSettled')
    <3> SUFFICES ASSUME loggedOut, ResetsSettled' PROVE FALSE
      OBVIOUS
    <3>1. flagWrites[n] \notin Customs
      BY <1>4, <1>9, <2>3 DEF Nobody
    <3>2. PICK m \in Resets : flagWrites[n] = m
      BY <1>6, <3>1
    <3>3. reset'[m] = "flag"
      BY <1>2, <1>5, <1>7, <1>11, <3>2
    <3> QED
      BY <3>3 DEF ResetsSettled
  <2>4. OutInv => OutInv'
    BY <1>2, <1>9, <2>3 DEF OutInv, OutWriting, OutSettled, Nobody
  <2> QED
    BY <2>2, <2>4
<1> QED
  BY <1>10, <1>11

-----------------------------------------------------------------------------
LEMMA DrainIdentity ==
    ASSUME TypeInv, IdentityInv, ShutsLoaded, DrainDone \/ DrainFailed
    PROVE  IdentityInv'
<1>1. chain \in Seq(Owners) /\ chain # <<>>
  BY DEF TypeInv, TypeOK, DrainHead, DrainDone, DrainFailed
<1>2. 1 \in 1..Len(chain) /\ Head(chain) = chain[1]
  BY <1>1, EmptySeq, HeadTailProperties
<1>3. /\ UNCHANGED <<userId, anonId, identified, flagWrites, store>>
      /\ boot' = IF chain[1] = Closer THEN "closed" ELSE boot
  BY <1>2 DEF DrainDone, DrainFailed, DrainEnds, who
<1>4. reset' = reset \/ Loaded
  <2>1. CASE \E n \in Resets : chain[1] = ResetOf(n)
    <3>1. ~ResetsSettled
      BY <1>2, <2>1 DEF TypeInv, OneReset, ResetsSettled
    <3> QED
      BY <3>1 DEF IdentityInv, OnlyLoaded
  <2>2. CASE \A n \in Resets : chain[1] # ResetOf(n)
    <3>1. reset' = [n \in Resets |-> reset[n]]
      BY <1>2, <2>2 DEF DrainDone, DrainFailed, DrainEnds
    <3>2. reset' = reset
      BY <3>1 DEF TypeInv, TypeOK
    <3> QED
      BY <3>2
  <2> QED
    BY <2>1, <2>2
<1>5. chain[1] = Closer => Loaded
  BY <1>2 DEF ShutsLoaded
<1> QED
  BY <1>3, <1>4, <1>5, IdentitySame DEF Loaded

LEMMA IdentityNext ==
    ASSUME TypeInv, IdentityInv, ShutsLoaded, [Next]_vars
    PROVE  IdentityInv'
<1>1. TypeOK
  BY DEF TypeInv
<1>2. CASE Load \/ AdoptAnonymous \/ AdoptFlag
  BY <1>2, BootIdentity
<1>3. CASE LoadQueue \/ TrackSingle \/ TrackSettled \/ TimerFires \/ Flush \/ Shutdown \/ DrainTakes
  BY <1>3, IdentitySame
     DEF LoadQueue, TrackSingle, TrackSettled, TimerFires, Flush, Shutdown, OnlyFlushBy, DrainTakes,
         identity, who, life
<1>4. CASE Track
  BY <1>1, <1>4, PersistKeepsIds, IdentitySame DEF Track, identity, who, life
<1>5. CASE DrainDone \/ DrainFailed
  BY <1>5, DrainIdentity
<1>6. ASSUME NEW r \in Requesters, Step(r) PROVE IdentityInv'
  <2>1. /\ UNCHANGED <<boot, identity>>
        /\ \E s : store' = store \/ store' = Persisted(s)
    BY <1>6 DEF Step, Envelope, Post, Answered, BackOff, Retry, GoOn, Accept, Fail, DrainCatches,
                life
  <2> QED
    BY <1>1, <2>1, PersistKeepsIds, IdentitySame DEF identity, who
<1>7. ASSUME NEW n \in Resets, Reset(n) PROVE IdentityInv'
  BY <1>7, IdentitySame DEF Reset, life, Loaded
<1>8. ASSUME NEW n \in Resets, ForgetAnonymous(n) \/ ForgetUser(n) PROVE IdentityInv'
  BY <1>8, ForgetIdentity
<1>9. CASE FlagWritten
  BY <1>9, WrittenIdentity
<1>10. ASSUME NEW c \in Customs, Identify(c) PROVE IdentityInv'
  BY <1>10, IdentifyIdentity
<1>11. CASE Crash
  BY <1>11 DEF Crash, IdentityInv, Booted, OnlyLoaded, ResetsSettled, Mirror, Loaded
<1>12. CASE UNCHANGED vars
  BY <1>12, IdentitySame DEF vars
<1> QED
  BY <1>2, <1>3, <1>4, <1>5, <1>6, <1>7, <1>8, <1>9, <1>10, <1>11, <1>12 DEF Next

(* Without throwOnError no drain rejects, so a reset always goes on. *)
LEMMA OutNext ==
    ASSUME TypeInv, IdentityInv, OutInv, ~ThrowOnError, [Next]_vars
    PROVE  OutInv'
<1>1. TypeOK
  BY DEF TypeInv
<1>2. CASE Load \/ AdoptAnonymous \/ AdoptFlag
  BY <1>2, BootOut
<1>3. CASE LoadQueue \/ TrackSingle \/ TrackSettled \/ TimerFires \/ Flush \/ Shutdown \/ DrainTakes
  BY <1>3, OutSame
     DEF LoadQueue, TrackSingle, TrackSettled, TimerFires, Flush, Shutdown, OnlyFlushBy, DrainTakes,
         identity, who
<1>4. CASE Track
  BY <1>1, <1>4, PersistKeepsIds, OutSame DEF Track, identity, who
<1>5. CASE DrainDone \/ DrainFailed
  <2>1. UNCHANGED <<userId, identified, flagWrites, loggedOut, store>>
    BY <1>5 DEF DrainDone, DrainFailed, who
  <2>2. reset' = reset \/ Forgetting'
    <3>1. /\ reset' \in [Resets -> {"new", "flush", "anonymous", "user", "flag", "done"}]
          /\ reset \in [Resets -> {"new", "flush", "anonymous", "user", "flag", "done"}]
          /\ \A n \in Resets : reset'[n] = reset[n] \/ reset'[n] = "anonymous"
      BY <1>5 DEF DrainDone, DrainFailed, DrainEnds, TypeInv, TypeOK
    <3> QED
      BY <3>1 DEF Forgetting
  <2> QED
    BY <2>1, <2>2, OutSame
<1>6. ASSUME NEW r \in Requesters, Step(r) PROVE OutInv'
  <2>1. /\ UNCHANGED identity
        /\ \E s : store' = store \/ store' = Persisted(s)
    BY <1>6 DEF Step, Envelope, Post, Answered, BackOff, Retry, GoOn, Accept, Fail, DrainCatches
  <2> QED
    BY <1>1, <2>1, PersistKeepsIds, OutSame DEF identity, who
<1>7. ASSUME NEW n \in Resets, Reset(n) PROVE OutInv'
  <2>1. reset'[n] = "flush"
    BY <1>7 DEF Reset, TypeInv, TypeOK
  <2>2. Forgetting' /\ ~ResetsSettled'
    BY <2>1 DEF Forgetting, ResetsSettled
  <2> QED
    BY <2>2 DEF OutInv, OutWriting, OutSettled
<1>8. ASSUME NEW n \in Resets, ForgetAnonymous(n) \/ ForgetUser(n) PROVE OutInv'
  BY <1>8, ForgetIdentity
<1>9. CASE FlagWritten
  BY <1>9, WrittenIdentity
<1>10. ASSUME NEW c \in Customs, Identify(c) PROVE OutInv'
  BY <1>10, IdentifyIdentity
<1>11. CASE Crash
  <2>1. None \notin Customs
    BY NotCustom
  <2>2. loggedOut' => ~store.identified /\ store.user \notin Customs
    BY <1>11 DEF Crash, OutInv, OutSettled
  <2> QED
    BY <1>11, <2>1, <2>2 DEF Crash, OutInv, OutWriting, OutSettled, Nobody
<1>12. CASE UNCHANGED vars
  BY <1>12, OutSame DEF vars
<1> QED
  BY <1>2, <1>3, <1>4, <1>5, <1>6, <1>7, <1>8, <1>9, <1>10, <1>11, <1>12 DEF Next

LEMMA IdentityInvariant == Spec => [](TypeInv /\ IdentityInv /\ ShutsLoaded)
<1>1. Init => TypeInv /\ IdentityInv /\ ShutsLoaded
  <2>1. Init => ShutsLoaded
    BY EmptyQueue DEF Init, ShutsLoaded
  <2> QED
    BY <2>1, TypeInit, IdentityInit
<1>2. TypeInv /\ IdentityInv /\ ShutsLoaded /\ [Next]_vars
        => (TypeInv /\ IdentityInv /\ ShutsLoaded)'
  BY TypeNext, IdentityNext, ShutsNext
<1> QED
  BY <1>1, <1>2, PTL DEF Spec

(* Once no setUser of a running client is still writing, storage holds the *)
(* ids and the flag of memory, whatever calls of identify and reset        *)
(* overlapped: a restart finds the visitor the last call left.             *)
THEOREM RestartFindsVisitor == Spec => []IdentityStored
<1>1. IdentityInv => IdentityStored
  BY DEF IdentityInv, Mirror, SameIds, Loaded, IdentityStored
<1> QED
  BY <1>1, IdentityInvariant, PTL

(* Resets that have settled, however they overlapped, leave nobody         *)
(* identified, in memory or in storage, until identify is called again,    *)
(* even if earlier identify calls still had their flag to write, or the    *)
(* app restarts.  With throwOnError the flush of a reset may reject, and   *)
(* the reset stops before it forgets anybody.                              *)
THEOREM ResetForgets ==
    ASSUME ~ThrowOnError
    PROVE  Spec => []LoggedOut
<1>1. Init => OutInv
  BY IdentityInit
<1>2. TypeInv /\ IdentityInv /\ ShutsLoaded /\ OutInv /\ [Next]_vars => OutInv'
  BY OutNext
<1>3. OutInv => LoggedOut
  BY DEF OutInv, OutSettled, Nobody, LoggedOut
<1> QED
  BY <1>1, <1>2, <1>3, IdentityInvariant, PTL DEF Spec
=============================================================================
