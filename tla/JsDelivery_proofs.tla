-------------------------- MODULE JsDelivery_proofs --------------------------
(***************************************************************************)
(* The accounting of events, and that the integration with batching        *)
(* implements EventDelivery: every step leaves the events in hand as they  *)
(* are, adds the one tracked, or settles the oldest of them.  And no event *)
(* that waits is forgotten.                                                *)
(***************************************************************************)
EXTENDS JsQueue_proofs

HeldSet == ToSet(batch) \cup ToSet(queue)
Busy    == {e \in Singles : req[e].pc # "idle"}
Kept    == ToSet(Newest(store.queue))      \* what the next init will find

(* The drain sends something; and without batching nothing is ever queued. *)
Sending == req[Drain].pc \notin {"idle", "failed"} => batch # <<>>
Unbatched ==
    /\ BatchSize = 1 => queue = <<>> /\ batch = <<>> /\ store.queue = <<>>
    /\ ~Loaded => Busy = {}
    /\ ~PersistQueue => store.queue = <<>>

(* What storage would give back is the newest part of what is held.        *)
KeptNewest ==
    Loaded => /\ Kept \subseteq HeldSet
              /\ \A e \in Kept, f \in HeldSet : e < f => f \in Kept

(* An event not yet tracked has no fate.                                   *)
Fresh == \A e \in Events : e > tracked => fate[e] = "new"

-----------------------------------------------------------------------------
(* Sequences as sets *)

LEMMA Numbers == Events \subseteq Nat
  BY InstanceAssumption DEF Events

LEMMA Members ==
    ASSUME NEW s \in Seq(Events)
    PROVE  /\ ToSet(s) \subseteq Events
           /\ \A e : e \in ToSet(s) <=> \E i \in 1..Len(s) : s[i] = e
           /\ ToSet(s) = {} <=> s = <<>>
<1>1. DOMAIN s = 1..Len(s) /\ Len(s) \in Nat /\ \A i \in 1..Len(s) : s[i] \in Events
  BY LenProperties, ElementOfSeq
<1>2. s # <<>> => 1 \in 1..Len(s)
  BY <1>1, EmptySeq
<1>3. s = <<>> => 1..Len(s) = {}
  BY <1>1
<1> QED
  BY <1>1, <1>2, <1>3 DEF ToSet

LEMMA MembersConcat ==
    ASSUME NEW a \in Seq(Events), NEW b \in Seq(Events)
    PROVE  ToSet(a \o b) = ToSet(a) \cup ToSet(b)
<1> DEFINE c == a \o b
<1>1. /\ c \in Seq(Events) /\ Len(a) \in Nat /\ Len(b) \in Nat /\ Len(c) = Len(a) + Len(b)
      /\ \A i \in 1..Len(a) : c[i] = a[i]
      /\ \A j \in 1..Len(b) : c[Len(a) + j] = b[j]
  BY ConcatProperties, LenProperties
<1>2. \A i \in 1..Len(c) : i \in 1..Len(a) \/ (i - Len(a) \in 1..Len(b) /\ c[i] = b[i - Len(a)])
  BY <1>1
<1>3. \A i \in 1..Len(a) : i \in 1..Len(c)
  BY <1>1
<1>4. \A j \in 1..Len(b) : Len(a) + j \in 1..Len(c)
  BY <1>1
<1> HIDE DEF c
<1>5. \A e : e \in ToSet(c) <=> e \in ToSet(a) \/ e \in ToSet(b)
  <2> TAKE e
  <2>1. ASSUME e \in ToSet(c) PROVE e \in ToSet(a) \/ e \in ToSet(b)
    <3>1. PICK i \in 1..Len(c) : c[i] = e
      BY <1>1, <2>1, Members
    <3>2. (i \in 1..Len(a) /\ a[i] = e) \/ (i - Len(a) \in 1..Len(b) /\ b[i - Len(a)] = e)
      BY <1>1, <1>2, <3>1
    <3> QED
      BY <3>2, Members
  <2>2. ASSUME e \in ToSet(a) PROVE e \in ToSet(c)
    <3>1. PICK i \in 1..Len(a) : a[i] = e
      BY <2>2, Members
    <3>2. i \in 1..Len(c) /\ c[i] = e
      BY <1>1, <1>3, <3>1
    <3> QED
      BY <1>1, <3>2, Members
  <2>3. ASSUME e \in ToSet(b) PROVE e \in ToSet(c)
    <3>1. PICK j \in 1..Len(b) : b[j] = e
      BY <2>3, Members
    <3>2. Len(a) + j \in 1..Len(c) /\ c[Len(a) + j] = e
      BY <1>1, <1>4, <3>1
    <3> QED
      BY <1>1, <3>2, Members
  <2> QED
    BY <2>1, <2>2, <2>3
<1> QED
  BY <1>5 DEF c

LEMMA MembersSplit ==
    ASSUME NEW s \in Seq(Events), NEW n \in Nat
    PROVE  ToSet(FirstN(s, n)) \cup ToSet(AfterN(s, n)) = ToSet(s)
  BY SplitProps, FirstNProps, AfterNProps, MembersConcat

(* A trim keeps the newest events, and the last one among them.            *)
LEMMA MembersNewest ==
    ASSUME NEW s \in Seq(Events), Sorted(s)
    PROVE  /\ Newest(s) \in Seq(Events)
           /\ ToSet(Newest(s)) \subseteq ToSet(s)
           /\ \A e \in ToSet(Newest(s)), f \in ToSet(s) : e < f => f \in ToSet(Newest(s))
           /\ s # <<>> => s[Len(s)] \in ToSet(Newest(s))
<1> DEFINE n == Len(s) - Smaller(MaxQueueSize, Len(s))
<1>1. Len(s) \in Nat /\ n \in Nat /\ n <= Len(s) /\ (Len(s) # 0 => n < Len(s))
  BY LenProperties, ConfigAssumption DEF Smaller
<1>2. Len(s) - n = Smaller(MaxQueueSize, Len(s))
  BY <1>1, ConfigAssumption DEF Smaller
<1>3. /\ Newest(s) \in Seq(Events) /\ Len(Newest(s)) = Len(s) - n
      /\ \A i \in 1..Len(Newest(s)) : Newest(s)[i] = s[i + n]
  BY <1>2, NewestProps
<1> HIDE DEF n
<1>4. ToSet(Newest(s)) \subseteq ToSet(s)
  <2> SUFFICES ASSUME NEW e \in ToSet(Newest(s)) PROVE e \in ToSet(s)
    OBVIOUS
  <2>1. PICK i \in 1..Len(Newest(s)) : Newest(s)[i] = e
    BY <1>3, Members
  <2>2. i + n \in 1..Len(s) /\ s[i + n] = e
    BY <1>1, <1>3, <2>1
  <2> QED
    BY <2>2, Members
<1>5. ASSUME NEW j \in 1..Len(s), j > n PROVE s[j] \in ToSet(Newest(s))
  <2>1. j - n \in 1..Len(Newest(s)) /\ Newest(s)[j - n] = s[j]
    BY <1>1, <1>3, <1>5
  <2> QED
    BY <1>3, <2>1, Members
<1>6. ASSUME NEW e \in ToSet(Newest(s)), NEW f \in ToSet(s), e < f PROVE f \in ToSet(Newest(s))
  <2>1. PICK i \in 1..Len(Newest(s)) : Newest(s)[i] = e
    BY <1>3, Members
  <2>2. i + n \in 1..Len(s) /\ s[i + n] = e /\ i + n > n
    BY <1>1, <1>3, <2>1
  <2>3. PICK j \in 1..Len(s) : s[j] = f
    BY Members
  <2>4. j > n
    <3> SUFFICES ASSUME ~(j > n) PROVE FALSE
      OBVIOUS
    <3>1. j < i + n
      BY <1>1, <2>2, <2>3
    <3>2. f < e
      BY <2>2, <2>3, <3>1 DEF Sorted
    <3>3. e \in Nat /\ f \in Nat
      BY <1>3, Members, Numbers
    <3> QED
      BY <1>6, <3>2, <3>3
  <2> QED
    BY <1>5, <2>3, <2>4
<1>7. s # <<>> => s[Len(s)] \in ToSet(Newest(s))
  BY <1>1, <1>5, EmptySeq
<1> QED
  BY <1>3, <1>4, <1>6, <1>7

-----------------------------------------------------------------------------
(* What is in hand *)

LEMMA HandNow ==
    ASSUME TypeOK
    PROVE  /\ InHand = IF Loaded THEN HeldSet \cup Busy ELSE Kept
           /\ InHand \subseteq Events
           /\ HeldSet \subseteq Events /\ Kept \subseteq Events /\ Busy \subseteq Events
<1>1. queue \in Seq(Events) /\ batch \in Seq(Events) /\ store.queue \in Seq(Events)
  BY DEF TypeOK, Stores
<1>2. Newest(store.queue) \in Seq(Events)
  BY <1>1, NewestProps
<1>3. InHand = IF Loaded THEN HeldSet \cup Busy ELSE Kept
  BY <1>1, MembersConcat DEF InHand, Held, HeldSet, Busy, Kept, Loaded
<1>4. HeldSet \subseteq Events /\ Kept \subseteq Events
  BY <1>1, <1>2, Members DEF HeldSet, Kept
<1>5. Busy \subseteq Events
  BY DEF Busy, Singles
<1> QED
  BY <1>3, <1>4, <1>5

LEMMA HandNext ==
    ASSUME TypeOK'
    PROVE  InHand' = IF Loaded' THEN HeldSet' \cup Busy' ELSE Kept'
<1>1. queue' \in Seq(Events) /\ batch' \in Seq(Events)
  BY DEF TypeOK
<1> QED
  BY <1>1, MembersConcat DEF InHand, Held, HeldSet, Busy, Kept, Loaded

(* Older and newer parts of what is held. *)
LEMMA HeldOrder ==
    ASSUME TypeOK, QueueInv
    PROVE  /\ \A e \in ToSet(batch), f \in ToSet(queue) : e < f
           /\ \A e \in HeldSet : e <= tracked
<1>1. queue \in Seq(Events) /\ batch \in Seq(Events)
  BY DEF TypeOK
<1>2. ASSUME NEW e \in ToSet(batch), NEW f \in ToSet(queue) PROVE e < f
  <2>1. \E i \in 1..Len(batch) : batch[i] = e
    BY <1>1, Members
  <2>2. \E j \in 1..Len(queue) : queue[j] = f
    BY <1>1, Members
  <2> QED
    BY <2>1, <2>2 DEF QueueInv, QueuedInv
<1>3. ASSUME NEW e \in ToSet(batch) PROVE e <= tracked
  <2>1. \E i \in 1..Len(batch) : batch[i] = e
    BY <1>1, Members
  <2> QED
    BY <2>1 DEF QueueInv, BatchInv, Below
<1>4. ASSUME NEW e \in ToSet(queue) PROVE e <= tracked
  <2>1. \E i \in 1..Len(queue) : queue[i] = e
    BY <1>1, Members
  <2> QED
    BY <2>1 DEF QueueInv, QueuedInv, Below
<1> QED
  BY <1>2, <1>3, <1>4 DEF HeldSet

-----------------------------------------------------------------------------
(* What a step does to the events in hand *)

Unmoved == UNCHANGED <<InHand, fate, tracked>>

(* One more event, and the shed ones gone. *)
Grows(shed) ==
    /\ shed \subseteq InHand
    /\ tracked' = tracked + 1 /\ tracked' \in Events
    /\ InHand' = (InHand \ shed) \cup {tracked'}
    /\ fate'[tracked'] = "pending"
    /\ \A f \in Events \ {tracked'} : fate'[f] = IF f \in shed THEN "trimmed" ELSE fate[f]

(* The events of S are settled: with batching, the oldest in hand. *)
Ends == {"accepted", "refused", "trimmed", "abandoned", "lost"}
Leave(S, how) ==
    /\ S \subseteq InHand /\ how \in Ends
    /\ InHand' = InHand \ S
    /\ fate' = Become(S, how)
    /\ tracked' = tracked
    /\ BatchSize > 1 => \A e \in S, f \in InHand \ S : e < f

Moves == Unmoved \/ (\E shed \in SUBSET Events : Grows(shed))
                 \/ (\E S \in SUBSET Events, how \in Ends : Leave(S, how))

LEMMA BecomeNone == ASSUME TypeOK, NEW how PROVE Become({}, how) = fate
  BY DEF Become, TypeOK

(* Nothing in hand moves, and the request of no single event starts or ends. *)
LEMMA SameHand ==
    ASSUME TypeOK, TypeOK', UNCHANGED <<queue, batch, fate, tracked>>,
           store'.queue = store.queue, Busy' = Busy, Loaded' = Loaded
    PROVE  Unmoved
<1>1. HeldSet' = HeldSet /\ Kept' = Kept
  BY DEF HeldSet, Kept
<1>2. InHand' = IF Loaded' THEN HeldSet' \cup Busy' ELSE Kept'
  BY HandNext
<1>3. InHand = IF Loaded THEN HeldSet \cup Busy ELSE Kept
  BY HandNow
<1> QED
  BY <1>1, <1>2, <1>3 DEF Unmoved

HandInv == Sending /\ Unbatched /\ KeptNewest

(* The conditions of SameHand leave HandInv as it is. *)
LEMMA SameInv ==
    ASSUME HandInv, UNCHANGED <<queue, batch>>, store'.queue = store.queue, Busy' = Busy,
           Loaded' = Loaded,
           req'[Drain].pc \in {"idle", "failed"} \/ req[Drain].pc \notin {"idle", "failed"}
    PROVE  HandInv'
<1>1. HeldSet' = HeldSet /\ Kept' = Kept
  BY DEF HeldSet, Kept
<1>2. Sending'
  BY DEF HandInv, Sending
<1>3. Unbatched'
  BY DEF HandInv, Unbatched
<1>4. KeptNewest'
  BY <1>1 DEF HandInv, KeptNewest
<1> QED
  BY <1>2, <1>3, <1>4 DEF HandInv

(* After a persist storage keeps the newest part of the queue. *)
LEMMA KeptOfQueue ==
    ASSUME TypeOK', QueueInv', store'.queue = queue' \/ store'.queue = <<>>
    PROVE  KeptNewest'
<1>1. queue' \in Seq(Events) /\ Sorted(queue') /\ batch' \in Seq(Events)
  BY DEF TypeOK, QueueInv, QueuedInv
<1>2. CASE store'.queue = <<>>
  <2>1. Kept' = {}
    <3>1. <<>> \in Seq(Events) /\ Sorted(<<>>) /\ ToSet(<<>>) = {}
      BY EmptyQueue, Members
    <3>2. ToSet(Newest(<<>>)) \subseteq {}
      BY <3>1, MembersNewest
    <3> QED
      BY <1>2, <3>2 DEF Kept
  <2> QED
    BY <2>1 DEF KeptNewest
<1>3. CASE store'.queue = queue'
  <2>1. /\ Kept' \subseteq ToSet(queue')
        /\ \A e \in Kept', f \in ToSet(queue') : e < f => f \in Kept'
    BY <1>1, <1>3, MembersNewest DEF Kept
  <2>2. ASSUME NEW e \in Kept', NEW f \in ToSet(batch'), e < f PROVE FALSE
    <3>1. PICK j \in 1..Len(queue') : queue'[j] = e
      BY <1>1, <2>1, <2>2, Members
    <3>2. PICK i \in 1..Len(batch') : batch'[i] = f
      BY <1>1, <2>2, Members
    <3>3. f < e
      BY <3>1, <3>2 DEF QueueInv, QueuedInv
    <3>4. e \in Nat /\ f \in Nat
      BY <1>1, <2>1, Members, Numbers
    <3> QED
      BY <2>2, <3>3, <3>4
  <2> QED
    BY <2>1, <2>2 DEF KeptNewest, HeldSet
<1> QED
  BY <1>2, <1>3

-----------------------------------------------------------------------------
(* The steps *)

LEMMA Kinds ==
    /\ Drain \in Requesters /\ Customs \subseteq Requesters /\ Singles \subseteq Requesters
    /\ Drain \notin Singles /\ Singles \cap Customs = {} /\ Drain \notin Customs
    /\ Singles \subseteq Events /\ Requesters = {Drain} \cup Customs \cup Singles
<1>1. Singles \subseteq Nat /\ Drain \in Nat /\ Drain \notin Singles /\ Singles \subseteq Events
  BY Numbers DEF Singles, Drain, Events
<1>2. Customs \cap Nat = {}
  BY InstanceAssumption
<1> QED
  BY <1>1, <1>2 DEF Requesters

LEMMA BusySame ==
    ASSUME \A e \in Singles : req'[e].pc = "idle" <=> req[e].pc = "idle"
    PROVE  Busy' = Busy
  BY DEF Busy

(* Steps of the visitor's identity, of init, and of flushes. *)
LEMMA IdentityMoves ==
    ASSUME TypeInv, TypeOK', HandInv,
           \/ Load \/ AdoptAnonymous \/ AdoptFlag \/ FlagWritten
           \/ \E n \in Resets : Reset(n) \/ ForgetAnonymous(n) \/ ForgetUser(n)
           \/ \E c \in Customs : Identify(c)
    PROVE  Unmoved /\ HandInv'
<1>1. /\ TypeOK /\ store \in Stores /\ req \in [Requesters -> Requests]
  BY DEF TypeInv, TypeOK
<1>2. UNCHANGED <<queue, batch, fate, tracked>>
  BY DEF Load, AdoptAnonymous, AdoptFlag, FlagWritten, Reset, ForgetAnonymous, ForgetUser, Identify,
         pipeline
<1>3. store'.queue = store.queue
  BY <1>1 DEF Load, AdoptAnonymous, AdoptFlag, FlagWritten, Reset, ForgetAnonymous, ForgetUser,
              Identify, SetUser, Stores
<1>4. Loaded' = Loaded
  <2>1. boot' = boot \/ (boot \in {"off", "user", "flag"} /\ boot' \in {"user", "flag", "queue"})
    BY DEF Load, AdoptAnonymous, AdoptFlag, FlagWritten, Reset, ForgetAnonymous, ForgetUser,
           Identify, life
  <2> QED
    BY <2>1 DEF Loaded
<1>5. \A r \in {Drain} \cup Singles : req'[r] = req[r]
  <2>1. CASE \/ Load \/ AdoptAnonymous \/ AdoptFlag
             \/ \E n \in Resets : Reset(n) \/ ForgetAnonymous(n) \/ ForgetUser(n)
    BY <2>1 DEF Load, AdoptAnonymous, AdoptFlag, Reset, ForgetAnonymous, ForgetUser, pipeline
  <2>2. CASE FlagWritten
    <3>1. flagWrites[1] \in Customs \cup Resets
      BY <2>2, ElementOfSeq, EmptySeq DEF FlagWritten, TypeInv, TypeOK
    <3>2. req' = req \/ \E c \in Customs : req' = Calling(c)
      BY <2>2, <3>1 DEF FlagWritten, NextFlag
    <3> QED
      BY <1>1, <3>2, Kinds DEF Calling
  <2>3. ASSUME NEW c \in Customs, Identify(c) PROVE \A r \in {Drain} \cup Singles : req'[r] = req[r]
    BY <1>1, <2>3, Kinds DEF Identify
  <2> QED
    BY <2>1, <2>2, <2>3
<1>6. Busy' = Busy
  BY <1>5, BusySame
<1> QED
  BY <1>1, <1>2, <1>3, <1>4, <1>5, <1>6, SameHand, SameInv

LEMMA FlushMoves ==
    ASSUME TypeInv, TypeOK', HandInv, ShutsLoaded,
           TrackSettled \/ TimerFires \/ Flush \/ Shutdown \/ DrainDone \/ DrainFailed
    PROVE  Unmoved /\ HandInv'
<1>1. TypeOK /\ req \in [Requesters -> Requests]
  BY DEF TypeInv, TypeOK
<1>2. UNCHANGED <<queue, batch, fate, tracked, store>>
  BY DEF TrackSettled, TimerFires, Flush, Shutdown, OnlyFlushBy, DrainDone, DrainFailed
<1>3. Loaded' = Loaded
  <2>1. CASE TrackSettled \/ TimerFires \/ Flush \/ Shutdown
    BY <2>1 DEF TrackSettled, TimerFires, Flush, Shutdown, OnlyFlushBy, Loaded, life
  <2>2. CASE DrainDone \/ DrainFailed
    <3>1. chain \in Seq(Owners) /\ chain # <<>>
      BY <2>2 DEF TypeInv, TypeOK, DrainHead, DrainDone, DrainFailed
    <3>2. 1 \in 1..Len(chain) /\ Head(chain) = chain[1]
      BY <3>1, EmptySeq, HeadTailProperties
    <3>3. boot' = boot \/ (chain[1] = Closer /\ boot' = "closed")
      BY <2>2, <3>2 DEF DrainDone, DrainFailed, DrainEnds
    <3> QED
      BY <3>2, <3>3 DEF ShutsLoaded, Loaded
  <2> QED
    BY <2>1, <2>2
<1>4. /\ \A e \in Singles : req'[e] = req[e]
      /\ req'[Drain] = req[Drain] \/ req'[Drain].pc = "idle"
  <2>1. req' = req \/ req' = [req EXCEPT ![Drain] = IdleRequest]
    BY DEF TrackSettled, TimerFires, Flush, Shutdown, OnlyFlushBy, DrainDone, DrainFailed
  <2> QED
    BY <1>1, <2>1, Kinds DEF IdleRequest
<1>5. Busy' = Busy
  BY <1>4, BusySame
<1> QED
  BY <1>1, <1>2, <1>3, <1>4, <1>5, SameHand, SameInv

LEMMA RequestMoves ==
    ASSUME TypeInv, TypeOK', HandInv, NEW r \in Requesters,
           Envelope(r) \/ Post(r) \/ Answered(r) \/ BackOff(r) \/ Retry(r)
    PROVE  Unmoved /\ HandInv'
<1>1. TypeOK /\ req \in [Requesters -> Requests]
  BY DEF TypeInv, TypeOK
<1>2. UNCHANGED <<queue, batch, fate, tracked, store, boot>>
  BY DEF Envelope, Post, Answered, BackOff, Retry, GoOn, life
<1>3. req[r].pc \notin {"idle", "failed"}
  BY DEF Envelope, Post, Answered, BackOff, Retry, GoOn, InFlight
<1>4. req'[r].pc \notin {"idle", "failed"}
  <2>1. \/ req' = [req EXCEPT ![r] = [req[r] EXCEPT !.pc = "ready", !.anon = anonId]]
        \/ req' = [req EXCEPT ![r] = [req[r] EXCEPT !.pc = "sent", !.user = userId]]
        \/ req' = [req EXCEPT ![r] = [req[r] EXCEPT !.pc = "body"]]
        \/ req' = [req EXCEPT ![r] = [req[r] EXCEPT !.pc = "pause"]]
        \/ req' = [req EXCEPT ![r] = [req[r] EXCEPT !.pc = "sent", !.attempt = @ + 1]]
    BY DEF Envelope, Post, Answered, BackOff, Retry, GoOn
  <2>2. req[r] \in Requests
    BY <1>1
  <2>3. /\ [req[r] EXCEPT !.pc = "ready", !.anon = anonId].pc = "ready"
        /\ [req[r] EXCEPT !.pc = "sent", !.user = userId].pc = "sent"
        /\ [req[r] EXCEPT !.pc = "body"].pc = "body"
        /\ [req[r] EXCEPT !.pc = "pause"].pc = "pause"
        /\ [req[r] EXCEPT !.pc = "sent", !.attempt = @ + 1].pc = "sent"
    BY <2>2 DEF Requests
  <2>4. \E to : req' = [req EXCEPT ![r] = to] /\ to.pc \in {"ready", "sent", "body", "pause"}
    BY <2>1, <2>3
  <2>5. req'[r].pc \in {"ready", "sent", "body", "pause"}
    BY <1>1, <2>4
  <2> QED
    BY <2>5
<1>5. \A q \in Requesters : q # r => req'[q] = req[q]
  BY <1>1 DEF Envelope, Post, Answered, BackOff, Retry, GoOn
<1>6. Busy' = Busy
  BY <1>3, <1>4, <1>5, BusySame, Kinds
<1>7. req'[Drain].pc \in {"idle", "failed"} \/ req[Drain].pc \notin {"idle", "failed"}
  BY <1>3, <1>5, Kinds
<1> QED
  BY <1>1, <1>2, <1>6, <1>7, SameHand, SameInv DEF Loaded

LEMMA LoadQueueMoves ==
    ASSUME TypeInv, TypeOK', QueueInv, QueueInv', HandInv, LoadQueue
    PROVE  Unmoved /\ HandInv'
<1>1. /\ queue = <<>> /\ batch = <<>> /\ boot = "queue"
      /\ boot' = "on" /\ batch' = <<>> /\ UNCHANGED <<store, req, fate, tracked>>
      /\ queue' = IF PersistQueue THEN Newest(store.queue \o queue) ELSE queue
  BY DEF LoadQueue, QueueInv, QueuedInv
<1>2. /\ store.queue \in Seq(Events) /\ store.queue \o <<>> = store.queue
      /\ Newest(<<>>) = <<>> /\ ToSet(<<>>) = {}
  <2>1. /\ Newest(<<>>) \in Seq(Events) /\ ToSet(<<>>) = {}
        /\ ToSet(Newest(<<>>)) \subseteq ToSet(<<>>)
    BY EmptyQueue, MembersNewest, Members
  <2>2. Newest(<<>>) = <<>>
    BY <2>1, Members
  <2>3. store.queue \in Seq(Events)
    BY DEF TypeInv, TypeOK, Stores
  <2> QED
    BY <2>1, <2>2, <2>3, ConcatEmptySeq
<1>3. queue' = Newest(store.queue)
  BY <1>1, <1>2 DEF HandInv, Unbatched
<1>4. HeldSet' = Kept /\ Kept' = Kept /\ Busy' = Busy
  BY <1>1, <1>2, <1>3 DEF HeldSet, Kept, Busy
<1>5. Busy = {} /\ ~Loaded /\ Loaded'
  BY <1>1 DEF HandInv, Unbatched, Loaded
<1>6. InHand' = Kept /\ InHand = Kept
  BY <1>4, <1>5, HandNow, HandNext DEF TypeInv
<1>7. KeptNewest'
  BY <1>4 DEF KeptNewest
<1>8. Sending'
  BY <1>1 DEF HandInv, Sending, QueueInv, BatchInv
<1>9. Unbatched'
  BY <1>1, <1>2, <1>3, <1>5 DEF HandInv, Unbatched
<1> QED
  BY <1>1, <1>6, <1>7, <1>8, <1>9 DEF Unmoved, HandInv

LEMMA TrackMoves ==
    ASSUME TypeInv, TypeOK', QueueInv, QueueInv', HandInv, Track
    PROVE  (\E shed \in SUBSET Events : Grows(shed)) /\ HandInv'
<1> DEFINE e == tracked + 1
           grown == Append(queue, e)
           shed == ToSet(queue) \ ToSet(queue')
<1>1. /\ boot = "on" /\ boot' = "on" /\ BatchSize > 1 /\ tracked' = e /\ queue' = Newest(grown)
      /\ fate' = [Become(shed, "trimmed") EXCEPT ![e] = "pending"]
      /\ store' = Persisted(queue') /\ UNCHANGED <<batch, req>>
  BY DEF Track, life
<1>2. /\ queue \in Seq(Events) /\ batch \in Seq(Events) /\ tracked \in Nat /\ e \in Events
      /\ store \in Stores /\ Len(queue) \in Nat /\ fate \in [Events -> Fates]
  BY LenProperties, InstanceAssumption DEF Track, TypeInv, TypeOK, Events
<1>3. /\ grown \in Seq(Events) /\ Len(grown) = Len(queue) + 1
      /\ \A i \in 1..Len(queue) : grown[i] = queue[i]
      /\ grown[Len(queue) + 1] = e
  BY <1>2, AppendProperties
<1> HIDE DEF grown
<1>4. ToSet(grown) = ToSet(queue) \cup {e}
  <2>1. \A i \in 1..Len(grown) : i \in 1..Len(queue) \/ (i = Len(queue) + 1 /\ grown[i] = e)
    BY <1>2, <1>3
  <2>2. ASSUME NEW x \in ToSet(grown) PROVE x \in ToSet(queue) \cup {e}
    <3>1. PICK i \in 1..Len(grown) : grown[i] = x
      BY <1>3, Members
    <3> QED
      BY <1>2, <1>3, <2>1, <3>1, Members
  <2>3. ASSUME NEW x \in ToSet(queue) PROVE x \in ToSet(grown)
    <3>1. PICK i \in 1..Len(queue) : queue[i] = x
      BY <1>2, Members
    <3>2. i \in 1..Len(grown) /\ grown[i] = x
      BY <1>2, <1>3, <3>1
    <3> QED
      BY <1>3, <3>2, Members
  <2>4. e \in ToSet(grown)
    <3>1. Len(queue) + 1 \in 1..Len(grown)
      BY <1>2, <1>3
    <3> QED
      BY <1>3, <3>1, Members
  <2> QED
    BY <2>2, <2>3, <2>4
<1>5. Sorted(grown)
  <2> SUFFICES ASSUME NEW i \in 1..Len(grown), NEW j \in 1..Len(grown), i < j
               PROVE  grown[i] < grown[j]
    BY DEF Sorted
  <2>1. i \in 1..Len(queue) /\ (j \in 1..Len(queue) \/ j = Len(queue) + 1)
    <3>1. Len(queue) \in Nat /\ i \in 1..(Len(queue) + 1) /\ j \in 1..(Len(queue) + 1)
      BY <1>2, <1>3
    <3> QED
      BY <3>1
  <2>2. CASE j \in 1..Len(queue)
    BY <1>3, <2>1, <2>2 DEF QueueInv, QueuedInv, Sorted
  <2>3. CASE j = Len(queue) + 1
    <3>1. queue[i] <= tracked /\ queue[i] \in Nat
      BY <1>2, <2>1, ElementOfSeq, Numbers DEF QueueInv, QueuedInv, Below
    <3> QED
      BY <1>2, <1>3, <2>1, <2>3, <3>1
  <2> QED
    BY <2>1, <2>2, <2>3
<1>6. ToSet(queue') \subseteq ToSet(queue) \cup {e} /\ e \in ToSet(queue')
  <2>1. grown # <<>> /\ grown[Len(grown)] = e
    BY <1>2, <1>3, EmptyQueue
  <2> QED
    BY <1>1, <1>3, <1>4, <1>5, <2>1, MembersNewest
<1>7. \A x \in HeldSet : x <= tracked /\ x \in Nat
  BY HeldOrder, HandNow, Numbers DEF TypeInv
<1>8. e \notin HeldSet /\ \A x \in ToSet(batch), y \in ToSet(queue) : x < y
  BY <1>2, <1>7, HeldOrder DEF TypeInv
<1>9. HeldSet' = (HeldSet \ shed) \cup {e}
  <2>1. ToSet(batch) \cap ToSet(queue) = {}
    <3> SUFFICES ASSUME NEW x \in ToSet(batch), x \in ToSet(queue) PROVE FALSE
      OBVIOUS
    <3>1. x < x /\ x \in Nat
      BY <1>7, <1>8 DEF HeldSet
    <3> QED
      BY <3>1
  <2>2. batch' = batch
    BY <1>1
  <2> HIDE DEF e
  <2> QED
    BY <1>6, <1>8, <2>1, <2>2 DEF HeldSet
<1>10. Busy = {} /\ Busy' = {} /\ Loaded /\ Loaded'
  BY <1>1, ConfigAssumption DEF Busy, Singles, Loaded
<1>11. InHand = HeldSet /\ InHand' = HeldSet'
  BY <1>10, HandNow, HandNext DEF TypeInv
<1>12. shed \subseteq InHand /\ shed \in SUBSET Events
  BY <1>2, <1>11, Members DEF HeldSet
<1>13. Grows(shed)
  <2>1. Become(shed, "trimmed") \in [Events -> Fates]
    BY <1>2 DEF Become, Fates
  <2>2. fate'[e] = "pending"
    BY <1>1, <1>2, <2>1
  <2>3. \A f \in Events \ {e} : fate'[f] = IF f \in shed THEN "trimmed" ELSE fate[f]
    <3>1. \A f \in Events \ {e} : fate'[f] = Become(shed, "trimmed")[f]
      BY <1>1, <2>1
    <3> QED
      BY <3>1 DEF Become
  <2> HIDE DEF shed
  <2> QED
    BY <1>1, <1>2, <1>9, <1>11, <1>12, <2>2, <2>3 DEF Grows
<1>14. HandInv'
  <2>1. store'.queue = IF PersistQueue THEN queue' ELSE store.queue
    BY <1>1, <1>2, PersistedType DEF TypeOK
  <2>2. KeptNewest'
    BY <2>1, KeptOfQueue DEF HandInv, Unbatched
  <2>3. Sending' /\ Unbatched'
    BY <1>1, <1>10, <2>1, ConfigAssumption DEF HandInv, Sending, Unbatched
  <2> QED
    BY <2>2, <2>3 DEF HandInv
<1> QED
  BY <1>12, <1>13, <1>14

LEMMA TrackSingleMoves ==
    ASSUME TypeInv, TypeOK', HandInv, TrackSingle
    PROVE  (\E shed \in SUBSET Events : Grows(shed)) /\ HandInv'
<1> DEFINE e == tracked + 1
<1>1. /\ boot = "on" /\ boot' = "on" /\ BatchSize = 1 /\ tracked' = e
      /\ fate' = [fate EXCEPT ![e] = "pending"] /\ req' = Calling(e)
      /\ UNCHANGED <<queue, batch, store>>
  BY DEF TrackSingle, life
<1>2. /\ e \in Events /\ e \in Singles
      /\ req \in [Requesters -> Requests] /\ fate \in [Events -> Fates]
  BY InstanceAssumption DEF TrackSingle, TypeInv, TypeOK, Events, Singles
<1> HIDE DEF e
<1>3. /\ req'[e].pc = "envelope"
      /\ \A r \in Requesters : r # e => req'[r] = req[r]
  BY <1>1, <1>2, Kinds DEF Calling, IdleRequest
<1>4. Busy' = Busy \cup {e}
  BY <1>2, <1>3, Kinds DEF Busy
<1>5. HeldSet' = HeldSet /\ Kept' = Kept /\ Loaded /\ Loaded'
  BY <1>1 DEF HeldSet, Kept, Loaded
<1>6. InHand' = InHand \cup {e}
  BY <1>4, <1>5, HandNow, HandNext DEF TypeInv
<1>7. Grows({})
  BY <1>1, <1>2, <1>6 DEF Grows, e
<1>8. HandInv'
  <2>1. req'[Drain] = req[Drain]
    BY <1>2, <1>3, Kinds
  <2> QED
    BY <1>1, <1>5, <2>1 DEF HandInv, Sending, Unbatched, KeptNewest
<1> QED
  BY <1>7, <1>8

LEMMA DrainTakesMoves ==
    ASSUME TypeInv, TypeOK', QueueInv, HandInv, DrainTakes
    PROVE  Unmoved /\ HandInv'
<1>1. /\ queue # <<>> /\ batch = <<>>
      /\ batch' = FirstN(queue, MaxBatch) /\ queue' = AfterN(queue, MaxBatch)
      /\ req' = Calling(Drain) /\ UNCHANGED <<boot, store, fate, tracked>>
  BY DEF DrainTakes, life, QueueInv, BatchInv
<1>2. queue \in Seq(Events) /\ req \in [Requesters -> Requests] /\ MaxBatch \in Nat \ {0}
  BY ConfigAssumption DEF TypeInv, TypeOK
<1>3. HeldSet' = HeldSet
  BY <1>1, <1>2, MembersSplit, EmptyQueue, Members DEF HeldSet
<1>4. \A r \in Requesters \ {Drain} : req'[r] = req[r]
  BY <1>1, <1>2 DEF Calling
<1>5. Busy' = Busy
  BY <1>4, BusySame, Kinds
<1>6. Kept' = Kept /\ Loaded' = Loaded
  BY <1>1 DEF Kept, Loaded
<1>7. Unmoved
  BY <1>1, <1>3, <1>5, <1>6, HandNow, HandNext DEF Unmoved, TypeInv
<1>8. batch' # <<>>
  <2>1. Len(queue) \in Nat \ {0} /\ Len(batch') = Smaller(MaxBatch, Len(queue))
    BY <1>1, <1>2, FirstNProps, EmptySeq, LenProperties
  <2>2. Len(batch') # 0
    BY <1>2, <2>1 DEF Smaller
  <2> QED
    BY <2>2, EmptyQueue
<1>9. Unbatched'
  <2>1. BatchSize # 1
    BY <1>1 DEF HandInv, Unbatched
  <2> QED
    BY <1>1, <1>5, <1>6, <2>1 DEF HandInv, Unbatched
<1>10. KeptNewest'
  BY <1>3, <1>6 DEF HandInv, KeptNewest
<1> QED
  BY <1>7, <1>8, <1>9, <1>10 DEF HandInv, Sending

(* A single event's request, or that of an identify call, ends. *)
LEMMA SingleEnds ==
    ASSUME TypeInv, TypeOK', HandInv, NEW r \in Requesters, r # Drain, NEW how \in Ends,
           req[r].pc # "idle", req' = [req EXCEPT ![r] = IdleRequest],
           fate' = Become(Carried(r), how), UNCHANGED <<boot, queue, batch, store, tracked>>
    PROVE  Moves /\ HandInv'
<1>1. TypeOK /\ req \in [Requesters -> Requests]
  BY DEF TypeInv, TypeOK
<1>2. /\ req'[r].pc = "idle"
      /\ \A q \in Requesters : q # r => req'[q] = req[q]
  BY <1>1 DEF IdleRequest
<1>3. HeldSet' = HeldSet /\ Kept' = Kept /\ Loaded' = Loaded
  BY DEF HeldSet, Kept, Loaded
<1>4. CASE r \in Singles
  <2>1. Carried(r) = {r} /\ r \in Events /\ Busy' = Busy \ {r} /\ r \in Busy
    BY <1>2, <1>4, Kinds DEF Carried, Busy
  <2>2. BatchSize = 1 /\ Loaded
    BY <1>4, <2>1 DEF Singles, HandInv, Unbatched
  <2>3. HeldSet = {}
    BY <2>2, EmptyQueue, Members DEF HandInv, Unbatched, HeldSet
  <2>4. InHand = Busy /\ InHand' = Busy'
    BY <1>1, <1>3, <2>2, <2>3, HandNow, HandNext
  <2>5. Leave({r}, how)
    BY <2>1, <2>2, <2>4 DEF Leave
  <2>6. Moves
    BY <2>1, <2>5 DEF Moves
  <2>7. HandInv'
    <3>1. Sending'
      BY <1>2, Kinds DEF HandInv, Sending
    <3>2. Unbatched'
      BY <1>3, <2>2 DEF HandInv, Unbatched
    <3>3. KeptNewest'
      BY <1>3 DEF HandInv, KeptNewest
    <3> QED
      BY <3>1, <3>2, <3>3 DEF HandInv
  <2> QED
    BY <2>6, <2>7
<1>5. CASE r \notin Singles
  <2>1. Carried(r) = {}
    BY <1>5 DEF Carried
  <2>2. fate' = fate
    BY <1>1, <2>1, BecomeNone
  <2>3. Busy' = Busy
    BY <1>2, <1>5, BusySame, Kinds
  <2> QED
    BY <1>1, <1>2, <1>3, <2>2, <2>3, SameHand, SameInv, Kinds DEF Moves
<1> QED
  BY <1>4, <1>5

(* The drain's request ends: S, all that is held before the rest, is settled. *)
LEMMA DrainSettles ==
    ASSUME TypeInv, TypeOK', QueueInv, QueueInv', HandInv, boot' = boot, tracked' = tracked,
           req[Drain].pc \notin {"idle", "failed"},
           req'[Drain].pc \in {"idle", "failed"},
           \A q \in Requesters \ {Drain} : req'[q] = req[q],
           batch' = <<>>, store' = Persisted(queue'),
           NEW how \in Ends,
           \/ queue' = batch \o queue /\ fate' = fate
           \/ queue' = queue /\ fate' = Become(ToSet(batch), how)
           \/ queue' = <<>> /\ fate' = Become(ToSet(batch \o queue), how)
    PROVE  Moves /\ HandInv'
<1>1. /\ TypeOK /\ queue \in Seq(Events) /\ batch \in Seq(Events) /\ store \in Stores
      /\ queue' \in Seq(Events)
  BY DEF TypeInv, TypeOK
<1>2. batch # <<>>
  BY DEF HandInv, Sending
<1>3. Loaded /\ Loaded'
  BY <1>2 DEF QueueInv, QueuedInv, Loaded
<1>4. BatchSize # 1 /\ Busy = {} /\ Busy' = {}
  BY <1>2 DEF HandInv, Unbatched, Busy, Singles
<1>5. InHand = ToSet(batch) \cup ToSet(queue) /\ InHand' = ToSet(queue')
  <2>1. ToSet(batch') = {}
    BY EmptyQueue, Members
  <2> QED
    BY <1>1, <1>3, <1>4, <2>1, HandNow, HandNext DEF HeldSet
<1>6. /\ \A e \in ToSet(batch), f \in ToSet(queue) : e < f
      /\ ToSet(batch) \subseteq Events /\ ToSet(queue) \subseteq Events
      /\ ToSet(batch \o queue) = ToSet(batch) \cup ToSet(queue)
  BY <1>1, HeldOrder, Members, MembersConcat
<1>7. Moves
  <2>1. CASE queue' = batch \o queue /\ fate' = fate
    BY <2>1, <1>5, <1>6 DEF Moves, Unmoved
  <2>2. CASE queue' = queue /\ fate' = Become(ToSet(batch), how)
    <3>1. \A e \in ToSet(batch) : e \notin ToSet(queue)
      <4> SUFFICES ASSUME NEW e \in ToSet(batch), e \in ToSet(queue) PROVE FALSE
        OBVIOUS
      <4>1. e < e /\ e \in Nat
        BY <1>6, Numbers
      <4> QED
        BY <4>1
    <3>2. Leave(ToSet(batch), how)
      BY <2>2, <1>5, <1>6, <3>1 DEF Leave
    <3> QED
      BY <3>2, <1>6 DEF Moves
  <2>3. CASE queue' = <<>> /\ fate' = Become(ToSet(batch \o queue), how)
    <3>1. ToSet(queue') = {}
      BY <2>3, EmptyQueue, Members
    <3>2. Leave(ToSet(batch) \cup ToSet(queue), how)
      BY <2>3, <1>5, <1>6, <3>1 DEF Leave
    <3> QED
      BY <3>2, <1>6 DEF Moves
  <2> QED
    BY <2>1, <2>2, <2>3
<1>8. HandInv'
  <2>1. store'.queue = IF PersistQueue THEN queue' ELSE store.queue
    BY <1>1, PersistedType
  <2>2. KeptNewest'
    BY <2>1, KeptOfQueue DEF HandInv, Unbatched
  <2>3. Sending' /\ Unbatched'
    BY <1>3, <1>4, <2>1 DEF HandInv, Sending, Unbatched
  <2> QED
    BY <2>2, <2>3 DEF HandInv
<1> QED
  BY <1>7, <1>8

LEMMA AcceptMoves ==
    ASSUME TypeInv, TypeOK', QueueInv, QueueInv', HandInv, NEW r \in Requesters, Accept(r)
    PROVE  Moves /\ HandInv'
<1>1. /\ req[r].pc = "body" /\ req' = [req EXCEPT ![r] = IdleRequest]
      /\ fate' = Become(Carried(r), "accepted") /\ UNCHANGED <<boot, queue, tracked>>
  BY DEF Accept, life
<1>2. req \in [Requesters -> Requests] /\ "accepted" \in Ends
  BY DEF TypeInv, TypeOK, Ends
<1>3. CASE r = Drain
  <2>1. batch' = <<>> /\ store' = Persisted(queue') /\ Carried(r) = ToSet(batch)
    BY <1>1, <1>3 DEF Accept, Carried
  <2>2. req'[Drain].pc = "idle" /\ \A q \in Requesters \ {Drain} : req'[q] = req[q]
    BY <1>1, <1>2, <1>3 DEF IdleRequest
  <2>3. req[Drain].pc \notin {"idle", "failed"}
    BY <1>1, <1>3
  <2> QED
    BY <1>1, <1>2, <2>1, <2>2, <2>3, DrainSettles
<1>4. CASE r # Drain
  <2>1. UNCHANGED <<batch, store>>
    BY <1>4 DEF Accept
  <2> QED
    BY <1>1, <1>2, <1>4, <2>1, SingleEnds
<1> QED
  BY <1>3, <1>4

LEMMA FailMoves ==
    ASSUME TypeInv, TypeOK', QueueInv, QueueInv', HandInv, NEW r \in Requesters,
           NEW retryable \in BOOLEAN, Fail(r, retryable)
    PROVE  Moves /\ HandInv'
<1>1. req[r].pc \notin {"idle", "failed"} /\ req \in [Requesters -> Requests]
  BY DEF Fail, InFlight, TypeInv, TypeOK
<1>2. CASE r = Drain /\ DrainCatches(retryable)
  <2>1. /\ queue' = KeptAfter(retryable) /\ batch' = <<>> /\ store' = Persisted(queue')
        /\ boot' = boot /\ tracked' = tracked
        /\ req' = [req EXCEPT ![Drain] = [IdleRequest EXCEPT !.pc = "failed"]]
        /\ fate' = IF ~retryable THEN Become(ToSet(batch \o queue), "refused")
                   ELSE IF RequeueFailedEvents THEN fate ELSE Become(ToSet(batch), "abandoned")
    BY <1>2 DEF DrainCatches, life
  <2>2. req'[Drain].pc = "failed" /\ \A q \in Requesters \ {Drain} : req'[q] = req[q]
    BY <1>1, <2>1, Kinds DEF IdleRequest
  <2>3. "refused" \in Ends /\ "abandoned" \in Ends
    BY DEF Ends
  <2>4. CASE ~retryable
    <3>1. queue' = <<>> /\ fate' = Become(ToSet(batch \o queue), "refused")
      BY <2>1, <2>4 DEF KeptAfter
    <3> QED
      BY <1>1, <1>2, <2>1, <2>2, <2>3, <3>1, DrainSettles
  <2>5. CASE retryable
    <3>1. \/ queue' = batch \o queue /\ fate' = fate
          \/ queue' = queue /\ fate' = Become(ToSet(batch), "abandoned")
      BY <2>1, <2>5 DEF KeptAfter, Requeued
    <3> QED
      BY <1>1, <1>2, <2>1, <2>2, <2>3, <3>1, DrainSettles
  <2> QED
    BY <2>4, <2>5
<1>3. CASE r # Drain
  <2>1. /\ req' = [req EXCEPT ![r] = IdleRequest]
        /\ fate' = Become(Carried(r), IF retryable THEN "abandoned" ELSE "refused")
        /\ UNCHANGED <<boot, queue, batch, store, tracked>>
    BY <1>3 DEF Fail, life
  <2>2. (IF retryable THEN "abandoned" ELSE "refused") \in Ends
    BY DEF Ends
  <2> QED
    BY <1>1, <1>3, <2>1, <2>2, SingleEnds
<1> QED
  BY <1>2, <1>3 DEF Fail

LEMMA CrashMoves ==
    ASSUME TypeInv, TypeOK', QueueInv, HandInv, EventsAccounted, Crash
    PROVE  Moves /\ HandInv'
<1>1. /\ boot' = "off" /\ queue' = <<>> /\ batch' = <<>> /\ store' = store /\ tracked' = tracked
      /\ req' = [r \in Requesters |-> IdleRequest]
      /\ fate' = Become({e \in Events : fate[e] = "pending"} \ Kept, "lost")
  BY DEF Crash, Kept
<1>2. ~Loaded' /\ Kept' = Kept /\ Busy' = {} /\ req'[Drain].pc = "idle"
  BY <1>1, Kinds DEF Loaded, Kept, Busy, IdleRequest
<1>3. InHand' = Kept
  BY <1>2, HandNext
<1>4. {e \in Events : fate[e] = "pending"} = InHand
  BY HandNow DEF EventsAccounted, TypeInv
<1>5. InHand = IF Loaded THEN HeldSet \cup Busy ELSE Kept
  BY HandNow DEF TypeInv
<1>6. Kept \subseteq InHand
  BY <1>5 DEF HandInv, KeptNewest
<1>7. ASSUME BatchSize > 1, NEW e \in InHand \ Kept, NEW f \in Kept PROVE e < f
  <2>1. Loaded /\ e \in HeldSet
    BY <1>5, <1>7, ConfigAssumption DEF Busy, Singles
  <2>2. ~(f < e) /\ e # f
    BY <1>7, <2>1 DEF HandInv, KeptNewest
  <2>3. e \in Nat /\ f \in Nat
    BY HandNow, Numbers DEF TypeInv
  <2> QED
    BY <2>2, <2>3
<1>8. InHand \ (InHand \ Kept) = Kept
  BY <1>6
<1>9. Leave(InHand \ Kept, "lost")
  BY <1>1, <1>3, <1>4, <1>7, <1>8 DEF Leave, Ends
<1>10. Moves
  BY <1>9, HandNow DEF Moves, Ends, TypeInv
<1>11. HandInv'
  BY <1>1, <1>2 DEF HandInv, Sending, Unbatched, KeptNewest
<1> QED
  BY <1>10, <1>11

-----------------------------------------------------------------------------
(* The invariant *)

DeliveryInv == QueueInv /\ ShutsLoaded /\ HandInv /\ EventsAccounted /\ Fresh

LEMMA AccountsKept ==
    ASSUME TypeOK, EventsAccounted, Fresh, Moves
    PROVE  EventsAccounted' /\ Fresh'
<1>1. tracked \in Nat /\ Events \subseteq Nat
  BY InstanceAssumption, Numbers DEF TypeOK
<1>2. CASE Unmoved
  BY <1>2 DEF Unmoved, EventsAccounted, Fresh
<1>3. ASSUME NEW shed \in SUBSET Events, Grows(shed) PROVE EventsAccounted' /\ Fresh'
  <2>1. EventsAccounted'
    <3> SUFFICES ASSUME NEW f \in Events PROVE fate'[f] = "pending" <=> f \in InHand'
      BY DEF EventsAccounted
    <3>1. CASE f = tracked'
      BY <1>3, <3>1 DEF Grows
    <3>2. CASE f # tracked'
      BY <1>3, <3>2 DEF Grows, EventsAccounted
    <3> QED
      BY <3>1, <3>2
  <2>2. Fresh'
    <3> SUFFICES ASSUME NEW f \in Events, f > tracked' PROVE fate'[f] = "new"
      BY DEF Fresh
    <3>1. f > tracked /\ f # tracked'
      BY <1>1, <1>3 DEF Grows
    <3>2. fate[f] = "new" /\ f \notin shed
      BY <1>3, <3>1 DEF Fresh, EventsAccounted, Grows
    <3> QED
      BY <1>3, <3>1, <3>2 DEF Grows
  <2> QED
    BY <2>1, <2>2
<1>4. ASSUME NEW S \in SUBSET Events, NEW how \in Ends, Leave(S, how)
      PROVE  EventsAccounted' /\ Fresh'
  <2>1. \A f \in Events : fate'[f] = IF f \in S THEN how ELSE fate[f]
    BY <1>4 DEF Leave, Become
  <2>2. how # "pending" /\ InHand' = InHand \ S /\ tracked' = tracked
    BY <1>4 DEF Leave, Ends
  <2>3. EventsAccounted'
    BY <2>1, <2>2 DEF EventsAccounted
  <2>4. \A f \in S : fate[f] = "pending"
    BY <1>4 DEF Leave, EventsAccounted
  <2>5. Fresh'
    BY <2>1, <2>2, <2>4 DEF Fresh
  <2> QED
    BY <2>3, <2>5
<1> QED
  BY <1>2, <1>3, <1>4 DEF Moves

LEMMA DeliveryInit == Init => DeliveryInv /\ InHand = {}
<1> SUFFICES ASSUME Init PROVE DeliveryInv /\ InHand = {}
  OBVIOUS
<1>1. TypeOK /\ QueueInv
  BY TypeInit, QueueInit DEF TypeInv
<1>2. ShutsLoaded
  BY EmptyQueue DEF Init, ShutsLoaded
<1>3. store.queue = <<>>
  <2>1. store \in {EmptyStore} \cup LegacyStores
    BY DEF Init
  <2>2. EmptyStore.queue = <<>> /\ [EmptyStore EXCEPT !.user = 1].queue = <<>>
    BY DEF EmptyStore
  <2>3. \A c \in Customs : [EmptyStore EXCEPT !.user = c, !.identified = TRUE].queue = <<>>
    BY DEF EmptyStore
  <2> QED
    BY <2>1, <2>2, <2>3 DEF LegacyStores
<1>4. ~Loaded /\ Busy = {} /\ Sending
  BY Kinds DEF Init, Loaded, Busy, Sending, IdleRequest
<1>5. Kept = {}
  BY <1>3, EmptyQueue, MembersNewest, Members DEF Kept
<1>6. InHand = {}
  BY <1>1, <1>4, <1>5, HandNow
<1>7. Unbatched /\ KeptNewest
  BY <1>3, <1>4 DEF Init, Unbatched, KeptNewest
<1>8. EventsAccounted /\ Fresh
  BY <1>6 DEF Init, EventsAccounted, Fresh
<1> QED
  BY <1>1, <1>2, <1>4, <1>6, <1>7, <1>8 DEF DeliveryInv, HandInv

(* Every step moves the events in hand as EventDelivery allows. *)
LEMMA StepMoves ==
    ASSUME TypeInv, TypeInv', DeliveryInv, QueueInv', [Next]_vars
    PROVE  Moves /\ HandInv'
<1>1. TypeOK /\ TypeOK' /\ QueueInv /\ HandInv /\ ShutsLoaded /\ EventsAccounted
  BY DEF TypeInv, DeliveryInv
<1>2. CASE LoadQueue
  BY <1>1, <1>2, LoadQueueMoves DEF Moves
<1>3. CASE Track
  BY <1>1, <1>3, TrackMoves DEF Moves
<1>4. CASE TrackSingle
  BY <1>1, <1>4, TrackSingleMoves DEF Moves
<1>5. CASE DrainTakes
  BY <1>1, <1>5, DrainTakesMoves DEF Moves
<1>6. ASSUME NEW r \in Requesters, Step(r) PROVE Moves /\ HandInv'
  <2>1. CASE Envelope(r) \/ Post(r) \/ Answered(r) \/ BackOff(r) \/ Retry(r)
    BY <1>1, <2>1, RequestMoves DEF Moves
  <2>2. CASE Accept(r)
    BY <1>1, <2>2, AcceptMoves
  <2>3. CASE Fail(r, TRUE) \/ Fail(r, FALSE)
    BY <1>1, <2>3, FailMoves
  <2> QED
    BY <1>6, <2>1, <2>2, <2>3 DEF Step
<1>7. CASE Crash
  BY <1>1, <1>7, CrashMoves
<1>8. CASE \/ Load \/ AdoptAnonymous \/ AdoptFlag \/ FlagWritten
           \/ \E n \in Resets : Reset(n) \/ ForgetAnonymous(n) \/ ForgetUser(n)
           \/ \E c \in Customs : Identify(c)
  BY <1>1, <1>8, IdentityMoves DEF Moves
<1>9. CASE TrackSettled \/ TimerFires \/ Flush \/ Shutdown \/ DrainDone \/ DrainFailed
  BY <1>1, <1>9, FlushMoves DEF Moves
<1>10. CASE UNCHANGED vars
  <2>1. /\ UNCHANGED <<queue, batch, fate, tracked, req, store>> /\ Loaded' = Loaded
    BY <1>10 DEF vars, Loaded
  <2>2. Busy' = Busy
    BY <2>1 DEF Busy
  <2>3. req'[Drain].pc \in {"idle", "failed"} \/ req[Drain].pc \notin {"idle", "failed"}
    BY <2>1
  <2> QED
    BY <1>1, <2>1, <2>2, <2>3, SameHand, SameInv DEF Moves
<1> QED
  BY <1>2, <1>3, <1>4, <1>5, <1>6, <1>7, <1>8, <1>9, <1>10 DEF Next

LEMMA DeliveryNext == (TypeInv /\ DeliveryInv) /\ [Next]_vars => (TypeInv /\ DeliveryInv)' /\ Moves
<1> SUFFICES ASSUME TypeInv, DeliveryInv, [Next]_vars
             PROVE  (TypeInv /\ DeliveryInv)' /\ Moves
  OBVIOUS
<1>1. TypeInv' /\ QueueInv' /\ ShutsLoaded'
  BY TypeNext, QueueNext, ShutsNext DEF DeliveryInv
<1>2. Moves /\ HandInv'
  BY <1>1, StepMoves
<1>3. EventsAccounted' /\ Fresh'
  BY <1>2, AccountsKept DEF DeliveryInv, TypeInv
<1> QED
  BY <1>1, <1>2, <1>3 DEF DeliveryInv

(* The events that will still be sent are exactly those nobody accepted,   *)
(* refused or gave up: track, drain, requeue, trim, persist, crash and the *)
(* reload of init never forget one and never bring one back.               *)
THEOREM Accounted == Spec => []EventsAccounted
<1>1. Init => TypeInv /\ DeliveryInv
  BY TypeInit, DeliveryInit
<1>2. DeliveryInv => EventsAccounted
  BY DEF DeliveryInv
<1> QED
  BY <1>1, <1>2, DeliveryNext, PTL DEF Spec

-----------------------------------------------------------------------------
(* Refinement *)

Accepted == {e \in Events : fate[e] = "accepted"}

LEMMA MovesRefine ==
    ASSUME BatchSize > 1, TypeOK, EventsAccounted, Fresh, Moves
    PROVE  Delivery!Next \/ UNCHANGED <<tracked, InHand, Accepted>>
<1>1. InHand \subseteq Events /\ \A e \in Events : fate[e] = "pending" <=> e \in InHand
  BY HandNow DEF EventsAccounted
<1>2. CASE Unmoved
  BY <1>2 DEF Unmoved, Accepted
<1>3. ASSUME NEW shed \in SUBSET Events, Grows(shed) PROVE Delivery!Track
  <2>1. /\ shed \in SUBSET InHand /\ tracked' = tracked + 1
        /\ InHand' = (InHand \ shed) \cup {tracked'}
    BY <1>3 DEF Grows
  <2>2. fate[tracked'] = "new"
    <3>1. tracked' > tracked /\ tracked' \in Events
      BY <1>3, InstanceAssumption DEF Grows, TypeOK
    <3> QED
      BY <3>1 DEF Fresh
  <2>3. \A f \in Events : fate'[f] = "accepted" <=> fate[f] = "accepted"
    <3> TAKE f \in Events
    <3>1. CASE f = tracked'
      BY <1>3, <2>2, <3>1 DEF Grows
    <3>2. CASE f # tracked'
      BY <1>1, <1>3, <2>1, <3>2 DEF Grows
    <3> QED
      BY <3>1, <3>2
  <2>4. Accepted' = Accepted
    BY <2>3 DEF Accepted
  <2> QED
    BY <2>1, <2>4 DEF Delivery!Track, Accepted
<1>4. ASSUME NEW S \in SUBSET Events, NEW how \in Ends, Leave(S, how)
      PROVE  Delivery!Deliver \/ Delivery!GiveUp \/ UNCHANGED <<tracked, InHand, Accepted>>
  <2>1. /\ S \in SUBSET InHand /\ InHand' = InHand \ S /\ tracked' = tracked
        /\ \A e \in S, f \in InHand \ S : e < f
        /\ \A f \in Events : fate'[f] = IF f \in S THEN how ELSE fate[f]
    BY <1>4 DEF Leave, Become
  <2>2. Delivery!Oldest(S)
    BY <2>1 DEF Delivery!Oldest
  <2>3. \A f \in S : fate[f] = "pending"
    BY <1>1, <2>1
  <2>4. CASE S = {}
    BY <2>1, <2>4 DEF Accepted
  <2>5. CASE S # {} /\ how = "accepted"
    <3>1. Accepted' = Accepted \cup S
      BY <2>1, <2>5 DEF Accepted
    <3> QED
      BY <2>1, <2>2, <2>5, <3>1 DEF Delivery!Deliver, Accepted
  <2>6. CASE S # {} /\ how # "accepted"
    <3>1. Accepted' = Accepted
      BY <2>1, <2>3, <2>6 DEF Accepted
    <3> QED
      BY <2>1, <2>2, <2>6, <3>1 DEF Delivery!GiveUp, Accepted
  <2> QED
    BY <2>4, <2>5, <2>6
<1> QED
  BY <1>2, <1>3, <1>4 DEF Moves, Delivery!Next

(* With batching the integration implements EventDelivery, for every batch *)
(* and queue size, with or without requeueing, persistQueue, throwOnError: *)
(* events are delivered or dropped oldest first and never come back.       *)
THEOREM DeliveryImplemented == ASSUME BatchSize > 1 PROVE Spec => ImplementsDelivery
<1> DEFINE I == TypeInv /\ DeliveryInv
<1>1. Init => I /\ Delivery!Init
  <2> SUFFICES ASSUME Init PROVE I /\ Delivery!Init
    OBVIOUS
  <2>1. I /\ InHand = {}
    BY TypeInit, DeliveryInit
  <2>2. tracked = 0 /\ Accepted = {}
    BY DEF Init, Accepted
  <2> QED
    BY <2>1, <2>2 DEF Delivery!Init, Accepted
<1>2. I /\ [Next]_vars => I' /\ [Delivery!Next]_(Delivery!vars)
  <2> SUFFICES ASSUME I, [Next]_vars PROVE I' /\ [Delivery!Next]_(Delivery!vars)
    OBVIOUS
  <2>1. I' /\ Moves
    BY DeliveryNext
  <2>2. Delivery!Next \/ UNCHANGED <<tracked, InHand, Accepted>>
    BY <2>1, MovesRefine DEF TypeInv, DeliveryInv
  <2> QED
    BY <2>1, <2>2 DEF Delivery!vars, Accepted
<1> QED
  BY <1>1, <1>2, PTL DEF Spec, ImplementsDelivery, Delivery!Spec

-----------------------------------------------------------------------------
(* With requeueFailedEvents a waiting event always has something that will *)
(* send it.  The drain that just failed is still the head of the chain but *)
(* sends nothing any more, so the invariant does not count it.             *)

Failed == req[Drain].pc = "failed"
Willing == IF Failed THEN 1 ELSE 0      \* where the drains that will still send start
Woken == boot = "on" /\ queue # <<>> => timer \/ settling > 0 \/ Len(chain) > Willing

LEMMA WokenInit == Init => Woken
  BY DEF Init, Woken

LEMMA FlushWakes ==
    ASSUME TypeInv, NEW owner, FlushBy(owner), req' = req, owner \in Owners
    PROVE  Woken'
<1>1. chain \in Seq(Owners) /\ Len(chain) \in Nat
  BY LenProperties DEF TypeInv, TypeOK
<1>2. Len(chain') = Len(chain) + 1
  BY <1>1, FlushByType
<1>3. Failed => Len(chain) > 0
  BY <1>1, EmptySeq DEF Failed, TypeInv, DrainHead
<1>4. Failed' = Failed
  BY DEF Failed
<1> QED
  BY <1>1, <1>2, <1>3, <1>4 DEF Woken, Willing

(* A step that leaves the events, the wake-ups and the drain where they are. *)
LEMMA WokenSame ==
    ASSUME Woken, UNCHANGED <<queue, timer, chain, settling>>, Failed' <=> Failed,
           boot' = "on" => boot = "on"
    PROVE  Woken'
  BY DEF Woken, Willing

(* The queue of a start is what storage held; it sets the timer. *)
LEMMA LoadQueueWakes == ASSUME TypeInv, QueueInv, LoadQueue PROVE Woken'
<1>1. queue = <<>>
  BY DEF LoadQueue, QueueInv, QueuedInv
<1>2. store.queue \in Seq(Events)
  BY DEF TypeInv, TypeOK, Stores
<1>3. CASE PersistQueue /\ store.queue # <<>>
  BY <1>3 DEF LoadQueue, ScheduleLoaded, Schedule, Woken
<1>4. CASE PersistQueue /\ store.queue = <<>>
  <2>1. <<>> \in Seq(Events) /\ Len(<<>>) = 0 /\ <<>> \o <<>> = <<>>
    BY EmptySeq, ConcatEmptySeq
  <2>2. Newest(<<>>) \in Seq(Events) /\ Len(Newest(<<>>)) = 0
    <3>1. Smaller(MaxQueueSize, 0) = 0
      BY ConfigAssumption DEF Smaller
    <3> QED
      BY <2>1, <3>1, NewestProps
  <2>3. queue' = <<>>
    BY <1>1, <1>4, <2>1, <2>2, EmptySeq DEF LoadQueue
  <2> QED
    BY <2>3 DEF Woken
<1>5. CASE ~PersistQueue
  BY <1>1, <1>5 DEF LoadQueue, Woken
<1> QED
  BY <1>3, <1>4, <1>5

LEMMA SettledWakes == ASSUME TypeInv, TrackSettled PROVE Woken'
<1>1. CASE Len(queue) >= BatchSize
  BY <1>1, FlushWakes DEF TrackSettled, Owners
<1>2. CASE ~(Len(queue) >= BatchSize)
  BY <1>2 DEF TrackSettled, Schedule, Woken
<1> QED
  BY <1>1, <1>2

(* The end of a failed drain leaves the wake-up that Woken promised. *)
LEMMA EndWakes == ASSUME TypeInv, Woken, DrainFailed PROVE Woken'
<1>1. /\ chain \in Seq(Owners) /\ chain # <<>> /\ settling \in Nat
      /\ req \in [Requesters -> Requests]
  BY DEF DrainFailed, TypeInv, TypeOK, DrainHead
<1>2. /\ Len(chain) \in Nat /\ Len(Tail(chain)) = Len(chain) - 1 /\ Len(Tail(chain)) \in Nat
  BY <1>1, HeadTailProperties, LenProperties
<1>3. /\ chain' = Tail(chain) /\ UNCHANGED <<queue, settling>>
      /\ boot' = "on" => boot = "on" /\ (timer => timer')
  <2> DEFINE owner == Head(chain)
  <2>1. /\ chain' = Tail(chain)
        /\ boot' = IF owner = Closer THEN "closed" ELSE boot
        /\ timer' = (timer /\ ~(owner = Closer /\ ~ThrowOnError))
        /\ UNCHANGED <<queue, settling>>
    BY DEF DrainFailed, DrainEnds
  <2>2. boot' = "on" => owner # Closer /\ boot = "on"
    BY <2>1
  <2> HIDE DEF owner
  <2> QED
    BY <2>1, <2>2
<1>4. Failed /\ ~Failed'
  <2>1. req'[Drain] = IdleRequest
    BY <1>1, Kinds DEF DrainFailed
  <2> QED
    BY <2>1 DEF DrainFailed, Failed, IdleRequest
<1> QED
  BY <1>1, <1>2, <1>3, <1>4 DEF Woken, Willing

(* The request of the drain ends by an answer, or by its catch, which puts *)
(* the batch back and sets the timer, or drops everything.                 *)
LEMMA StepWakes ==
    ASSUME TypeInv, Woken, RequeueFailedEvents, NEW r \in Requesters, Step(r)
    PROVE  Woken'
<1>1. req \in [Requesters -> Requests] /\ chain \in Seq(Owners) /\ settling \in Nat
  BY DEF TypeInv, TypeOK
<1>2. CASE Envelope(r) \/ Post(r) \/ Answered(r) \/ BackOff(r) \/ Retry(r) \/ Accept(r)
  <2>1. UNCHANGED <<boot, queue, timer, chain, settling>>
    BY <1>2 DEF Envelope, Post, Answered, BackOff, Retry, GoOn, Accept, life
  <2>2. req[r].pc # "failed" /\ req[r] \in Requests
    BY <1>1, <1>2 DEF Envelope, Post, Answered, BackOff, Retry, GoOn, InFlight, Accept
  <2>3. PICK to \in {IdleRequest, [req[r] EXCEPT !.pc = "ready", !.anon = anonId],
                     [req[r] EXCEPT !.pc = "sent", !.user = userId],
                     [req[r] EXCEPT !.pc = "body"], [req[r] EXCEPT !.pc = "pause"],
                     [req[r] EXCEPT !.pc = "sent", !.attempt = @ + 1]} :
              req' = [req EXCEPT ![r] = to]
    BY <1>2 DEF Envelope, Post, Answered, BackOff, Retry, GoOn, Accept
  <2>4. to.pc # "failed"
    <3>1. /\ [req[r] EXCEPT !.pc = "ready", !.anon = anonId].pc = "ready"
          /\ [req[r] EXCEPT !.pc = "sent", !.user = userId].pc = "sent"
          /\ [req[r] EXCEPT !.pc = "body"].pc = "body"
          /\ [req[r] EXCEPT !.pc = "pause"].pc = "pause"
          /\ [req[r] EXCEPT !.pc = "sent", !.attempt = @ + 1].pc = "sent"
      BY <2>2 DEF Requests
    <3>2. IdleRequest.pc = "idle"
      BY DEF IdleRequest
    <3>3. to.pc \in {"idle", "ready", "sent", "body", "pause"}
      BY <2>3, <3>1, <3>2
    <3> QED
      BY <3>3
  <2>5. Failed' <=> Failed
    BY <1>1, <2>2, <2>3, <2>4, Kinds DEF Failed
  <2> QED
    BY <2>1, <2>5, WokenSame
<1>3. ASSUME NEW retryable \in BOOLEAN, Fail(r, retryable) PROVE Woken'
  <2>1. CASE DrainCatches(retryable) /\ retryable
    BY <2>1 DEF DrainCatches, Schedule, Woken
  <2>2. CASE DrainCatches(retryable) /\ ~retryable
    BY <2>2 DEF DrainCatches, KeptAfter, Woken
  <2>3. CASE r # Drain
    <3>1. req'[Drain] = req[Drain] /\ UNCHANGED <<boot, queue, timer, chain, settling>>
      BY <1>1, <1>3, <2>3, Kinds DEF Fail, life
    <3> QED
      BY <3>1, WokenSame DEF Failed
  <2> QED
    BY <1>3, <2>1, <2>2, <2>3 DEF Fail
<1> QED
  BY <1>2, <1>3 DEF Step

LEMMA WokenNext ==
    ASSUME TypeInv, QueueInv, Woken, RequeueFailedEvents, [Next]_vars
    PROVE  Woken'
<1>1. req \in [Requesters -> Requests] /\ chain \in Seq(Owners) /\ settling \in Nat
  BY DEF TypeInv, TypeOK
<1>2. CASE Load \/ AdoptAnonymous \/ AdoptFlag \/ Crash
  BY <1>2 DEF Load, AdoptAnonymous, AdoptFlag, Crash, Woken
<1>3. CASE LoadQueue
  BY <1>3, LoadQueueWakes
<1>4. CASE Track
  BY <1>1, <1>4 DEF Track, Woken
<1>5. CASE TrackSettled
  BY <1>5, SettledWakes
<1>6. CASE TimerFires \/ Flush \/ Shutdown \/ \E n \in Resets : Reset(n)
  <2>1. req' = req /\ \E owner \in Owners : FlushBy(owner)
    BY <1>6 DEF TimerFires, Flush, Shutdown, Reset, OnlyFlushBy, Owners
  <2> QED
    BY <2>1, FlushWakes
<1>7. CASE DrainDone
  BY <1>7 DEF DrainDone, Woken
<1>8. CASE DrainTakes
  <2>1. chain' = chain /\ Len(chain) > 0
    BY <1>1, <1>8, EmptySeq, LenProperties DEF DrainTakes
  <2>2. ~Failed'
    BY <1>1, <1>8, Kinds DEF DrainTakes, Calling, IdleRequest, Failed
  <2> QED
    BY <2>1, <2>2 DEF Woken, Willing
<1>9. CASE DrainFailed
  BY <1>9, EndWakes
<1>10. ASSUME NEW r \in Requesters, Step(r) PROVE Woken'
  BY <1>10, StepWakes
<1>11. CASE TrackSingle
  <2>1. tracked + 1 \in Requesters /\ tracked + 1 # Drain
    BY <1>11, ConfigAssumption, InstanceAssumption
       DEF TrackSingle, TypeInv, TypeOK, Events, Requesters, Singles, Drain
  <2>2. req'[Drain] = req[Drain]
    BY <1>1, <1>11, <2>1, Kinds DEF TrackSingle, Calling
  <2> QED
    BY <1>11, <2>2, WokenSame DEF TrackSingle, Failed, life
<1>12. CASE \E n \in Resets : ForgetAnonymous(n) \/ ForgetUser(n)
  BY <1>12, WokenSame DEF ForgetAnonymous, ForgetUser, Failed, life, pipeline
<1>13. CASE FlagWritten \/ \E c \in Customs : Identify(c)
  <2>1. UNCHANGED <<boot, queue, timer, chain, settling>>
    BY <1>13 DEF FlagWritten, Identify, life
  <2>2. req'[Drain] = req[Drain]
    <3>1. CASE FlagWritten
      <4>1. flagWrites[1] \in Customs \cup Resets
        BY <3>1, ElementOfSeq, EmptySeq DEF FlagWritten, TypeInv, TypeOK
      <4>2. req' = req \/ \E c \in Customs : req' = Calling(c)
        BY <3>1, <4>1 DEF FlagWritten, NextFlag
      <4> QED
        BY <1>1, <4>2, Kinds DEF Calling
    <3>2. ASSUME NEW c \in Customs, Identify(c) PROVE req'[Drain] = req[Drain]
      BY <1>1, <3>2, Kinds DEF Identify
    <3> QED
      BY <1>13, <3>1, <3>2
  <2> QED
    BY <2>1, <2>2, WokenSame DEF Failed
<1>14. CASE UNCHANGED vars
  BY <1>14, WokenSame DEF vars, Failed
<1> QED
  BY <1>2, <1>3, <1>4, <1>5, <1>6, <1>7, <1>8, <1>9, <1>10, <1>11, <1>12, <1>13, <1>14 DEF Next

(* With requeueFailedEvents no event waits in a running client without a   *)
(* set timer, a drain of the chain or a track call that is about to start  *)
(* one: not after a failed drain, a restart, nor a flush that took the     *)
(* timer away.  (Without it, what waits behind a given-up batch is left.)  *)
THEOREM NothingStranded ==
    ASSUME RequeueFailedEvents
    PROVE  Spec => []NoStrandedQueue
<1> DEFINE I == TypeInv /\ QueueInv /\ Woken
<1>1. Init => I
  BY TypeInit, QueueInit, WokenInit
<1>2. I /\ [Next]_vars => I'
  BY TypeNext, QueueNext, WokenNext
<1>3. I => NoStrandedQueue
  <2> SUFFICES ASSUME I, boot = "on", queue # <<>>, Len(chain) > Willing
               PROVE  chain # <<>>
    BY DEF NoStrandedQueue, Woken
  <2> QED
    BY EmptySeq DEF Willing
<1> QED
  BY <1>1, <1>2, <1>3, PTL DEF Spec
=============================================================================
