----------------------- MODULE JsApiIntegration_proofs -----------------------
EXTENDS JsApiIntegration, SequenceTheorems, TLAPS

LEMMA FirstNProps ==
    ASSUME NEW s \in Seq(Events), NEW n \in Nat
    PROVE  /\ FirstN(s, n) \in Seq(Events)
           /\ Len(FirstN(s, n)) = Smaller(n, Len(s))
           /\ \A i \in 1..Len(FirstN(s, n)) : FirstN(s, n)[i] = s[i]
  BY SubSeqProperties, LenProperties DEF FirstN, Smaller

LEMMA AfterNProps ==
    ASSUME NEW s \in Seq(Events), NEW n \in Nat
    PROVE  /\ AfterN(s, n) \in Seq(Events)
           /\ Len(AfterN(s, n)) = Len(s) - Smaller(n, Len(s))
           /\ \A i \in 1..Len(AfterN(s, n)) : AfterN(s, n)[i] = s[i + Smaller(n, Len(s))]
<1> DEFINE k == Smaller(n, Len(s))
<1>1. k \in Nat /\ k <= Len(s) /\ Len(s) \in Nat
  BY LenProperties DEF Smaller
<1>2. \A i \in (k + 1)..Len(s) : s[i] \in Events
  BY <1>1, ElementOfSeq
<1> HIDE DEF k
<1>3. /\ SubSeq(s, k + 1, Len(s)) \in Seq(Events)
      /\ Len(SubSeq(s, k + 1, Len(s))) = IF k + 1 <= Len(s) THEN Len(s) - (k + 1) + 1 ELSE 0
      /\ \A i \in 1..(Len(s) - (k + 1) + 1) : SubSeq(s, k + 1, Len(s))[i] = s[k + 1 + i - 1]
  BY <1>1, <1>2, SubSeqProperties
<1>4. /\ Len(SubSeq(s, k + 1, Len(s))) = Len(s) - k
      /\ \A i \in 1..(Len(s) - k) : SubSeq(s, k + 1, Len(s))[i] = s[i + k]
  BY <1>1, <1>3
<1> QED
  BY <1>3, <1>4 DEF AfterN, k

LEMMA SplitProps ==
    ASSUME NEW s \in Seq(Events), NEW n \in Nat
    PROVE  FirstN(s, n) \o AfterN(s, n) = s
<1> DEFINE a == FirstN(s, n)
           b == AfterN(s, n)
           k == Smaller(n, Len(s))
<1>1. /\ Len(s) \in Nat /\ k \in Nat /\ k <= Len(s)
      /\ a \in Seq(Events) /\ Len(a) = k /\ \A i \in 1..Len(a) : a[i] = s[i]
      /\ b \in Seq(Events) /\ Len(b) = Len(s) - k /\ \A i \in 1..Len(b) : b[i] = s[i + k]
  BY LenProperties, FirstNProps, AfterNProps DEF Smaller
<1> HIDE DEF a, b, k
<1>2. /\ a \o b \in Seq(Events)
      /\ Len(a \o b) = Len(a) + Len(b)
      /\ \A i \in 1..(Len(a) + Len(b)) : (a \o b)[i] = IF i <= Len(a) THEN a[i] ELSE b[i - Len(a)]
  BY <1>1, ConcatProperties
<1>3. Len(a \o b) = Len(s)
  BY <1>1, <1>2
<1>4. \A i \in 1..Len(a \o b) : (a \o b)[i] = s[i]
  <2> TAKE i \in 1..Len(a \o b)
  <2>1. CASE i <= k
    BY <2>1, <1>1, <1>2
  <2>2. CASE i > k
    <3>1. i - k \in 1..Len(b) /\ (a \o b)[i] = b[i - k]
      BY <2>2, <1>1, <1>2
    <3> QED
      BY <3>1, <1>1, <1>2
  <2> QED
    BY <2>1, <2>2, <1>1, <1>2
<1>5. a \o b = s
  BY <1>1, <1>2, <1>3, <1>4, SeqEqual
<1> QED
  BY <1>5 DEF a, b
LEMMA NewestProps ==
    ASSUME NEW s \in Seq(Events)
    PROVE  /\ Newest(s) \in Seq(Events)
           /\ Len(Newest(s)) = Smaller(MaxQueueSize, Len(s))
           /\ \A i \in 1..Len(Newest(s)) :
                 Newest(s)[i] = s[i + (Len(s) - Smaller(MaxQueueSize, Len(s)))]
<1> DEFINE n == Len(s) - Smaller(MaxQueueSize, Len(s))
<1>1. Len(s) \in Nat /\ n \in Nat /\ n <= Len(s)
  BY LenProperties, ConfigAssumption DEF Smaller
<1>2. Smaller(n, Len(s)) = n
  BY <1>1 DEF Smaller
<1> HIDE DEF n
<1>3. /\ AfterN(s, n) \in Seq(Events)
      /\ Len(AfterN(s, n)) = Len(s) - n
      /\ \A i \in 1..Len(AfterN(s, n)) : AfterN(s, n)[i] = s[i + n]
  BY <1>1, <1>2, AfterNProps
<1>4. Len(s) - n = Smaller(MaxQueueSize, Len(s))
  BY <1>1, ConfigAssumption DEF n, Smaller
<1> QED
  BY <1>3, <1>4 DEF Newest, n

-----------------------------------------------------------------------------
(* Types *)

TypeInv == TypeOK /\ FirstStart /\ Quiet /\ DrainHead /\ OneReset /\ RetriesLeft

LEMMA IdleType == IdleRequest \in Requests
  BY ConfigAssumption DEF IdleRequest, Requests, Ids, None

LEMMA TypeInit == Init => TypeInv
<1> SUFFICES ASSUME Init PROVE TypeInv
  OBVIOUS
<1> USE ConfigAssumption, InstanceAssumption
<1>1. store \in {EmptyStore} \cup LegacyStores
  BY DEF Init
<1>2. /\ store \in Stores
      /\ store.anon = None
      /\ \/ store.user = None
         \/ store.user = 1 /\ store.identified = FALSE
         \/ store.user \in Customs /\ store.identified = TRUE
  <2>1. 1 \in Ids /\ None \in Ids /\ Customs \subseteq Ids /\ <<>> \in Seq(Events)
    BY EmptySeq DEF Ids, Anons, None
  <2>2. CASE store = EmptyStore
    BY <2>1, <2>2 DEF EmptyStore, None, Stores
  <2>3. CASE store = [EmptyStore EXCEPT !.user = 1]
    BY <2>1, <2>3 DEF EmptyStore, None, Stores
  <2>4. ASSUME NEW c \in Customs, store = [EmptyStore EXCEPT !.user = c, !.identified = TRUE]
        PROVE  <1>2
    BY <2>1, <2>4 DEF EmptyStore, None, Stores
  <2> QED
    BY <1>1, <2>2, <2>3, <2>4 DEF LegacyStores
<1>3. TypeOK
  <2>1. req \in [Requesters -> Requests]
    BY IdleType DEF Init
  <2>2. /\ queue \in Seq(Events) /\ batch \in Seq(Events) /\ chain \in Seq(Owners)
        /\ flagWrites \in Seq(Customs \cup Resets)
    BY EmptySeq DEF Init
  <2>3. reset \in [Resets -> {"new", "flush", "anonymous", "user", "flag", "done"}]
    BY DEF Init
  <2>4. fate \in [Events -> Fates]
    BY DEF Init, Fates
  <2>5. userId \in Ids /\ anonId \in Anons \cup {None}
    BY DEF Init, Ids
  <2>6. settling \in Nat /\ tracked \in 0..MaxEvents /\ crashes \in 0..MaxCrashes
    BY DEF Init
  <2>7. timer \in BOOLEAN /\ identified \in BOOLEAN /\ loggedOut \in BOOLEAN
    BY DEF Init
  <2> QED
    BY <1>2, <2>1, <2>2, <2>3, <2>4, <2>5, <2>6, <2>7 DEF Init, TypeOK
<1>4. FirstStart
  BY <1>2 DEF Init, FirstStart, None
<1>5. OneReset
  BY EmptySeq DEF Init, OneReset
<1>6. RetriesLeft /\ Quiet /\ DrainHead
  BY DEF Init, RetriesLeft, Quiet, ResetsSettled, DrainHead, IdleRequest, Requesters
<1> QED
  BY <1>3, <1>4, <1>5, <1>6 DEF TypeInv

LEMMA LoadType == ASSUME TypeInv, Load PROVE TypeInv'
<1> USE ConfigAssumption, InstanceAssumption DEF TypeInv
<1> DEFINE kept == IF store.anon = None /\ store.user # None /\ ~store.identified
                     THEN store.user ELSE store.anon
           anon == IF kept = None THEN 1 ELSE kept
<1>1. anon \in Anons
  <2>1. CASE store.anon # None
    BY <2>1 DEF TypeOK, Stores, Anons, None
  <2>2. CASE store.anon = None /\ store.user = None
    BY <2>2 DEF Anons, None
  <2>3. CASE store.anon = None /\ store.user = 1 /\ ~store.identified
    BY <2>3 DEF Anons, None
  <2>4. CASE store.anon = None /\ store.user \in Customs /\ store.identified
    BY <2>4 DEF Anons, None
  <2> QED
    BY <2>1, <2>2, <2>3, <2>4 DEF FirstStart
<1>2. kept = None /\ store.user # None => store.user \in Customs
  BY DEF TypeOK, Stores, FirstStart, None
<1>3. /\ boot = "off"
      /\ boot' = IF store.user # None THEN "queue" ELSE "user"
      /\ userId' = store.user
      /\ identified' = (store.user # None /\ store.identified)
      /\ anonId' = anon
      /\ store' = [store EXCEPT !.anon = anon]
      /\ merges' = IF kept = None /\ store.user # None
                     THEN merges \cup {<<store.user, anon>>} ELSE merges
      /\ UNCHANGED <<crashes, pipeline, flagWrites, reset, loggedOut>>
  BY DEF Load
<1> HIDE DEF kept, anon
<1>4. TypeOK'
  <2>1. merges' \subseteq Customs \X Anons
    <3>1. merges \subseteq Customs \X Anons
      BY DEF TypeOK
    <3> HIDE DEF TypeInv
    <3> QED
      BY <1>1, <1>2, <1>3, <3>1
  <2>2. /\ store' \in Stores
        /\ userId' \in Ids /\ anonId' \in Anons \cup {None} /\ identified' \in BOOLEAN
    <3>1. store \in Stores
      BY DEF TypeOK
    <3> HIDE DEF TypeInv
    <3>2. store' \in Stores
      BY <1>1, <1>3, <3>1 DEF Stores
    <3>3. store.user \in Ids /\ store.identified \in BOOLEAN
      BY <3>1 DEF Stores
    <3> QED
      BY <1>1, <1>3, <3>1, <3>2, <3>3
  <2> QED
    BY <1>3, <2>1, <2>2 DEF TypeOK, pipeline
<1>5. FirstStart'
  BY <1>1, <1>3 DEF TypeOK, Stores, FirstStart, Anons, None
<1>6. OneReset' /\ RetriesLeft' /\ DrainHead' /\ Quiet'
  <2>1. OneReset'
    BY <1>3 DEF OneReset, pipeline
  <2>2. ResetsSettled' /\ boot' # "off"
    BY <1>3 DEF ResetsSettled, Quiet
  <2> QED
    BY <1>3, <2>1, <2>2 DEF RetriesLeft, DrainHead, Quiet, pipeline
<1> QED
  BY <1>4, <1>5, <1>6

(* The other steps of init. *)
LEMMA BootType ==
    ASSUME TypeInv, AdoptAnonymous \/ AdoptFlag \/ LoadQueue PROVE TypeInv'
<1> USE ConfigAssumption, InstanceAssumption DEF TypeInv
<1>1. CASE AdoptAnonymous
  <2>1. TypeOK'
    BY <1>1 DEF AdoptAnonymous, TypeOK, Stores, Ids, Anons, None, pipeline
  <2>2. FirstStart' /\ Quiet'
    BY <1>1 DEF AdoptAnonymous, TypeOK, Stores, FirstStart, Quiet, Ids, Anons, None, pipeline
  <2>3. DrainHead' /\ OneReset' /\ RetriesLeft'
    BY <1>1 DEF AdoptAnonymous, DrainHead, OneReset, RetriesLeft, pipeline
  <2> QED
    BY <2>1, <2>2, <2>3
<1>2. CASE AdoptFlag
  <2>1. TypeOK'
    BY <1>2 DEF AdoptFlag, TypeOK, Stores, pipeline, identity, who
  <2>2. FirstStart' /\ Quiet'
    BY <1>2 DEF AdoptFlag, TypeOK, Stores, FirstStart, Quiet, pipeline, identity, who
  <2>3. DrainHead' /\ OneReset' /\ RetriesLeft'
    BY <1>2 DEF AdoptFlag, DrainHead, OneReset, RetriesLeft, pipeline, identity, who
  <2> QED
    BY <2>1, <2>2, <2>3
<1>3. CASE LoadQueue
  <2>1. store.queue \o queue \in Seq(Events)
    BY ConcatProperties DEF TypeOK, Stores
  <2>2. Newest(store.queue \o queue) \in Seq(Events)
    BY <2>1, NewestProps
  <2>3. timer' \in BOOLEAN
    BY <1>3 DEF LoadQueue, ScheduleLoaded, Schedule, TypeOK
  <2> QED
    BY <1>3, <2>2, <2>3 DEF LoadQueue, TypeOK, FirstStart, Quiet, DrainHead, OneReset, RetriesLeft,
                           identity, who
<1> QED
  BY <1>1, <1>2, <1>3

(* A flush joins the chain: a reset's only when no reset is waiting. *)
LEMMA FlushByType ==
    ASSUME NEW owner \in Owners, chain \in Seq(Owners), FlushBy(owner)
    PROVE  /\ timer' \in BOOLEAN /\ chain' \in Seq(Owners)
           /\ Len(chain') = Len(chain) + 1
           /\ \A i \in 1..Len(chain) : chain'[i] = chain[i]
           /\ chain'[Len(chain) + 1] = owner
<1>1. timer' = FALSE /\ chain' = Append(chain, owner)
  BY DEF FlushBy
<1>2. /\ Append(chain, owner) \in Seq(Owners)
      /\ Len(Append(chain, owner)) = Len(chain) + 1
      /\ \A i \in 1..Len(chain) : Append(chain, owner)[i] = chain[i]
      /\ Append(chain, owner)[Len(chain) + 1] = owner
  BY AppendProperties
<1> QED
  BY <1>1, <1>2, Zenon

(* Owners of different calls differ. *)
LEMMA OwnersApart ==
    /\ Void # Closer
    /\ \A n \in Resets : ResetOf(n) # Void /\ ResetOf(n) # Closer
    /\ \A m, n \in Resets : ResetOf(m) = ResetOf(n) => m = n
  BY DEF Void, Closer, ResetOf

(* A flush of no reset leaves the resets where they are. *)
LEMMA FlushByOther ==
    ASSUME TypeInv, NEW owner \in Owners, FlushBy(owner), \A n \in Resets : owner # ResetOf(n),
           UNCHANGED <<reset, flagWrites, req>>
    PROVE  OneReset' /\ DrainHead'
<1>1. /\ Len(chain) \in Nat /\ chain' \in Seq(Owners) /\ Len(chain') = Len(chain) + 1
      /\ \A i \in 1..Len(chain) : chain'[i] = chain[i]
      /\ chain'[Len(chain) + 1] = owner
  BY FlushByType, LenProperties DEF TypeInv, TypeOK
<1>2. ASSUME NEW n \in Resets, NEW i \in 1..Len(chain'), chain'[i] = ResetOf(n)
      PROVE  i \in 1..Len(chain) /\ chain[i] = ResetOf(n)
  BY <1>1, <1>2
<1>3. OneReset'
  BY <1>1, <1>2 DEF TypeInv, OneReset
<1>4. chain' # <<>>
  BY <1>1, EmptySeq
<1> QED
  BY <1>3, <1>4 DEF DrainHead

LEMMA OnlyFlushByType ==
    ASSUME TypeInv, boot # "off", NEW owner \in {Void, Closer}, OnlyFlushBy(owner)
    PROVE  TypeInv'
<1> USE DEF TypeInv
<1>1. /\ FlushBy(owner) /\ chain \in Seq(Owners) /\ owner \in Owners
      /\ \A n \in Resets : owner # ResetOf(n)
  BY OwnersApart DEF OnlyFlushBy, TypeOK, Owners
<1>2. TypeOK' /\ FirstStart' /\ RetriesLeft' /\ Quiet'
  BY <1>1, FlushByType DEF OnlyFlushBy, TypeOK, FirstStart, RetriesLeft, Quiet, life, identity, who
<1>3. OneReset' /\ DrainHead'
  BY <1>1, FlushByOther DEF OnlyFlushBy, life, identity, who
<1> QED
  BY <1>2, <1>3

LEMMA BecomeType ==
    ASSUME NEW S, NEW how \in Fates, fate \in [Events -> Fates]
    PROVE  Become(S, how) \in [Events -> Fates]
  BY DEF Become

LEMMA PersistedType ==
    ASSUME store \in Stores, NEW s \in Seq(Events)
    PROVE  /\ Persisted(s) \in Stores
           /\ Persisted(s).user = store.user /\ Persisted(s).anon = store.anon
           /\ Persisted(s).identified = store.identified
           /\ Persisted(s).queue = IF PersistQueue THEN s ELSE store.queue
  BY DEF Persisted, Stores

LEMMA TrackType == ASSUME TypeInv, Track PROVE TypeInv'
<1> USE ConfigAssumption, InstanceAssumption DEF TypeInv
<1>1. tracked + 1 \in Events /\ queue \in Seq(Events)
  BY DEF Track, TypeOK, Events
<1>2. queue' \in Seq(Events)
  BY <1>1, AppendProperties, NewestProps DEF Track
<1>3. /\ store' \in Stores /\ store'.user = store.user /\ store'.anon = store.anon
      /\ store'.identified = store.identified
  BY <1>2, PersistedType DEF Track, TypeOK
<1>4. fate' \in [Events -> Fates]
  BY <1>1, BecomeType DEF Track, TypeOK, Fates
<1>5. tracked' \in 0..MaxEvents /\ settling' \in Nat
  BY DEF Track, TypeOK
<1>6. TypeOK'
  BY <1>2, <1>3, <1>4, <1>5 DEF Track, TypeOK, life, identity, who
<1>7. FirstStart' /\ OneReset' /\ RetriesLeft' /\ Quiet' /\ DrainHead'
  BY <1>3 DEF Track, FirstStart, Quiet, DrainHead, OneReset, RetriesLeft, life, identity, who
<1> QED
  BY <1>6, <1>7

LEMMA TrackSettledType == ASSUME TypeInv, TrackSettled PROVE TypeInv'
<1> USE DEF TypeInv
<1>1. CASE Len(queue) >= BatchSize
  <2>1. /\ FlushBy(Void) /\ chain \in Seq(Owners) /\ Void \in Owners
        /\ \A n \in Resets : Void # ResetOf(n)
    BY <1>1, OwnersApart DEF TrackSettled, TypeOK, Owners
  <2>2. TypeOK' /\ FirstStart' /\ RetriesLeft' /\ Quiet'
    BY <2>1, FlushByType
       DEF TrackSettled, TypeOK, FirstStart, RetriesLeft, Quiet, life, identity, who
  <2>3. OneReset' /\ DrainHead'
    BY <2>1, FlushByOther DEF TrackSettled, life, identity, who
  <2> QED
    BY <2>2, <2>3
<1>2. CASE ~(Len(queue) >= BatchSize)
  <2>1. timer' \in BOOLEAN /\ chain' = chain
    BY <1>2 DEF TrackSettled, Schedule
  <2>2. settling' \in Nat
    BY DEF TrackSettled, TypeOK
  <2>3. boot # "off"
    BY DEF TrackSettled, Quiet
  <2> QED
    BY <2>1, <2>2, <2>3 DEF TrackSettled, TypeOK, FirstStart, Quiet, DrainHead, OneReset, RetriesLeft, life, identity, who
<1> QED
  BY <1>1, <1>2

(* Where a drain ends: the head of the chain leaves, and with it the only  *)
(* drain of the reset that waited for it.                                  *)
LEMMA DrainEndsType ==
    ASSUME TypeInv, chain # <<>>, NEW ok \in BOOLEAN, DrainEnds(ok), flagWrites' = flagWrites
    PROVE  /\ chain' \in Seq(Owners)
           /\ reset' \in [Resets -> {"new", "flush", "anonymous", "user", "flag", "done"}]
           /\ boot' \in {boot, "closed"}
           /\ timer' \in BOOLEAN
           /\ boot # "off" /\ boot' # "off"
           /\ OneReset'
<1> USE DEF TypeInv
<1>1. /\ chain \in Seq(Owners) /\ Len(chain) \in Nat \ {0}
      /\ chain' \in Seq(Owners) /\ Len(chain') = Len(chain) - 1
      /\ \A i \in 1..Len(chain') : chain'[i] = chain[i + 1]
      /\ Head(chain) = chain[1]
  BY HeadTailProperties, EmptySeq, LenProperties DEF DrainEnds, TypeOK
<1>2. /\ reset' \in [Resets -> {"new", "flush", "anonymous", "user", "flag", "done"}]
      /\ boot' \in {boot, "closed"}
      /\ timer' \in BOOLEAN
  BY DEF DrainEnds, TypeOK
<1>3. \A n \in Resets : chain[1] # ResetOf(n) => reset'[n] = reset[n]
  BY <1>1 DEF DrainEnds
<1>4. OneReset'
  <2> SUFFICES ASSUME NEW n \in Resets
               PROVE  /\ \A i \in 1..Len(chain') : chain'[i] = ResetOf(n) =>
                            /\ reset'[n] = "flush"
                            /\ \A j \in 1..Len(chain') : chain'[j] = ResetOf(n) => i = j
                      /\ \A i \in 1..Len(flagWrites') : flagWrites'[i] = n =>
                            /\ reset'[n] = "flag"
                            /\ \A j \in 1..Len(flagWrites') : flagWrites'[j] = n => i = j
    BY DEF OneReset
  <2>1. CASE chain[1] = ResetOf(n)
    <3>1. reset[n] = "flush" /\ \A j \in 1..Len(chain) : chain[j] = ResetOf(n) => j = 1
      BY <2>1, <1>1 DEF OneReset
    <3>2. \A i \in 1..Len(chain') : chain'[i] # ResetOf(n)
      BY <3>1, <1>1
    <3>3. \A i \in 1..Len(flagWrites') : flagWrites'[i] # n
      BY <3>1 DEF OneReset
    <3> QED
      BY <3>2, <3>3
  <2>2. CASE chain[1] # ResetOf(n)
    <3>1. reset'[n] = reset[n]
      BY <2>2, <1>3
    <3>2. ASSUME NEW i \in 1..Len(chain'), chain'[i] = ResetOf(n),
                 NEW j \in 1..Len(chain'), chain'[j] = ResetOf(n)
          PROVE  reset[n] = "flush" /\ i = j
      <4>1. /\ i + 1 \in 1..Len(chain) /\ chain[i + 1] = ResetOf(n)
            /\ j + 1 \in 1..Len(chain) /\ chain[j + 1] = ResetOf(n)
        BY <3>2, <1>1
      <4>2. reset[n] = "flush" /\ i + 1 = j + 1
        BY <4>1 DEF OneReset
      <4> QED
        BY <4>2, <1>1
    <3> QED
      BY <3>1, <3>2 DEF OneReset
  <2> QED
    BY <2>1, <2>2
<1>5. boot # "off" /\ boot' # "off"
  BY <1>2 DEF Quiet
<1> QED
  BY <1>1, <1>2, <1>4, <1>5

LEMMA DrainDoneType == ASSUME TypeInv, DrainDone PROVE TypeInv'
<1> USE DEF TypeInv
<1>1. DrainEnds(TRUE) /\ chain # <<>> /\ flagWrites' = flagWrites
  BY DEF DrainDone, who
<1>2. /\ chain' \in Seq(Owners)
      /\ reset' \in [Resets -> {"new", "flush", "anonymous", "user", "flag", "done"}]
      /\ boot' \in {boot, "closed"}
      /\ timer' \in BOOLEAN
      /\ boot # "off" /\ boot' # "off"
      /\ OneReset'
  BY <1>1, DrainEndsType
<1>3. TypeOK'
  BY <1>2 DEF DrainDone, TypeOK, who
<1> QED
  BY <1>2, <1>3 DEF DrainDone, FirstStart, Quiet, DrainHead, RetriesLeft, who

LEMMA DrainFailedType == ASSUME TypeInv, DrainFailed PROVE TypeInv'
<1> USE ConfigAssumption DEF TypeInv
<1> DEFINE returns == ~ThrowOnError
<1>1. /\ DrainEnds(returns) /\ chain # <<>> /\ flagWrites' = flagWrites
      /\ returns \in BOOLEAN
  BY DEF DrainFailed, DrainHead, who
<1> HIDE DEF returns
<1>2. /\ chain' \in Seq(Owners)
      /\ reset' \in [Resets -> {"new", "flush", "anonymous", "user", "flag", "done"}]
      /\ boot' \in {boot, "closed"}
      /\ timer' \in BOOLEAN
      /\ boot # "off" /\ boot' # "off"
      /\ OneReset'
  BY <1>1, DrainEndsType
<1>3. req' = [req EXCEPT ![Drain] = IdleRequest] /\ req' \in [Requesters -> Requests]
  BY IdleType DEF DrainFailed, TypeOK
<1>4. TypeOK'
  BY <1>2, <1>3 DEF DrainFailed, TypeOK, who
<1>5. RetriesLeft' /\ DrainHead'
  BY <1>3 DEF TypeOK, RetriesLeft, DrainHead, IdleRequest, Requesters
<1> QED
  BY <1>2, <1>4, <1>5 DEF DrainFailed, FirstStart, Quiet, who

LEMMA CallingType ==
    ASSUME req \in [Requesters -> Requests], RetriesLeft, NEW r \in Requesters
    PROVE  /\ Calling(r) \in [Requesters -> Requests]
           /\ \A q \in Requesters : Calling(r)[q].pc = "pause" =>
                                       Calling(r)[q].attempt < MaxRetries
           /\ \A q \in Requesters \ {r} : Calling(r)[q] = req[q]
<1>1. [IdleRequest EXCEPT !.pc = "envelope"] \in Requests
  BY IdleType DEF IdleRequest, Requests
<1>2. [IdleRequest EXCEPT !.pc = "envelope"].pc = "envelope"
  BY DEF IdleRequest
<1> QED
  BY <1>1, <1>2 DEF Calling, RetriesLeft

LEMMA DrainTakesType == ASSUME TypeInv, DrainTakes PROVE TypeInv'
<1> USE ConfigAssumption DEF TypeInv
<1>1. req' \in [Requesters -> Requests] /\ RetriesLeft'
  BY CallingType DEF DrainTakes, TypeOK, RetriesLeft, Requesters
<1>2. batch' \in Seq(Events) /\ queue' \in Seq(Events)
  BY FirstNProps, AfterNProps DEF DrainTakes, TypeOK
<1>3. TypeOK'
  BY <1>1, <1>2 DEF DrainTakes, TypeOK, life, identity, who
<1> QED
  BY <1>1, <1>3 DEF DrainTakes, FirstStart, Quiet, DrainHead, OneReset, life, identity, who

LEMMA TrackSingleType == ASSUME TypeInv, TrackSingle PROVE TypeInv'
<1> USE ConfigAssumption, InstanceAssumption DEF TypeInv
<1>1. tracked + 1 \in Events /\ tracked + 1 \in Requesters /\ tracked + 1 # Drain
  BY DEF TrackSingle, TypeOK, Events, Requesters, Singles, Drain
<1>2. /\ req' = Calling(tracked + 1)
      /\ req' \in [Requesters -> Requests] /\ RetriesLeft' /\ req'[Drain] = req[Drain]
  BY <1>1, CallingType DEF TrackSingle, TypeOK, RetriesLeft, Requesters
<1>3. fate' \in [Events -> Fates] /\ tracked' \in 0..MaxEvents
  <2>1. fate' = [fate EXCEPT ![tracked + 1] = "pending"] /\ "pending" \in Fates
    BY DEF TrackSingle, Fates
  <2>2. tracked' \in 0..MaxEvents
    BY DEF TrackSingle, TypeOK
  <2> QED
    BY <2>1, <2>2 DEF TypeOK
<1>4. TypeOK'
  BY <1>2, <1>3 DEF TrackSingle, TypeOK, life, identity, who
<1> QED
  BY <1>2, <1>4 DEF TrackSingle, FirstStart, Quiet, DrainHead, OneReset, life, identity, who

(* A request that goes on keeps the types. *)
LEMMA ReqType ==
    ASSUME req \in [Requesters -> Requests], RetriesLeft, NEW r \in Requesters,
           NEW to \in Requests, to.pc = "pause" => to.attempt < MaxRetries,
           req' = [req EXCEPT ![r] = to]
    PROVE  req' \in [Requesters -> Requests] /\ RetriesLeft' /\ req'[r] = to
           /\ \A q \in Requesters \ {r} : req'[q] = req[q]
  BY DEF RetriesLeft

LEMMA GoOnType ==
    ASSUME TypeInv, NEW r \in Requesters, NEW from, "idle" \notin from,
           NEW to \in Requests, to.pc = "pause" => to.attempt < MaxRetries,
           GoOn(r, from, to)
    PROVE  TypeInv'
<1> USE DEF TypeInv
<1>1. /\ req' \in [Requesters -> Requests] /\ RetriesLeft' /\ req'[r] = to
      /\ \A q \in Requesters \ {r} : req'[q] = req[q]
  BY ReqType DEF GoOn, TypeOK
<1>2. DrainHead'
  BY <1>1 DEF GoOn, DrainHead, life, Requesters
<1>3. TypeOK'
  BY <1>1 DEF GoOn, TypeOK, life, identity, who
<1> QED
  BY <1>1, <1>2, <1>3 DEF GoOn, FirstStart, Quiet, ResetsSettled, OneReset, life, identity, who

LEMMA SendingType ==
    ASSUME TypeInv, NEW r \in Requesters,
           Envelope(r) \/ Post(r) \/ Answered(r) \/ BackOff(r) \/ Retry(r)
    PROVE  TypeInv'
<1> USE ConfigAssumption DEF TypeInv
<1>0. req[r] \in Requests /\ userId \in Ids /\ anonId \in Anons \cup {None}
  BY DEF TypeOK
<1>1. CASE Envelope(r)
  <2>1. [req[r] EXCEPT !.pc = "ready", !.anon = anonId] \in Requests
    BY <1>0 DEF Requests
  <2> QED
    BY <1>1, <2>1, GoOnType DEF Envelope, Requests
<1>2. CASE Post(r)
  <2>1. [req[r] EXCEPT !.pc = "sent", !.user = userId] \in Requests
    BY <1>0 DEF Requests
  <2> QED
    BY <1>2, <2>1, GoOnType DEF Post, Requests
<1>3. CASE Answered(r)
  <2>1. [req[r] EXCEPT !.pc = "body"] \in Requests
    BY <1>0 DEF Requests
  <2> QED
    BY <1>3, <2>1, GoOnType DEF Answered, Requests
<1>4. CASE BackOff(r)
  <2>1. /\ [req[r] EXCEPT !.pc = "pause"] \in Requests
        /\ [req[r] EXCEPT !.pc = "pause"].attempt < MaxRetries
    BY <1>0, <1>4 DEF BackOff, Requests
  <2> QED
    BY <1>4, <2>1, GoOnType DEF BackOff, InFlight
<1>5. CASE Retry(r)
  <2>1. req[r].attempt < MaxRetries
    BY <1>5 DEF Retry, GoOn, RetriesLeft
  <2>2. req[r].attempt + 1 \in 0..MaxRetries
    BY <1>0, <2>1 DEF Requests
  <2>3. [req[r] EXCEPT !.pc = "sent", !.attempt = @ + 1] \in Requests
    BY <1>0, <2>2 DEF Requests
  <2> QED
    BY <1>5, <2>3, GoOnType DEF Retry, Requests
<1> QED
  BY <1>1, <1>2, <1>3, <1>4, <1>5

LEMMA AcceptType == ASSUME TypeInv, NEW r \in Requesters, Accept(r) PROVE TypeInv'
<1> USE ConfigAssumption DEF TypeInv
<1>1. /\ req' \in [Requesters -> Requests] /\ RetriesLeft' /\ req'[r] = IdleRequest
      /\ \A q \in Requesters \ {r} : req'[q] = req[q]
  BY ReqType, IdleType DEF Accept, TypeOK, IdleRequest
<1>2. fate' \in [Events -> Fates]
  BY BecomeType DEF Accept, TypeOK, Fates
<1>3. /\ store' \in Stores /\ store'.user = store.user /\ store'.anon = store.anon
      /\ store'.identified = store.identified
  BY PersistedType DEF Accept, TypeOK
<1>4. batch' \in Seq(Events)
  BY EmptySeq DEF Accept, TypeOK
<1>5. DrainHead'
  BY <1>1 DEF Accept, DrainHead, IdleRequest, Requesters, life
<1>6. TypeOK'
  BY <1>1, <1>2, <1>3, <1>4 DEF Accept, TypeOK, life, identity, who
<1> QED
  BY <1>1, <1>3, <1>5, <1>6 DEF Accept, FirstStart, Quiet, ResetsSettled, OneReset, life, identity, who

LEMMA FailType ==
    ASSUME TypeInv, NEW r \in Requesters, NEW retryable \in BOOLEAN, Fail(r, retryable)
    PROVE  TypeInv'
<1> USE ConfigAssumption DEF TypeInv
<1>1. CASE r = Drain /\ DrainCatches(retryable)
  <2>1. [IdleRequest EXCEPT !.pc = "failed"] \in Requests
    BY IdleType DEF IdleRequest, Requests
  <2>2. req' \in [Requesters -> Requests] /\ RetriesLeft'
    BY <1>1, <2>1, ReqType DEF DrainCatches, TypeOK, IdleRequest
  <2>3. queue' \in Seq(Events) /\ batch' \in Seq(Events)
    BY <1>1, EmptySeq, ConcatProperties DEF DrainCatches, KeptAfter, Requeued, TypeOK
  <2>4. /\ store' \in Stores /\ store'.user = store.user /\ store'.anon = store.anon
        /\ store'.identified = store.identified
    BY <1>1, <2>3, PersistedType DEF DrainCatches, TypeOK
  <2>5. fate' \in [Events -> Fates] /\ timer' \in BOOLEAN
    BY <1>1, BecomeType DEF DrainCatches, TypeOK, Fates, Schedule
  <2>6. chain' = chain /\ chain # <<>> /\ boot' = boot /\ boot # "off"
    BY <1>1 DEF Fail, DrainCatches, DrainHead, Quiet, InFlight, life
  <2>7. TypeOK'
    BY <1>1, <2>2, <2>3, <2>4, <2>5 DEF DrainCatches, TypeOK, life, identity, who
  <2>8. FirstStart' /\ Quiet'
    BY <1>1, <2>4, <2>6 DEF DrainCatches, FirstStart, Quiet, life, identity, who
  <2>9. DrainHead' /\ OneReset'
    BY <1>1, <2>6 DEF DrainCatches, DrainHead, OneReset, life, identity, who
  <2> QED
    BY <2>2, <2>7, <2>8, <2>9
<1>2. CASE r # Drain
  <2>1. /\ req' \in [Requesters -> Requests] /\ RetriesLeft' /\ req'[Drain] = req[Drain]
    BY <1>2, ReqType, IdleType DEF Fail, TypeOK, IdleRequest, Requesters
  <2>2. fate' \in [Events -> Fates]
    <3>1. fate' = Become(Carried(r), IF retryable THEN "abandoned" ELSE "refused")
      BY <1>2 DEF Fail
    <3>2. (IF retryable THEN "abandoned" ELSE "refused") \in Fates
      BY DEF Fates
    <3> QED
      BY <3>1, <3>2, BecomeType DEF TypeOK
  <2>3. TypeOK'
    BY <1>2, <2>1, <2>2 DEF Fail, TypeOK, life, identity, who
  <2> QED
    BY <1>2, <2>1, <2>3
       DEF Fail, FirstStart, Quiet, ResetsSettled, DrainHead, OneReset, life, identity, who
<1> QED
  BY <1>1, <1>2 DEF Fail

(* setUser queues its flag write: a reset's only when none is waiting. *)
LEMMA SetUserType ==
    ASSUME TypeInv, NEW id \in Ids, NEW flag \in BOOLEAN, NEW call \in Customs \cup Resets,
           SetUser(id, flag, call)
    PROVE  /\ userId' \in Ids /\ identified' \in BOOLEAN
           /\ store' \in Stores /\ store'.anon = store.anon /\ store'.user = id
           /\ flagWrites' \in Seq(Customs \cup Resets)
           /\ Len(flagWrites') = Len(flagWrites) + 1
           /\ \A i \in 1..Len(flagWrites) : flagWrites'[i] = flagWrites[i]
           /\ flagWrites'[Len(flagWrites) + 1] = call
<1>1. flagWrites \in Seq(Customs \cup Resets) /\ store \in Stores
  BY DEF TypeInv, TypeOK
<1>2. /\ store' \in Stores /\ store'.anon = store.anon /\ store'.user = id
  BY <1>1 DEF SetUser, Stores
<1>3. flagWrites' = Append(flagWrites, call)
  BY DEF SetUser
<1>4. /\ flagWrites' \in Seq(Customs \cup Resets)
      /\ Len(flagWrites') = Len(flagWrites) + 1
      /\ \A i \in 1..Len(flagWrites) : flagWrites'[i] = flagWrites[i]
      /\ flagWrites'[Len(flagWrites) + 1] = call
  BY <1>1, <1>3, AppendProperties
<1> QED
  BY <1>2, <1>4 DEF SetUser

LEMMA IdentifyType == ASSUME TypeInv, NEW c \in Customs, Identify(c) PROVE TypeInv'
<1> USE ConfigAssumption, InstanceAssumption DEF TypeInv
<1>1. /\ SetUser(c, TRUE, c) /\ c \in Ids /\ c \in Customs \cup Resets /\ c \notin Resets
      /\ c \in Requesters /\ c # Drain
  <2>1. \A m \in Resets : m \in Nat
    BY DEF Resets
  <2> QED
    BY <2>1 DEF Identify, Ids, Requesters, Drain
<1>2. /\ userId' \in Ids /\ identified' \in BOOLEAN
      /\ store' \in Stores /\ store'.anon = store.anon /\ store'.user = c
      /\ flagWrites' \in Seq(Customs \cup Resets)
      /\ Len(flagWrites') = Len(flagWrites) + 1
      /\ \A i \in 1..Len(flagWrites) : flagWrites'[i] = flagWrites[i]
      /\ flagWrites'[Len(flagWrites) + 1] = c
  BY <1>1, SetUserType
<1>3. [req[c] EXCEPT !.pc = "user"] \in Requests
  BY <1>1 DEF TypeOK, Requests
<1>4. req' \in [Requesters -> Requests] /\ RetriesLeft' /\ req'[Drain] = req[Drain]
  BY <1>1, <1>3, ReqType DEF Identify, TypeOK, Requests, Requesters
<1>5. merges' \subseteq Customs \X Anons
  BY DEF Identify, TypeOK, FirstStart
<1>6. TypeOK'
  BY <1>2, <1>4, <1>5 DEF Identify, TypeOK, life
<1>7. OneReset'
  <2>1. Len(flagWrites) \in Nat
    BY LenProperties DEF TypeOK
  <2>2. \A n \in Resets : \A i \in 1..Len(flagWrites') : flagWrites'[i] = n =>
           i \in 1..Len(flagWrites) /\ flagWrites[i] = n
    BY <1>1, <1>2, <2>1
  <2>3. UNCHANGED <<chain, reset>>
    BY DEF Identify
  <2> QED
    BY <2>2, <2>3 DEF OneReset
<1> QED
  BY <1>2, <1>4, <1>6, <1>7 DEF Identify, FirstStart, Quiet, DrainHead, life

(* The oldest flag write leaves, and the others move up. *)
LEMMA FlagsLeft ==
    ASSUME TypeOK, FlagWritten
    PROVE  /\ flagWrites \in Seq(Customs \cup Resets) /\ Len(flagWrites) \in Nat \ {0}
           /\ flagWrites[1] \in Customs \cup Resets
           /\ flagWrites' \in Seq(Customs \cup Resets) /\ Len(flagWrites') = Len(flagWrites) - 1
           /\ \A i \in 1..Len(flagWrites') : flagWrites'[i] = flagWrites[i + 1]
<1>1. /\ flagWrites \in Seq(Customs \cup Resets) /\ Len(flagWrites) \in Nat \ {0}
      /\ flagWrites[1] \in Customs \cup Resets
  BY EmptySeq, ElementOfSeq DEF FlagWritten, TypeOK
<1>2. flagWrites' = SubSeq(flagWrites, 1, 0) \o SubSeq(flagWrites, 2, Len(flagWrites))
  BY <1>1 DEF FlagWritten, RemoveAt, NextFlag
<1>3. SubSeq(flagWrites, 1, 0) = <<>>
  BY SubSeqEmpty
<1>4. SubSeq(flagWrites, 2, Len(flagWrites)) = Tail(flagWrites)
  BY <1>1, TailIsSubSeq, EmptySeq DEF FlagWritten
<1>5. Tail(flagWrites) \in Seq(Customs \cup Resets)
  BY <1>1, HeadTailProperties DEF FlagWritten
<1>6. flagWrites' = Tail(flagWrites)
  BY <1>2, <1>3, <1>4, <1>5, ConcatEmptySeq
<1> QED
  BY <1>1, <1>6, HeadTailProperties DEF FlagWritten

LEMMA FlagWrittenType == ASSUME TypeInv, FlagWritten PROVE TypeInv'
<1> USE ConfigAssumption, InstanceAssumption DEF TypeInv
<1> DEFINE call == flagWrites[1]
<1>1. /\ flagWrites \in Seq(Customs \cup Resets) /\ Len(flagWrites) \in Nat \ {0}
      /\ call \in Customs \cup Resets
  BY EmptySeq, ElementOfSeq DEF FlagWritten, TypeOK
<1>2. /\ flagWrites' \in Seq(Customs \cup Resets) /\ Len(flagWrites') = Len(flagWrites) - 1
      /\ \A i \in 1..Len(flagWrites') : flagWrites'[i] = flagWrites[i + 1]
  BY FlagsLeft
<1>3. /\ store' = [store EXCEPT !.identified = (call \in Customs)]
      /\ reset' = [n \in Resets |-> IF n = call THEN "done" ELSE reset[n]]
      /\ req' = IF call \in Customs THEN Calling(call) ELSE req
      /\ UNCHANGED <<life, queue, timer, chain, batch, settling, fate, tracked, userId, anonId,
                     identified, merges, loggedOut>>
  BY DEF FlagWritten, NextFlag
<1> HIDE DEF call
<1>4. store' \in Stores /\ store'.anon = store.anon /\ store'.user = store.user
  <2> DEFINE flag == call \in Customs
  <2>1. flag \in BOOLEAN /\ store' = [store EXCEPT !.identified = flag]
    BY <1>3
  <2> HIDE DEF flag
  <2> QED
    BY <2>1 DEF TypeOK, Stores
<1>5. /\ req' \in [Requesters -> Requests] /\ RetriesLeft' /\ req'[Drain] = req[Drain]
  BY <1>1, <1>3, CallingType DEF TypeOK, RetriesLeft, Requesters, Drain
<1>6. TypeOK'
  BY <1>2, <1>3, <1>4, <1>5 DEF TypeOK, life
<1>7. OneReset'
  <2> SUFFICES ASSUME NEW n \in Resets
               PROVE  /\ \A i \in 1..Len(chain') : chain'[i] = ResetOf(n) =>
                            /\ reset'[n] = "flush"
                            /\ \A j \in 1..Len(chain') : chain'[j] = ResetOf(n) => i = j
                      /\ \A i \in 1..Len(flagWrites') : flagWrites'[i] = n =>
                            /\ reset'[n] = "flag"
                            /\ \A j \in 1..Len(flagWrites') : flagWrites'[j] = n => i = j
    BY DEF OneReset
  <2>1. CASE n = call
    <3>1. reset[n] = "flag" /\ \A j \in 1..Len(flagWrites) : flagWrites[j] = n => j = 1
      BY <2>1, <1>1 DEF OneReset, call
    <3>2. \A i \in 1..Len(flagWrites') : flagWrites'[i] # n
      BY <3>1, <1>1, <1>2
    <3>3. \A i \in 1..Len(chain') : chain'[i] # ResetOf(n)
      BY <3>1, <1>3 DEF OneReset
    <3> QED
      BY <3>2, <3>3
  <2>2. CASE n # call
    <3>1. reset'[n] = reset[n] /\ chain' = chain
      BY <2>2, <1>3
    <3>2. ASSUME NEW i \in 1..Len(flagWrites'), flagWrites'[i] = n,
                 NEW j \in 1..Len(flagWrites'), flagWrites'[j] = n
          PROVE  reset[n] = "flag" /\ i = j
      <4>1. /\ i + 1 \in 1..Len(flagWrites) /\ flagWrites[i + 1] = n
            /\ j + 1 \in 1..Len(flagWrites) /\ flagWrites[j + 1] = n
        BY <3>2, <1>1, <1>2
      <4>2. reset[n] = "flag" /\ i + 1 = j + 1
        BY <4>1 DEF OneReset
      <4> QED
        BY <4>2, <1>1, <1>2
    <3> QED
      BY <3>1, <3>2 DEF OneReset
  <2> QED
    BY <2>1, <2>2
<1>8. boot # "off" /\ boot' = boot
  BY <1>3 DEF FlagWritten, Quiet, life
<1> QED
  BY <1>3, <1>4, <1>5, <1>6, <1>7, <1>8 DEF FirstStart, Quiet, DrainHead

LEMMA ResetType == ASSUME TypeInv, NEW n \in Resets, Reset(n) PROVE TypeInv'
<1> USE ConfigAssumption, InstanceAssumption DEF TypeInv
<1>1. FlushBy(ResetOf(n)) /\ ResetOf(n) \in Owners /\ chain \in Seq(Owners) /\ Len(chain) \in Nat
  BY LenProperties DEF Reset, Owners, TypeOK
<1>2. /\ timer' \in BOOLEAN /\ chain' \in Seq(Owners)
      /\ Len(chain') = Len(chain) + 1
      /\ \A i \in 1..Len(chain) : chain'[i] = chain[i]
      /\ chain'[Len(chain) + 1] = ResetOf(n)
  BY <1>1, FlushByType
<1>3. /\ reset' = [reset EXCEPT ![n] = "flush"] /\ reset[n] = "new"
      /\ reset' \in [Resets -> {"new", "flush", "anonymous", "user", "flag", "done"}]
      /\ reset'[n] = "flush" /\ \A m \in Resets \ {n} : reset'[m] = reset[m]
      /\ flagWrites' = flagWrites
  BY DEF Reset, TypeOK
<1>4. TypeOK'
  BY <1>2, <1>3 DEF Reset, TypeOK, life
<1>5. OneReset'
  <2>1. /\ \A i \in 1..Len(chain) : chain[i] # ResetOf(n)
        /\ \A i \in 1..Len(flagWrites) : flagWrites[i] # n
    BY <1>3 DEF OneReset
  <2>2. \A i \in 1..Len(chain') : chain'[i] = ResetOf(n) => i = Len(chain) + 1
    BY <1>1, <1>2, <2>1
  <2>3. ASSUME NEW m \in Resets \ {n}, NEW i \in 1..Len(chain'), chain'[i] = ResetOf(m)
        PROVE  i \in 1..Len(chain) /\ chain[i] = ResetOf(m)
    BY <1>1, <1>2, <2>3, OwnersApart
  <2> QED
    BY <1>3, <2>1, <2>2, <2>3 DEF OneReset
<1>6. DrainHead' /\ Quiet'
  BY <1>1, <1>2, EmptySeq DEF Reset, DrainHead, Quiet, life
<1> QED
  BY <1>4, <1>5, <1>6 DEF Reset, FirstStart, RetriesLeft, life

LEMMA ForgetType ==
    ASSUME TypeInv, NEW n \in Resets, ForgetAnonymous(n) \/ ForgetUser(n)
    PROVE  TypeInv'
<1> USE ConfigAssumption, InstanceAssumption DEF TypeInv
<1>0. n + 1 \in Anons /\ n + 1 # None /\ n \in Customs \cup Resets
  BY DEF Anons, Resets, None
<1>1. CASE ForgetAnonymous(n)
  <2>1. store' \in Stores /\ store'.anon = n + 1
    BY <1>0, <1>1 DEF ForgetAnonymous, TypeOK, Stores
  <2>2. /\ reset' \in [Resets -> {"new", "flush", "anonymous", "user", "flag", "done"}]
        /\ reset[n] = "anonymous" /\ \A m \in Resets \ {n} : reset'[m] = reset[m]
        /\ UNCHANGED <<chain, flagWrites>>
    BY <1>1 DEF ForgetAnonymous, FirstAt, TypeOK, pipeline
  <2>3. TypeOK'
    BY <1>0, <1>1, <2>1, <2>2 DEF ForgetAnonymous, TypeOK, life, pipeline
  <2>4. FirstStart'
    BY <1>0, <1>1, <2>1 DEF ForgetAnonymous, FirstStart
  <2>5. OneReset'
    BY <2>2 DEF OneReset
  <2>6. boot # "off" /\ boot' = boot
    BY <1>1, <2>2 DEF ForgetAnonymous, Quiet, ResetsSettled, life
  <2> QED
    BY <1>1, <2>3, <2>4, <2>5, <2>6
       DEF ForgetAnonymous, Quiet, DrainHead, RetriesLeft, life, pipeline
<1>2. CASE ForgetUser(n)
  <2>1. /\ SetUser(anonId, FALSE, n) /\ anonId \in Ids /\ FALSE \in BOOLEAN
        /\ Len(flagWrites) \in Nat
    BY <1>2, LenProperties DEF ForgetUser, TypeOK, Ids
  <2>2. /\ userId' \in Ids /\ identified' \in BOOLEAN
        /\ store' \in Stores /\ store'.anon = store.anon /\ store'.user = anonId
        /\ flagWrites' \in Seq(Customs \cup Resets)
        /\ Len(flagWrites') = Len(flagWrites) + 1
        /\ \A i \in 1..Len(flagWrites) : flagWrites'[i] = flagWrites[i]
        /\ flagWrites'[Len(flagWrites) + 1] = n
    BY <1>0, <2>1, SetUserType
  <2>3. /\ reset' \in [Resets -> {"new", "flush", "anonymous", "user", "flag", "done"}]
        /\ reset[n] = "user" /\ reset'[n] = "flag"
        /\ \A m \in Resets \ {n} : reset'[m] = reset[m]
        /\ chain' = chain
    BY <1>2 DEF ForgetUser, FirstAt, TypeOK, pipeline
  <2>4. TypeOK'
    BY <1>2, <2>2, <2>3 DEF ForgetUser, TypeOK, life, pipeline
  <2>5. OneReset'
    <3>1. /\ \A i \in 1..Len(chain) : chain[i] # ResetOf(n)
          /\ \A i \in 1..Len(flagWrites) : flagWrites[i] # n
      BY <2>3 DEF OneReset
    <3>2. \A i \in 1..Len(flagWrites') : flagWrites'[i] = n => i = Len(flagWrites) + 1
      BY <2>1, <2>2, <3>1
    <3>3. \A m \in Resets \ {n} : \A i \in 1..Len(flagWrites') :
             flagWrites'[i] = m => i \in 1..Len(flagWrites) /\ flagWrites[i] = m
      BY <2>1, <2>2
    <3> QED
      BY <2>3, <3>1, <3>2, <3>3 DEF OneReset
  <2>6. boot # "off" /\ boot' = boot
    BY <1>2, <2>3 DEF ForgetUser, Quiet, ResetsSettled, life
  <2> QED
    BY <1>2, <2>2, <2>4, <2>5, <2>6
       DEF ForgetUser, FirstStart, Quiet, DrainHead, RetriesLeft, life, pipeline
<1> QED
  BY <1>1, <1>2

LEMMA CrashType == ASSUME TypeInv, Crash PROVE TypeInv'
<1> USE ConfigAssumption, InstanceAssumption DEF TypeInv
<1>1. /\ queue' \in Seq(Events) /\ batch' \in Seq(Events) /\ chain' \in Seq(Owners)
      /\ flagWrites' \in Seq(Customs \cup Resets)
  BY EmptySeq DEF Crash
<1>2. req' \in [Requesters -> Requests] /\ RetriesLeft' /\ DrainHead'
  BY IdleType DEF Crash, RetriesLeft, DrainHead, IdleRequest, Requesters
<1>3. fate' \in [Events -> Fates]
  BY BecomeType DEF Crash, TypeOK, Fates
<1>4. crashes' \in 0..MaxCrashes /\ userId' \in Ids
  BY DEF Crash, TypeOK, Ids
<1>5. TypeOK'
  BY <1>1, <1>2, <1>3, <1>4 DEF Crash, TypeOK
<1>6. OneReset'
  BY EmptySeq DEF Crash, OneReset
<1>7. ResetsSettled'
  BY DEF Crash, ResetsSettled
<1> QED
  BY <1>2, <1>5, <1>6, <1>7 DEF Crash, FirstStart, Quiet

LEMMA TypeNext == ASSUME TypeInv, [Next]_vars PROVE TypeInv'
<1>1. CASE Load
  BY <1>1, LoadType
<1>2. CASE AdoptAnonymous \/ AdoptFlag \/ LoadQueue
  BY <1>2, BootType
<1>3. CASE Track
  BY <1>3, TrackType
<1>4. CASE TrackSingle
  BY <1>4, TrackSingleType
<1>5. CASE TrackSettled
  BY <1>5, TrackSettledType
<1>6. CASE TimerFires \/ Flush \/ Shutdown
  <2>1. boot # "off"
    BY <1>6 DEF TimerFires, Flush, Shutdown, TypeInv, Quiet
  <2> QED
    BY <1>6, <2>1, OnlyFlushByType DEF TimerFires, Flush, Shutdown
<1>7. CASE DrainDone
  BY <1>7, DrainDoneType
<1>8. CASE DrainTakes
  BY <1>8, DrainTakesType
<1>9. CASE DrainFailed
  BY <1>9, DrainFailedType
<1>10. ASSUME NEW r \in Requesters, Step(r) PROVE TypeInv'
  BY <1>10, SendingType, AcceptType, FailType DEF Step
<1>11. ASSUME NEW c \in Customs, Identify(c) PROVE TypeInv'
  BY <1>11, IdentifyType
<1>12. CASE FlagWritten
  BY <1>12, FlagWrittenType
<1>13. ASSUME NEW n \in Resets, Reset(n) PROVE TypeInv'
  BY <1>13, ResetType
<1>14. ASSUME NEW n \in Resets, ForgetAnonymous(n) \/ ForgetUser(n) PROVE TypeInv'
  BY <1>14, ForgetType
<1>15. CASE Crash
  BY <1>15, CrashType
<1>16. CASE UNCHANGED vars
  <2>1. TypeOK' /\ FirstStart'
    BY <1>16 DEF vars, TypeInv, TypeOK, FirstStart
  <2>2. Quiet' /\ DrainHead' /\ OneReset' /\ RetriesLeft'
    BY <1>16 DEF vars, TypeInv, Quiet, ResetsSettled, DrainHead, OneReset, RetriesLeft
  <2> QED
    BY <2>1, <2>2 DEF TypeInv
<1> QED
  BY <1>1, <1>2, <1>3, <1>4, <1>5, <1>6, <1>7, <1>8, <1>9, <1>10, <1>11, <1>12, <1>13, <1>14,
     <1>15, <1>16 DEF Next

LEMMA TypeInvariant == Spec => []TypeInv
  BY TypeInit, TypeNext, PTL DEF Spec

(* Every variable of the integration keeps its type, for every              *)
(* configuration, number of users and events, and bound: in particular no   *)
(* request is tried more than maxRetries + 1 times.                         *)
THEOREM TypeCorrect == Spec => []TypeOK
<1>1. TypeInv => TypeOK
  BY DEF TypeInv
<1> QED
  BY <1>1, TypeInvariant, PTL
=============================================================================
