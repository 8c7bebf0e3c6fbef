----------------------- MODULE PyApiIntegration_proofs -----------------------
(***************************************************************************)
(* The threads of the Python integration: types, the exclusion of flushes  *)
(* by the send lock, the order of the events they hold together, the       *)
(* account of what became of each event, that somebody always minds the    *)
(* queue, and the refinement of the abstract delivery.                     *)
(***************************************************************************)
EXTENDS PyApiIntegration, SequenceTheorems, WellFoundedInduction, TLAPS

Goals == {"none", "track", "identify", "reset", "flush", "shutdown", "timer"}

LEMMA SmallestNat == ASSUME NEW S, S \subseteq Nat, S # {} PROVE Min(S) \in S
<1> DEFINE R == {ss \in Nat \X Nat : ss[1] < ss[2]}
<1>1. IsWellFoundedOn(R, Nat)
  BY NatLessThanWellFounded DEF OpToRel
<1> HIDE DEF R
<1>2. PICK x \in S : \A y \in S : ~(<<y, x>> \in R)
  BY <1>1, WFMin
<1>3. ASSUME NEW y \in S PROVE x <= y
  <2>1. x \in Nat /\ y \in Nat
    OBVIOUS
  <2>2. ~(y < x)
    BY <1>2, <2>1 DEF R
  <2> QED
    BY <2>1, <2>2
<1> QED
  BY <1>2, <1>3 DEF Min

LEMMA Kinds ==
    /\ None \notin Actors /\ Threads \subseteq Actors /\ Timers \subseteq Actors
    /\ Threads \cap Timers = {} /\ Timers \subseteq Nat /\ None \notin Timers
    /\ Customs \subseteq Ids /\ None \in Ids
  BY PyInstanceAssumption DEF Actors, Timers, None, Ids

-----------------------------------------------------------------------------
(* What a flush and a trim take off a queue *)

LEMMA FirstNProps ==
    ASSUME NEW s \in Seq(Events), NEW n \in Nat
    PROVE  /\ FirstN(s, n) \in Seq(Events)
           /\ Len(FirstN(s, n)) = Smaller(n, Len(s))
           /\ \A i \in 1..Len(FirstN(s, n)) : FirstN(s, n)[i] = s[i]
  BY SubSeqProperties, LenProperties DEF FirstN, Smaller

LEMMA AfterNProps ==
    ASSUME NEW s \in Seq(Events), NEW n \in Nat
    PROVE  /\ AfterN(s, n) \in Seq(Events)
           /\ Len(AfterN(s, n)) = Len(s) - Smaller(n, Len(s))
           /\ \A i \in 1..Len(AfterN(s, n)) : AfterN(s, n)[i] = s[i + Smaller(n, Len(s))]
<1> DEFINE k == Smaller(n, Len(s))
<1>1. k \in Nat /\ k <= Len(s) /\ Len(s) \in Nat
  BY LenProperties DEF Smaller
<1>2. \A i \in (k + 1)..Len(s) : s[i] \in Events
  BY <1>1, ElementOfSeq
<1> HIDE DEF k
<1>3. /\ SubSeq(s, k + 1, Len(s)) \in Seq(Events)
      /\ Len(SubSeq(s, k + 1, Len(s))) = IF k + 1 <= Len(s) THEN Len(s) - (k + 1) + 1 ELSE 0
      /\ \A i \in 1..(Len(s) - (k + 1) + 1) : SubSeq(s, k + 1, Len(s))[i] = s[k + 1 + i - 1]
  BY <1>1, <1>2, SubSeqProperties
<1>4. /\ Len(SubSeq(s, k + 1, Len(s))) = Len(s) - k
      /\ \A i \in 1..(Len(s) - k) : SubSeq(s, k + 1, Len(s))[i] = s[i + k]
  BY <1>1, <1>3
<1> QED
  BY <1>3, <1>4 DEF AfterN, k

LEMMA SplitProps ==
    ASSUME NEW s \in Seq(Events), NEW n \in Nat
    PROVE  FirstN(s, n) \o AfterN(s, n) = s
<1> DEFINE a == FirstN(s, n)
           b == AfterN(s, n)
           k == Smaller(n, Len(s))
<1>1. /\ Len(s) \in Nat /\ k \in Nat /\ k <= Len(s)
      /\ a \in Seq(Events) /\ Len(a) = k /\ \A i \in 1..Len(a) : a[i] = s[i]
      /\ b \in Seq(Events) /\ Len(b) = Len(s) - k /\ \A i \in 1..Len(b) : b[i] = s[i + k]
  BY LenProperties, FirstNProps, AfterNProps DEF Smaller
<1> HIDE DEF a, b, k
<1>2. /\ a \o b \in Seq(Events)
      /\ Len(a \o b) = Len(a) + Len(b)
      /\ \A i \in 1..(Len(a) + Len(b)) : (a \o b)[i] = IF i <= Len(a) THEN a[i] ELSE b[i - Len(a)]
  BY <1>1, ConcatProperties
<1>3. Len(a \o b) = Len(s)
  BY <1>1, <1>2
<1>4. \A i \in 1..Len(a \o b) : (a \o b)[i] = s[i]
  <2> TAKE i \in 1..Len(a \o b)
  <2>1. CASE i <= k
    BY <2>1, <1>1, <1>2
  <2>2. CASE i > k
    <3>1. i - k \in 1..Len(b) /\ (a \o b)[i] = b[i - k]
      BY <2>2, <1>1, <1>2
    <3> QED
      BY <3>1, <1>1, <1>2
  <2> QED
    BY <2>1, <2>2, <1>1, <1>2
<1>5. a \o b = s
  BY <1>1, <1>2, <1>3, <1>4, SeqEqual
<1> QED
  BY <1>5 DEF a, b

LEMMA NewestProps ==
    ASSUME NEW s \in Seq(Events)
    PROVE  /\ Newest(s) \in Seq(Events)
           /\ Len(Newest(s)) = Smaller(MaxQueueSize, Len(s))
           /\ \A i \in 1..Len(Newest(s)) :
                 Newest(s)[i] = s[i + (Len(s) - Smaller(MaxQueueSize, Len(s)))]
<1> DEFINE n == Len(s) - Smaller(MaxQueueSize, Len(s))
<1>1. Len(s) \in Nat /\ n \in Nat /\ n <= Len(s)
  BY LenProperties, PyConfigAssumption DEF Smaller
<1>2. Smaller(n, Len(s)) = n
  BY <1>1 DEF Smaller
<1> HIDE DEF n
<1>3. /\ AfterN(s, n) \in Seq(Events)
      /\ Len(AfterN(s, n)) = Len(s) - n
      /\ \A i \in 1..Len(AfterN(s, n)) : AfterN(s, n)[i] = s[i + n]
  BY <1>1, <1>2, AfterNProps
<1>4. Len(s) - n = Smaller(MaxQueueSize, Len(s))
  BY <1>1, PyConfigAssumption DEF n, Smaller
<1> QED
  BY <1>3, <1>4 DEF Newest, n

-----------------------------------------------------------------------------
(* What the helpers do to the threads *)

ActsType == act \in [Actors -> Locals]

LEMMA NoCallType ==
    /\ NoCall \in Locals /\ NoCall.pc = "idle" /\ NoCall.batch = <<>>
  BY PyConfigAssumption, EmptySeq, Kinds DEF NoCall, Locals, Places

LEMMA MovedType ==
    ASSUME ActsType, NEW a \in Actors, NEW where \in Places
    PROVE  /\ Moved(a, where) \in [Actors -> Locals]
           /\ Moved(a, where)[a].pc = where /\ Moved(a, where)[a].batch = act[a].batch
           /\ \A b \in Actors \ {a} : Moved(a, where)[b] = act[b]
<1>1. act[a] \in Locals
  BY DEF ActsType
<1>2. /\ [act[a] EXCEPT !.pc = where] \in Locals
      /\ [act[a] EXCEPT !.pc = where].pc = where
      /\ [act[a] EXCEPT !.pc = where].batch = act[a].batch
  BY <1>1 DEF Locals
<1> QED
  BY <1>2 DEF Moved, ActsType

LEMMA InType ==
    ASSUME ActsType, NEW a \in Actors, NEW goal \in Goals, NEW where \in Places
    PROVE  /\ In(a, goal, where) \in [Actors -> Locals]
           /\ In(a, goal, where)[a].pc = where /\ In(a, goal, where)[a].batch = <<>>
           /\ \A b \in Actors \ {a} : In(a, goal, where)[b] = act[b]
<1>1. /\ [NoCall EXCEPT !.pc = where, !.goal = goal] \in Locals
      /\ [NoCall EXCEPT !.pc = where, !.goal = goal].pc = where
      /\ [NoCall EXCEPT !.pc = where, !.goal = goal].batch = <<>>
  BY NoCallType DEF NoCall, Locals, Goals
<1> QED
  BY <1>1 DEF In, ActsType

(* A new state of one thread. *)
LEMMA OneType ==
    ASSUME ActsType, NEW a \in Actors, NEW l \in Locals
    PROVE  /\ [act EXCEPT ![a] = l] \in [Actors -> Locals]
           /\ [act EXCEPT ![a] = l][a] = l
           /\ \A b \in Actors \ {a} : [act EXCEPT ![a] = l][b] = act[b]
  BY DEF ActsType

LEMMA CancelledType ==
    ASSUME NEW acts \in [Actors -> Locals], timer \in Timers \cup {None}
    PROVE  /\ Cancelled(acts) \in [Actors -> Locals]
           /\ \A b \in Actors : \/ Cancelled(acts)[b] = acts[b]
                                \/ acts[b].pc = "armed" /\ Cancelled(acts)[b] = NoCall
  BY NoCallType, Kinds DEF Cancelled

(* A timer that is set is one that was idle. *)
LEMMA ScheduleType ==
    ASSUME NEW acts \in [Actors -> Locals], NEW s, timer \in Timers \cup {None},
           Schedule(s, acts)
    PROVE  /\ act' \in [Actors -> Locals] /\ timer' \in Timers \cup {None}
           /\ \A b \in Actors : \/ act'[b] = acts[b]
                                \/ /\ acts[b].pc = "idle" /\ act'[b].pc = "armed"
                                   /\ act'[b].batch = acts[b].batch
<1>1. CASE ~NeedsTimer(s)
  BY <1>1 DEF Schedule
<1>2. CASE NeedsTimer(s)
  <2> DEFINE i == Min(FreeTimers(acts))
  <2>1. i \in FreeTimers(acts)
    <3>1. FreeTimers(acts) \subseteq Nat /\ FreeTimers(acts) # {}
      BY <1>2, Kinds DEF Schedule, FreeTimers
    <3> QED
      BY <3>1, SmallestNat
  <2>2. i \in Timers /\ i \in Actors /\ acts[i].pc = "idle" /\ acts[i] \in Locals
    BY <2>1, Kinds DEF FreeTimers
  <2>3. timer' = i /\ act' = [acts EXCEPT ![i].pc = "armed"]
    BY <1>2 DEF Schedule
  <2> HIDE DEF i
  <2>4. /\ [acts[i] EXCEPT !.pc = "armed"] \in Locals
        /\ [acts[i] EXCEPT !.pc = "armed"].pc = "armed"
        /\ [acts[i] EXCEPT !.pc = "armed"].batch = acts[i].batch
    BY <2>2 DEF Locals, Places
  <2>5. act' = [acts EXCEPT ![i] = [acts[i] EXCEPT !.pc = "armed"]]
    BY <2>2, <2>3
  <2> QED
    BY <2>2, <2>3, <2>4, <2>5
<1> QED
  BY <1>1, <1>2

-----------------------------------------------------------------------------
(* The exclusion of flushes *)

Empty == {"cancel", "lock", "take", "failed"}
EmptyHands == \A a \in Actors : act[a].pc \in Empty => act[a].batch = <<>>

(* Thread b does something outside the send lock. *)
Elsewhere(b) ==
    \/ act'[b] = act[b]
    \/ /\ sendLock # b /\ act'[b].pc \notin DrainPlaces
       /\ act'[b].pc \in Empty => act'[b].batch = <<>>

Outside == sendLock' = sendLock /\ \A b \in Actors : Elsewhere(b)

(* A thread at a place where the send lock is not held. *)
LEMMA NotHolder ==
    ASSUME OneDrain, NEW a \in Actors, act[a].pc \notin DrainPlaces, act[a].pc # "sent"
    PROVE  sendLock # a
  BY Kinds DEF OneDrain

LEMMA OutsideKeeps ==
    ASSUME OneDrain, EmptyHands, Outside, sendLock \in Actors \cup {None}
    PROVE  /\ OneDrain' /\ EmptyHands'
           /\ sendLock # None => act'[sendLock] = act[sendLock]
  BY DEF OneDrain, EmptyHands, Outside, Elsewhere

-----------------------------------------------------------------------------
(* Types *)

Stores == [user : Ids, identified : BOOLEAN, queue : Seq(Events)]

LEMMA PersistedType ==
    ASSUME store \in Stores, NEW s \in Seq(Events)
    PROVE  Persisted(s) \in Stores
  BY DEF Persisted, Stores

LEMMA BecomeType ==
    ASSUME fate \in [Events -> Fates], NEW S, NEW how \in Fates
    PROVE  Become(S, how) \in [Events -> Fates]
  BY DEF Become

LEMMA TypeInit == Init => TypeOK
<1> SUFFICES ASSUME Init PROVE TypeOK
  OBVIOUS
<1> USE PyConfigAssumption, PyInstanceAssumption
<1>1. Leftover \in Nat /\ 1..Leftover \subseteq Events /\ Leftover \in 0..MaxEvents
  BY DEF Smaller, Events
<1>2. [e \in 1..Leftover |-> e] \in Seq(Events)
  <2>1. [e \in 1..Leftover |-> e] \in [1..Leftover -> Events]
    BY <1>1
  <2> QED
    BY <1>1, <2>1, IsASeq
<1>3. store \in Stores
  BY <1>2, Kinds DEF Init, EmptyStore, Stores
<1>4. act \in [Actors -> Locals]
  BY NoCallType DEF Init
<1>5. fate \in [Events -> Fates]
  BY DEF Init, Fates
<1>6. queue \in Seq(Events) /\ userId \in Ids
  BY EmptySeq, Kinds DEF Init
<1>7. /\ boot = "off" /\ timer = None /\ sendLock = None /\ identified = FALSE
      /\ anons = 0 /\ tracked = Leftover /\ crashes = 0
  BY DEF Init
<1>8. anons \in 0..MaxAnons /\ tracked \in 0..MaxEvents /\ crashes \in 0..MaxCrashes
  BY <1>1, <1>7
<1> QED
  BY <1>3, <1>4, <1>5, <1>6, <1>7, <1>8 DEF TypeOK, Stores

LEMMA LoadSteps == ASSUME TypeOK, OneDrain, Load PROVE TypeOK' /\ Outside
<1>1. /\ queue \in Seq(Events) /\ store \in Stores /\ act \in [Actors -> Locals]
      /\ timer \in Timers \cup {None} /\ anons \in 0..MaxAnons
  BY DEF TypeOK, Stores
<1> DEFINE fresh == store.user = None
           user  == IF fresh THEN anons + 1 ELSE store.user
<1>2. /\ user \in Customs \cup Anons /\ userId' = user
      /\ identified' = (~fresh /\ store.identified)
      /\ anons' = IF fresh THEN user ELSE anons
      /\ store' = [store EXCEPT !.user = user, !.identified = identified']
      /\ boot' = "on" /\ UNCHANGED <<sendLock, tracked, crashes, fate>>
  BY DEF Load
<1>3. fresh => user \in Anons
  BY <1>1, <1>2, PyInstanceAssumption
<1> HIDE DEF fresh, user
<1>4. /\ userId' \in Ids /\ identified' \in BOOLEAN /\ anons' \in 0..MaxAnons
      /\ store' \in Stores
  <2>1. user \in Ids /\ userId' \in Ids
    BY <1>2 DEF Ids
  <2>2. identified' \in BOOLEAN
    BY <1>1, <1>2 DEF Stores
  <2>3. anons' \in 0..MaxAnons
    BY <1>1, <1>2, <1>3, PyInstanceAssumption DEF Anons
  <2> QED
    BY <1>1, <1>2, <2>1, <2>2, <2>3 DEF Stores
<1>5. queue' \in Seq(Events)
  BY <1>1, ConcatProperties, NewestProps DEF Load, Stores
<1>6. /\ act' \in [Actors -> Locals] /\ timer' \in Timers \cup {None}
      /\ \A b \in Actors : act'[b] = act[b] \/ (act[b].pc = "idle" /\ act'[b].pc = "armed")
  <2>1. CASE PersistQueue /\ store.queue # <<>>
    BY <1>1, <2>1, ScheduleType DEF Load
  <2>2. CASE ~(PersistQueue /\ store.queue # <<>>)
    BY <1>1, <2>2 DEF Load
  <2> QED
    BY <2>1, <2>2
<1>7. TypeOK'
  BY <1>2, <1>4, <1>5, <1>6 DEF TypeOK, Stores
<1>8. Outside
  BY <1>2, <1>6, NotHolder DEF Outside, Elsewhere, DrainPlaces, Empty
<1> QED
  BY <1>7, <1>8

-----------------------------------------------------------------------------
(* The steps outside the send lock *)

LEMMA AloneOutside ==
    ASSUME OneDrain, NEW a \in Actors, sendLock # a, sendLock' = sendLock,
           act'[a].pc \notin DrainPlaces, act'[a].pc \in Empty => act'[a].batch = <<>>,
           \A b \in Actors \ {a} : act'[b] = act[b]
    PROVE  Outside
  BY DEF Outside, Elsewhere

LEMMA TrackSteps ==
    ASSUME TypeOK, OneDrain, NEW t \in Threads, Track(t)
    PROVE  TypeOK' /\ Outside
<1> DEFINE e == tracked + 1
           where == IF Len(queue') >= BatchSize THEN "cancel" ELSE "schedule"
<1>1. /\ queue \in Seq(Events) /\ store \in Stores /\ ActsType
      /\ fate \in [Events -> Fates] /\ tracked \in 0..MaxEvents /\ t \in Actors
  BY Kinds DEF TypeOK, Stores, ActsType
<1>2. /\ e \in Events /\ e \in 0..MaxEvents
      /\ queue' = Newest(Append(queue, e)) /\ tracked' = e /\ store' = Persisted(queue')
      /\ fate' = [Become(ToSet(queue) \ ToSet(queue'), "trimmed") EXCEPT ![e] = "pending"]
      /\ act' = In(t, "track", where) /\ act[t].pc = "idle"
      /\ UNCHANGED <<boot, timer, sendLock, identity, crashes>>
  BY <1>1, PyInstanceAssumption DEF Track, Starts, At, Events
<1>3. where \in {"cancel", "schedule"}
  OBVIOUS
<1> HIDE DEF e, where
<1>4. queue' \in Seq(Events)
  BY <1>1, <1>2, AppendProperties, NewestProps
<1>5. store' \in Stores
  BY <1>1, <1>2, <1>4, PersistedType
<1>6. fate' \in [Events -> Fates]
  <2>1. "trimmed" \in Fates /\ "pending" \in Fates
    BY DEF Fates
  <2>2. Become(ToSet(queue) \ ToSet(queue'), "trimmed") \in [Events -> Fates]
    BY <1>1, <2>1, BecomeType
  <2> QED
    BY <1>2, <2>1, <2>2
<1>7. /\ act' \in [Actors -> Locals] /\ act'[t].pc = where /\ act'[t].batch = <<>>
      /\ \A b \in Actors \ {t} : act'[b] = act[b]
  <2>1. where \in Places /\ "track" \in Goals
    BY <1>3 DEF Places, Goals
  <2> QED
    BY <1>1, <1>2, <2>1, InType
<1>8. sendLock # t
  BY <1>1, <1>2, NotHolder DEF DrainPlaces
<1>9. Outside
  BY <1>1, <1>2, <1>3, <1>7, <1>8, AloneOutside DEF DrainPlaces
<1>10. TypeOK'
  BY <1>2, <1>4, <1>5, <1>6, <1>7 DEF TypeOK, Stores, identity
<1> QED
  BY <1>9, <1>10

(* A thread goes on alone, and only its own place and locals change. *)
LEMMA AloneSteps ==
    ASSUME TypeOK, OneDrain, NEW a \in Actors, sendLock # a, act' \in [Actors -> Locals],
           act'[a].pc \notin DrainPlaces, act'[a].pc \in Empty => act'[a].batch = <<>>,
           \A b \in Actors \ {a} : act'[b] = act[b],
           timer' \in Timers \cup {None},
           UNCHANGED <<boot, sendLock, identity, store, crashes, events>>
    PROVE  TypeOK' /\ Outside
<1>1. Outside
  BY AloneOutside
<1>2. TypeOK'
  BY DEF TypeOK, identity, events
<1> QED
  BY <1>1, <1>2

LEMMA TrackSingleSteps ==
    ASSUME TypeOK, OneDrain, NEW t \in Threads, TrackSingle(t)
    PROVE  TypeOK' /\ Outside
<1> DEFINE e == tracked + 1
           l == [NoCall EXCEPT !.pc = "sent", !.goal = "track", !.batch = <<e>>]
<1>1. /\ ActsType /\ fate \in [Events -> Fates] /\ tracked \in 0..MaxEvents /\ t \in Actors
  BY Kinds DEF TypeOK, ActsType
<1>2. /\ e \in Events /\ e \in 0..MaxEvents /\ tracked' = e
      /\ fate' = [fate EXCEPT ![e] = "pending"] /\ act[t].pc = "idle"
      /\ UNCHANGED <<boot, queue, timer, sendLock, identity, store, crashes>>
  BY <1>1, PyInstanceAssumption DEF TrackSingle, Starts, At, Events
<1>3. act' = [act EXCEPT ![t] = l]
  <2>1. t \in DOMAIN act
    BY <1>1 DEF ActsType
  <2>2. act' = [In(t, "track", "sent") EXCEPT ![t].batch = <<e>>]
    BY DEF TrackSingle
  <2> QED
    BY <2>1, <2>2 DEF In, NoCall
<1>4. l \in Locals /\ l.pc = "sent"
  <2>1. <<e>> \in Seq(Events)
    BY <1>2
  <2>2. "sent" \in Places
    BY DEF Places
  <2> QED
    BY <2>1, <2>2, NoCallType DEF NoCall, Locals
<1> HIDE DEF e, l
<1>5. /\ act' \in [Actors -> Locals] /\ act'[t].pc = "sent"
      /\ \A b \in Actors \ {t} : act'[b] = act[b]
  BY <1>1, <1>3, <1>4, OneType
<1>6. fate' \in [Events -> Fates]
  BY <1>1, <1>2 DEF Fates
<1>7. Outside
  BY <1>1, <1>2, <1>5, NotHolder, AloneOutside DEF DrainPlaces, Empty
<1>8. TypeOK'
  BY <1>2, <1>5, <1>6 DEF TypeOK, identity
<1> QED
  BY <1>7, <1>8

LEMMA SchedulesSteps ==
    ASSUME TypeOK, OneDrain, NEW t \in Threads, TrackSchedules(t)
    PROVE  TypeOK' /\ Outside
<1> DEFINE acts == [act EXCEPT ![t] = NoCall]
<1>1. ActsType /\ t \in Actors /\ timer \in Timers \cup {None} /\ act[t].pc = "schedule"
  BY Kinds DEF TypeOK, ActsType, TrackSchedules, At
<1>2. /\ acts \in [Actors -> Locals] /\ acts[t] = NoCall
      /\ \A b \in Actors \ {t} : acts[b] = act[b]
  BY <1>1, NoCallType, OneType
<1>3. /\ Schedule(queue, acts)
      /\ UNCHANGED <<boot, sendLock, identity, store, crashes, events>>
  BY DEF TrackSchedules
<1> HIDE DEF acts
<1>4. /\ act' \in [Actors -> Locals] /\ timer' \in Timers \cup {None}
      /\ \A b \in Actors : \/ act'[b] = acts[b]
                           \/ acts[b].pc = "idle" /\ act'[b].pc = "armed"
  BY <1>1, <1>2, <1>3, ScheduleType
<1>5. ASSUME NEW b \in Actors PROVE Elsewhere(b)
  <2>1. CASE b = t
    <3>1. sendLock # b
      BY <1>1, <2>1, NotHolder DEF DrainPlaces
    <3>2. act'[b].pc \in {"idle", "armed"}
      BY <1>2, <1>4, <2>1, NoCallType
    <3> QED
      BY <3>1, <3>2 DEF Elsewhere, DrainPlaces, Empty
  <2>2. CASE b # t /\ act'[b] # act[b]
    <3>1. act[b].pc = "idle" /\ act'[b].pc = "armed"
      BY <1>2, <1>4, <2>2
    <3> QED
      BY <3>1, NotHolder DEF Elsewhere, DrainPlaces, Empty
  <2> QED
    BY <2>1, <2>2 DEF Elsewhere
<1>6. Outside
  BY <1>3, <1>5 DEF Outside
<1>7. TypeOK'
  BY <1>3, <1>4 DEF TypeOK, identity, events
<1> QED
  BY <1>6, <1>7

(* identify, reset, flush and shutdown start. *)
LEMMA CallsSteps ==
    ASSUME TypeOK, OneDrain, NEW t \in Threads, act[t].pc = "idle",
           NEW goal \in Goals, NEW where \in {"remember", "cancel"}, NEW id \in Ids,
           Calls(t, goal, where, id)
    PROVE  TypeOK' /\ Outside
<1> DEFINE l == [NoCall EXCEPT !.pc = where, !.goal = goal, !.id = id]
<1>1. ActsType /\ t \in Actors
  BY Kinds DEF TypeOK, ActsType
<1>2. act' = [act EXCEPT ![t] = l]
  BY <1>1 DEF Calls, In, NoCall, ActsType
<1>3. l \in Locals /\ l.pc = where /\ l.batch = <<>>
  <2>1. where \in Places
    BY DEF Places
  <2> QED
    BY <2>1, NoCallType DEF NoCall, Locals, Goals
<1> HIDE DEF l
<1>4. /\ act' \in [Actors -> Locals] /\ act'[t].pc = where /\ act'[t].batch = <<>>
      /\ \A b \in Actors \ {t} : act'[b] = act[b]
  BY <1>1, <1>2, <1>3, OneType
<1>5. sendLock # t
  BY <1>1, NotHolder DEF DrainPlaces
<1>6. where \notin DrainPlaces
  BY DEF DrainPlaces
<1>7. UNCHANGED <<boot, timer, sendLock, identity, store, crashes, events>>
  BY DEF Calls
<1>8. timer' \in Timers \cup {None}
  BY <1>7 DEF TypeOK
<1> QED
  BY <1>1, <1>4, <1>5, <1>6, <1>7, <1>8, AloneSteps

LEMMA TimerSteps ==
    ASSUME TypeOK, OneDrain, NEW i \in Timers, TimerFires(i) \/ TimerRuns(i)
    PROVE  TypeOK' /\ Outside
<1>1. ActsType /\ i \in Actors
  BY Kinds DEF TypeOK, ActsType
<1>2. /\ act[i].pc \in {"armed", "fired"} /\ timer' \in Timers \cup {None}
      /\ UNCHANGED <<boot, sendLock, identity, store, crashes, events>>
  BY DEF TimerFires, TimerRuns, At, TypeOK
<1>3. sendLock # i
  BY <1>1, <1>2, NotHolder DEF DrainPlaces
<1>4. /\ act' \in [Actors -> Locals]
      /\ \/ act'[i].pc = "fired"
         \/ act'[i].pc = "cancel" /\ act'[i].batch = <<>>
      /\ \A b \in Actors \ {i} : act'[b] = act[b]
  <2>1. {"fired", "cancel"} \subseteq Places /\ "timer" \in Goals
    BY DEF Places, Goals
  <2> QED
    BY <1>1, <2>1, MovedType, InType DEF TimerFires, TimerRuns
<1>5. act'[i].pc \notin DrainPlaces /\ (act'[i].pc \in Empty => act'[i].batch = <<>>)
  BY <1>4 DEF DrainPlaces, Empty
<1> QED
  BY <1>1, <1>2, <1>3, <1>4, <1>5, AloneSteps

(* A thread goes on and cancels the timer, which then is idle. *)
LEMMA CancelSteps ==
    ASSUME TypeOK, OneDrain, EmptyHands, NEW a \in Actors, FlushCancels(a) \/ Stops(a)
    PROVE  TypeOK' /\ Outside
<1> DEFINE acts == IF FlushCancels(a) THEN Moved(a, "lock") ELSE [act EXCEPT ![a] = NoCall]
<1>1. ActsType /\ act[a].pc \in {"cancel", "stop"} /\ timer \in Timers \cup {None}
  BY DEF TypeOK, ActsType, FlushCancels, Stops, At
<1>2. act' = Cancelled(acts)
  BY DEF FlushCancels, Stops
<1>3. /\ acts \in [Actors -> Locals]
      /\ \A b \in Actors \ {a} : acts[b] = act[b]
      /\ acts[a].pc = "idle" \/ (acts[a].pc = "lock" /\ acts[a].batch = <<>>)
  <2>1. CASE FlushCancels(a)
    <3>1. act[a].batch = <<>> /\ "lock" \in Places
      BY <2>1 DEF FlushCancels, At, EmptyHands, Empty, Places
    <3> QED
      BY <1>1, <2>1, <3>1, MovedType
  <2>2. CASE ~FlushCancels(a)
    BY <1>1, <2>2, NoCallType, OneType
  <2> QED
    BY <2>1, <2>2
<1> HIDE DEF acts
<1>4. /\ act' \in [Actors -> Locals]
      /\ \A b \in Actors : act'[b] = acts[b] \/ (acts[b].pc = "armed" /\ act'[b] = NoCall)
  BY <1>1, <1>2, <1>3, CancelledType
<1>5. sendLock' = sendLock
  BY DEF FlushCancels, Stops
<1>6. ASSUME NEW b \in Actors PROVE Elsewhere(b)
  <2>1. CASE b = a
    <3>1. sendLock # b
      BY <1>1, <2>1, NotHolder DEF DrainPlaces
    <3>2. act'[b] = acts[a]
      BY <1>3, <1>4, <2>1
    <3> QED
      BY <1>3, <3>1, <3>2 DEF Elsewhere, DrainPlaces, Empty
  <2>2. CASE b # a /\ act'[b] # act[b]
    <3>1. act[b].pc = "armed" /\ act'[b].pc = "idle"
      BY <1>3, <1>4, <2>2, NoCallType
    <3> QED
      BY <3>1, NotHolder DEF Elsewhere, DrainPlaces, Empty
  <2> QED
    BY <2>1, <2>2 DEF Elsewhere
<1>7. Outside
  BY <1>5, <1>6 DEF Outside
<1>8. /\ boot' \in {"off", "on", "closed"} /\ timer' \in Timers \cup {None}
      /\ UNCHANGED <<sendLock, identity, store, crashes, events>>
  BY DEF FlushCancels, Stops, TypeOK
<1>9. TypeOK'
  BY <1>4, <1>8 DEF TypeOK, identity, events
<1> QED
  BY <1>7, <1>9

LEMMA SetUserSteps ==
    ASSUME TypeOK, OneDrain, NEW t \in Threads, Remember(t) \/ RememberFlag(t) \/ StoreUser(t) \/ StoreFlag(t)
    PROVE  TypeOK' /\ Outside
<1>1. ActsType /\ t \in Actors /\ act[t] \in Locals /\ act[t].id \in Ids /\ store \in Stores
  BY Kinds DEF TypeOK, ActsType, Locals, Stores
<1>2. sendLock # t /\ sendLock' = sendLock
  BY <1>1, NotHolder DEF Remember, RememberFlag, StoreUser, StoreFlag, At, DrainPlaces
<1>3. CASE Remember(t)
  <2> DEFINE id == IF act[t].goal = "reset" THEN anons + 1 ELSE act[t].id
             l == [act[t] EXCEPT !.pc = "rememberFlag", !.id = id]
  <2>1. /\ id \in Ids /\ userId' = id
        /\ anons' = IF act[t].goal = "reset" THEN id ELSE anons
        /\ UNCHANGED <<boot, timer, sendLock, identified, store, crashes, events>>
    BY <1>3 DEF Remember
  <2>2. act' = [act EXCEPT ![t] = l]
    BY <1>1, <1>3 DEF Remember, ActsType
  <2>3. l \in Locals /\ l.pc = "rememberFlag"
    BY <1>1, <2>1 DEF Locals, Places
  <2>4. act[t].goal = "reset" => id \in 0..MaxAnons
    <3>1. anons \in 0..MaxAnons /\ Customs \cap Nat = {} /\ MaxAnons \in Nat
      BY PyInstanceAssumption DEF TypeOK
    <3> QED
      BY <2>1, <3>1 DEF Ids, Anons, None
  <2> HIDE DEF id, l
  <2>5. /\ act' \in [Actors -> Locals] /\ act'[t].pc = "rememberFlag"
        /\ \A b \in Actors \ {t} : act'[b] = act[b]
    BY <1>1, <2>2, <2>3, OneType
  <2>6. Outside
    BY <1>1, <1>2, <2>5, AloneOutside DEF DrainPlaces, Empty
  <2>7. TypeOK'
    BY <2>1, <2>4, <2>5 DEF TypeOK, events
  <2> QED
    BY <2>6, <2>7
<1>4. CASE RememberFlag(t)
  <2>1. /\ identified' \in BOOLEAN
        /\ UNCHANGED <<boot, timer, sendLock, userId, anons, store, crashes, events>>
    BY <1>4 DEF RememberFlag
  <2>2. /\ act' \in [Actors -> Locals] /\ act'[t].pc = "storeUser"
        /\ \A b \in Actors \ {t} : act'[b] = act[b]
    <3>1. "storeUser" \in Places
      BY DEF Places
    <3> QED
      BY <1>1, <1>4, <3>1, MovedType DEF RememberFlag
  <2>3. Outside
    BY <1>1, <1>2, <2>2, AloneOutside DEF DrainPlaces, Empty
  <2>4. TypeOK'
    BY <2>1, <2>2 DEF TypeOK, events
  <2> QED
    BY <2>3, <2>4
<1>5. CASE StoreUser(t) \/ StoreFlag(t)
  <2>1. store' \in Stores /\ UNCHANGED <<boot, timer, sendLock, identity, crashes, events>>
    BY <1>1, <1>5 DEF StoreUser, StoreFlag, Stores
  <2>2. /\ act' \in [Actors -> Locals] /\ act'[t].pc \in {"storeFlag", "sent", "idle"}
        /\ \A b \in Actors \ {t} : act'[b] = act[b]
    <3>1. {"storeFlag", "sent"} \subseteq Places
      BY DEF Places
    <3>2. CASE act' = [act EXCEPT ![t] = NoCall]
      BY <1>1, <3>2, NoCallType, OneType
    <3>3. CASE act' = Moved(t, "storeFlag") \/ act' = Moved(t, "sent")
      BY <1>1, <3>1, <3>3, MovedType
    <3> QED
      BY <1>5, <3>2, <3>3 DEF StoreUser, StoreFlag
  <2>3. Outside
    BY <1>1, <1>2, <2>2, AloneOutside DEF DrainPlaces, Empty
  <2>4. TypeOK'
    BY <2>1, <2>2 DEF TypeOK, identity, events, Stores
  <2> QED
    BY <2>3, <2>4
<1> QED
  BY <1>3, <1>4, <1>5

LEMMA CallSteps ==
    ASSUME TypeOK, OneDrain, EmptyHands, NEW t \in Threads, CallOf(t)
    PROVE  TypeOK' /\ Outside
<1>1. {"identify", "reset", "flush", "shutdown"} \subseteq Goals /\ t \in Actors
  BY Kinds DEF Goals
<1>2. CASE Track(t)
  BY <1>2, TrackSteps
<1>3. CASE TrackSchedules(t)
  BY <1>3, SchedulesSteps
<1>4. CASE TrackSingle(t)
  BY <1>4, TrackSingleSteps
<1>5. ASSUME NEW c \in Customs, Identify(t, c) PROVE TypeOK' /\ Outside
  BY <1>1, <1>5, Kinds, CallsSteps DEF Identify, Starts, At
<1>6. CASE Reset(t) \/ Flush(t) \/ Shutdown(t)
  BY <1>1, <1>6, Kinds, CallsSteps DEF Reset, Flush, Shutdown, Starts, At
<1>7. CASE Stops(t)
  BY <1>1, <1>7, CancelSteps
<1>8. CASE Remember(t) \/ RememberFlag(t) \/ StoreUser(t) \/ StoreFlag(t)
  BY <1>8, SetUserSteps
<1> QED
  BY <1>2, <1>3, <1>4, <1>5, <1>6, <1>7, <1>8 DEF CallOf

-----------------------------------------------------------------------------
(* The steps of the thread that has the send lock *)

Exclusive == TypeOK /\ OneDrain /\ EmptyHands

LEMMA InsideKeeps ==
    ASSUME Exclusive, NEW a \in Actors, sendLock = a,
           \A b \in Actors \ {a} : act'[b] = act[b] \/ (act[b].pc = "idle" /\ act'[b].pc = "armed"),
           act'[a].pc \in Empty => act'[a].batch = <<>>,
           \/ sendLock' = a /\ act'[a].pc \in DrainPlaces \cup {"sent"}
           \/ sendLock' = None /\ act'[a].pc \notin DrainPlaces
    PROVE  OneDrain' /\ EmptyHands'
<1>1. \A b \in Actors \ {a} :
         /\ act'[b].pc \notin DrainPlaces
         /\ act'[b].pc \in Empty => act'[b].batch = <<>>
  BY DEF Exclusive, OneDrain, EmptyHands, DrainPlaces, Empty
<1>2. EmptyHands'
  <2> SUFFICES ASSUME NEW b \in Actors, act'[b].pc \in Empty PROVE act'[b].batch = <<>>
    BY DEF EmptyHands
  <2> QED
    BY <1>1
<1>3. OneDrain'
  <2>1. sendLock' # None => act'[sendLock'].pc \in DrainPlaces \cup {"sent"}
    OBVIOUS
  <2>2. ASSUME NEW b \in Actors, act'[b].pc \in DrainPlaces PROVE sendLock' = b
    <3>1. b = a
      BY <1>1, <2>2
    <3> QED
      BY <2>2, <3>1
  <2> QED
    BY <2>1, <2>2 DEF OneDrain
<1> QED
  BY <1>2, <1>3

LEMMA AfterFlushType ==
    ASSUME TypeOK, NEW a \in Actors, NEW ok \in BOOLEAN, AfterFlush(a, ok)
    PROVE  /\ act' \in [Actors -> Locals] /\ boot' \in {"off", "on", "closed"}
           /\ act'[a].pc \in {"idle", "remember", "stop"} /\ act'[a].batch = <<>>
           /\ \A b \in Actors \ {a} : act'[b] = act[b]
<1> DEFINE goal == act[a].goal
           l == CASE goal = "reset" /\ ok    -> [NoCall EXCEPT !.pc = "remember", !.goal = goal]
                  [] goal = "shutdown" /\ ok -> [NoCall EXCEPT !.pc = "stop", !.goal = goal]
                  [] OTHER                   -> NoCall
<1>1. ActsType
  BY DEF TypeOK, ActsType
<1>2. act' = [act EXCEPT ![a] = l] /\ boot' = IF goal = "shutdown" /\ ~ok THEN "closed" ELSE boot
  BY DEF AfterFlush
<1>3. l \in Locals /\ l.pc \in {"idle", "remember", "stop"} /\ l.batch = <<>>
  <2>1. CASE goal = "reset" /\ ok
    <3>1. l = [NoCall EXCEPT !.pc = "remember", !.goal = goal]
      BY <2>1
    <3>2. /\ [NoCall EXCEPT !.pc = "remember", !.goal = goal] \in Locals
          /\ [NoCall EXCEPT !.pc = "remember", !.goal = goal].pc = "remember"
          /\ [NoCall EXCEPT !.pc = "remember", !.goal = goal].batch = <<>>
      BY <2>1, NoCallType DEF NoCall, Locals, Places
    <3> QED
      BY <3>1, <3>2
  <2>2. CASE goal = "shutdown" /\ ok
    <3>1. l = [NoCall EXCEPT !.pc = "stop", !.goal = goal]
      BY <2>2
    <3>2. /\ [NoCall EXCEPT !.pc = "stop", !.goal = goal] \in Locals
          /\ [NoCall EXCEPT !.pc = "stop", !.goal = goal].pc = "stop"
          /\ [NoCall EXCEPT !.pc = "stop", !.goal = goal].batch = <<>>
      BY <2>2, NoCallType DEF NoCall, Locals, Places
    <3> QED
      BY <3>1, <3>2
  <2>3. CASE ~(goal = "reset" /\ ok) /\ ~(goal = "shutdown" /\ ok)
    BY <2>3, NoCallType
  <2> QED
    BY <2>1, <2>2, <2>3
<1> HIDE DEF l
<1>4. boot' \in {"off", "on", "closed"}
  BY <1>2 DEF TypeOK
<1> QED
  BY <1>1, <1>2, <1>3, <1>4, OneType

LEMMA EntersKeeps ==
    ASSUME Exclusive, NEW a \in Actors, FlushEnters(a)
    PROVE  Exclusive'
<1>1. /\ ActsType /\ act[a].pc = "lock" /\ sendLock = None /\ sendLock' = a
      /\ act' = Moved(a, "take") /\ "take" \in Places
      /\ UNCHANGED <<boot, timer, identity, store, crashes, events>>
  BY DEF Exclusive, TypeOK, ActsType, FlushEnters, At, Places
<1>2. act[a].batch = <<>>
  BY <1>1 DEF Exclusive, EmptyHands, Empty
<1>3. /\ act' \in [Actors -> Locals] /\ act'[a].pc = "take" /\ act'[a].batch = <<>>
      /\ \A b \in Actors \ {a} : act'[b] = act[b]
  BY <1>1, <1>2, MovedType
<1>4. \A b \in Actors : act[b].pc \notin DrainPlaces
  BY <1>1, Kinds DEF Exclusive, OneDrain
<1>5. OneDrain' /\ EmptyHands'
  BY <1>1, <1>3, <1>4 DEF Exclusive, OneDrain, EmptyHands, DrainPlaces
<1>6. TypeOK'
  BY <1>1, <1>3 DEF Exclusive, TypeOK, identity, events
<1> QED
  BY <1>5, <1>6 DEF Exclusive

LEMMA TakesKeeps ==
    ASSUME Exclusive, NEW a \in Actors, FlushTakes(a)
    PROVE  Exclusive'
<1>1. /\ ActsType /\ act[a].pc = "take" /\ sendLock = a /\ queue \in Seq(Events) /\ TypeOK
      /\ UNCHANGED <<timer, identity, store, tracked, crashes, fate>>
  BY DEF Exclusive, TypeOK, ActsType, FlushTakes, At, OneDrain, DrainPlaces
<1>2. CASE queue = <<>>
  <2>1. AfterFlush(a, TRUE) /\ sendLock' = None /\ queue' = queue
    BY <1>2 DEF FlushTakes, Leaves
  <2>2. /\ act' \in [Actors -> Locals] /\ boot' \in {"off", "on", "closed"}
        /\ act'[a].pc \in {"idle", "remember", "stop"} /\ act'[a].batch = <<>>
        /\ \A b \in Actors \ {a} : act'[b] = act[b]
    BY <1>1, <2>1, AfterFlushType
  <2>3. OneDrain' /\ EmptyHands'
    BY <1>1, <2>1, <2>2, InsideKeeps DEF DrainPlaces
  <2>4. TypeOK'
    BY <1>1, <2>1, <2>2 DEF TypeOK, identity
  <2> QED
    BY <2>3, <2>4 DEF Exclusive
<1>3. CASE queue # <<>>
  <2> DEFINE l == [act[a] EXCEPT !.pc = "sent", !.batch = FirstN(queue, MaxBatch), !.attempt = 0]
  <2>1. /\ queue' = AfterN(queue, MaxBatch) /\ UNCHANGED <<boot, sendLock>>
        /\ act' = [act EXCEPT ![a].pc = "sent", ![a].batch = FirstN(queue, MaxBatch),
                              ![a].attempt = 0]
    BY <1>3 DEF FlushTakes
  <2>2. act' = [act EXCEPT ![a] = l]
    BY <1>1, <2>1 DEF ActsType
  <2>3. FirstN(queue, MaxBatch) \in Seq(Events) /\ queue' \in Seq(Events) /\ MaxRetries \in Nat
    BY <1>1, <2>1, FirstNProps, AfterNProps, PyConfigAssumption
  <2>4. act[a] \in Locals /\ "sent" \in Places
    BY <1>1 DEF ActsType, Places
  <2>5. l \in Locals /\ l.pc = "sent"
    <3> DEFINE b == FirstN(queue, MaxBatch)
    <3>1. b \in Seq(Events) /\ 0 \in 0..MaxRetries
      BY <2>3
    <3> HIDE DEF b
    <3>2. /\ [act[a] EXCEPT !.pc = "sent", !.batch = b, !.attempt = 0] \in Locals
          /\ [act[a] EXCEPT !.pc = "sent", !.batch = b, !.attempt = 0].pc = "sent"
      BY <2>4, <3>1 DEF Locals
    <3> QED
      BY <3>2 DEF b
  <2> HIDE DEF l
  <2>6. /\ act' \in [Actors -> Locals] /\ act'[a].pc = "sent"
        /\ \A b \in Actors \ {a} : act'[b] = act[b]
    BY <1>1, <2>2, <2>5, OneType
  <2>7. OneDrain' /\ EmptyHands'
    BY <1>1, <2>1, <2>6, InsideKeeps DEF Empty
  <2>8. TypeOK'
    BY <1>1, <2>1, <2>3, <2>6 DEF TypeOK, identity
  <2> QED
    BY <2>7, <2>8 DEF Exclusive
<1> QED
  BY <1>2, <1>3

LEMMA PersistsKeeps ==
    ASSUME Exclusive, NEW a \in Actors, FlushPersists(a)
    PROVE  Exclusive'
<1> DEFINE l == [act[a] EXCEPT !.pc = "take", !.batch = <<>>]
<1>1. /\ ActsType /\ act[a].pc = "persist" /\ sendLock = a /\ queue \in Seq(Events) /\ TypeOK
      /\ act[a] \in Locals /\ store \in Stores /\ fate \in [Events -> Fates]
  BY DEF Exclusive, TypeOK, ActsType, FlushPersists, At, OneDrain, DrainPlaces, Stores
<1>2. act' = [act EXCEPT ![a] = l]
  BY <1>1 DEF FlushPersists, ActsType
<1>3. l \in Locals /\ l.pc = "take" /\ l.batch = <<>>
  BY <1>1, EmptySeq DEF Locals, Places
<1> HIDE DEF l
<1>4. /\ act' \in [Actors -> Locals] /\ act'[a].pc = "take" /\ act'[a].batch = <<>>
      /\ \A b \in Actors \ {a} : act'[b] = act[b]
  BY <1>1, <1>2, <1>3, OneType
<1>5. /\ store' \in Stores /\ fate' \in [Events -> Fates]
      /\ UNCHANGED <<boot, queue, timer, sendLock, identity, tracked, crashes>>
  BY <1>1, PersistedType, BecomeType DEF FlushPersists, Fates
<1>6. OneDrain' /\ EmptyHands'
  BY <1>1, <1>4, <1>5, InsideKeeps DEF DrainPlaces
<1>7. TypeOK'
  BY <1>1, <1>4, <1>5 DEF TypeOK, identity, Stores
<1> QED
  BY <1>6, <1>7 DEF Exclusive

LEMMA CatchesKeeps ==
    ASSUME Exclusive, NEW a \in Actors, FlushCatches(a)
    PROVE  Exclusive'
<1> DEFINE l == [act[a] EXCEPT !.pc = "failed", !.batch = <<>>]
           failed == [act EXCEPT ![a] = l]
<1>1. /\ ActsType /\ act[a].pc \in {"transient", "refused"} /\ sendLock = a
      /\ queue \in Seq(Events) /\ TypeOK /\ act[a] \in Locals /\ act[a].batch \in Seq(Events)
      /\ store \in Stores /\ fate \in [Events -> Fates] /\ timer \in Timers \cup {None}
  BY DEF Exclusive, TypeOK, ActsType, FlushCatches, At, OneDrain, DrainPlaces, Stores, Locals
<1>2. [act EXCEPT ![a].pc = "failed", ![a].batch = <<>>] = failed
  BY <1>1 DEF ActsType
<1>3. l \in Locals /\ l.pc = "failed" /\ l.batch = <<>>
  BY <1>1, EmptySeq DEF Locals, Places
<1> HIDE DEF l
<1>4. /\ failed \in [Actors -> Locals] /\ failed[a] = l
      /\ \A b \in Actors \ {a} : failed[b] = act[b]
  BY <1>1, <1>3, OneType
<1> HIDE DEF failed
<1>5. /\ queue' \in Seq(Events) /\ fate' \in [Events -> Fates]
      /\ \/ act' = failed /\ timer' = timer
         \/ Schedule(queue', failed)
  <2>1. CASE act[a].pc = "transient" /\ RequeueFailedEvents
    <3>1. queue' = act[a].batch \o queue /\ Schedule(queue', failed) /\ fate' = fate
      BY <1>2, <2>1 DEF FlushCatches, Requeued, At
    <3> QED
      BY <1>1, <3>1, ConcatProperties
  <2>2. CASE act[a].pc = "transient" /\ ~RequeueFailedEvents
    <3>1. /\ fate' = Become(ToSet(act[a].batch), "abandoned") /\ act' = failed
          /\ UNCHANGED <<queue, timer>>
      BY <1>2, <2>2 DEF FlushCatches, At
    <3>2. "abandoned" \in Fates
      BY DEF Fates
    <3> QED
      BY <1>1, <3>1, <3>2, BecomeType
  <2>3. CASE act[a].pc = "refused"
    <3>1. /\ fate' = Become(ToSet(act[a].batch \o queue), "refused") /\ act' = failed
          /\ queue' = <<>> /\ timer' = timer
      BY <1>2, <2>3 DEF FlushCatches, At
    <3>2. "refused" \in Fates
      BY DEF Fates
    <3> QED
      BY <1>1, <3>1, <3>2, BecomeType, EmptySeq
  <2> QED
    BY <1>1, <2>1, <2>2, <2>3
<1>6. /\ act' \in [Actors -> Locals] /\ timer' \in Timers \cup {None}
      /\ \A b \in Actors : act'[b] = failed[b] \/ (failed[b].pc = "idle" /\ act'[b].pc = "armed")
  BY <1>1, <1>4, <1>5, ScheduleType
<1>7. act'[a] = l
  BY <1>3, <1>4, <1>6
<1>8. \A b \in Actors \ {a} : act'[b] = act[b] \/ (act[b].pc = "idle" /\ act'[b].pc = "armed")
  BY <1>4, <1>6
<1>9. store' \in Stores /\ UNCHANGED <<boot, sendLock, identity, tracked, crashes>>
  BY <1>1, <1>5, PersistedType DEF FlushCatches
<1>10. OneDrain' /\ EmptyHands'
  BY <1>1, <1>3, <1>7, <1>8, <1>9, InsideKeeps DEF DrainPlaces
<1>11. TypeOK'
  BY <1>1, <1>5, <1>6, <1>9 DEF TypeOK, identity, Stores
<1> QED
  BY <1>10, <1>11 DEF Exclusive

LEMMA GivesUpKeeps ==
    ASSUME Exclusive, NEW a \in Actors, FlushGivesUp(a)
    PROVE  Exclusive'
<1>1. /\ TypeOK /\ sendLock = a /\ AfterFlush(a, ~ThrowOnError) /\ sendLock' = None
      /\ UNCHANGED <<queue, timer, identity, store, tracked, crashes, fate>>
  BY DEF Exclusive, FlushGivesUp, Leaves, At, OneDrain, DrainPlaces
<1>0. (~ThrowOnError) \in BOOLEAN
  OBVIOUS
<1>2. /\ act' \in [Actors -> Locals] /\ boot' \in {"off", "on", "closed"}
      /\ act'[a].pc \in {"idle", "remember", "stop"} /\ act'[a].batch = <<>>
      /\ \A b \in Actors \ {a} : act'[b] = act[b]
  BY <1>0, <1>1, AfterFlushType
<1>3. OneDrain' /\ EmptyHands'
  BY <1>1, <1>2, InsideKeeps DEF DrainPlaces
<1>4. TypeOK'
  BY <1>1, <1>2 DEF TypeOK, identity
<1> QED
  BY <1>3, <1>4 DEF Exclusive

-----------------------------------------------------------------------------
(* Requests, inside and outside of a flush *)

LEMMA SettlesType ==
    ASSUME Exclusive, NEW a \in Actors, sendLock # a, NEW how \in Fates, SettlesAlone(a, how)
    PROVE  TypeOK' /\ Outside
<1>1. /\ ActsType /\ fate \in [Events -> Fates] /\ act' = [act EXCEPT ![a] = NoCall]
      /\ fate' = Become(ToSet(act[a].batch), how)
      /\ UNCHANGED <<boot, queue, timer, sendLock, identity, store, tracked, crashes>>
  BY DEF Exclusive, TypeOK, ActsType, SettlesAlone
<1>2. /\ act' \in [Actors -> Locals] /\ act'[a].pc = "idle"
      /\ \A b \in Actors \ {a} : act'[b] = act[b]
  BY <1>1, NoCallType, OneType
<1>3. fate' \in [Events -> Fates]
  BY <1>1, BecomeType
<1>4. Outside
  BY <1>1, <1>2, AloneOutside DEF Exclusive, DrainPlaces, Empty
<1>5. TypeOK'
  BY <1>1, <1>2, <1>3 DEF Exclusive, TypeOK, identity
<1> QED
  BY <1>4, <1>5

(* The request of a flush goes on to a place inside it. *)
LEMMA InsideMoves ==
    ASSUME Exclusive, NEW a \in Actors, sendLock = a,
           NEW where \in {"persist", "transient", "refused"}, act' = Moved(a, where),
           UNCHANGED <<boot, timer, sendLock, identity, store, crashes, events>>
    PROVE  Exclusive'
<1>1. ActsType /\ TypeOK /\ where \in Places
  BY DEF Exclusive, TypeOK, ActsType, Places
<1>2. /\ act' \in [Actors -> Locals] /\ act'[a].pc = where
      /\ \A b \in Actors \ {a} : act'[b] = act[b]
  BY <1>1, MovedType
<1>3. OneDrain' /\ EmptyHands'
  BY <1>2, InsideKeeps DEF DrainPlaces, Empty
<1>4. TypeOK'
  BY <1>1, <1>2 DEF TypeOK, identity, events
<1> QED
  BY <1>3, <1>4 DEF Exclusive

LEMMA RetryKeeps ==
    ASSUME Exclusive, NEW a \in Actors, Retry(a)
    PROVE  Exclusive'
<1> DEFINE l == [act[a] EXCEPT !.attempt = @ + 1]
<1>1. /\ ActsType /\ TypeOK /\ act[a] \in Locals /\ act[a].pc = "sent"
      /\ act[a].attempt < MaxRetries /\ MaxRetries \in Nat
      /\ UNCHANGED <<boot, timer, sendLock, identity, store, crashes, events>>
  BY PyConfigAssumption DEF Exclusive, TypeOK, ActsType, Retry, At
<1>2. act' = [act EXCEPT ![a] = l]
  BY <1>1 DEF Retry, ActsType
<1>3. l \in Locals /\ l.pc = "sent"
  <2>1. act[a].attempt + 1 \in 0..MaxRetries
    BY <1>1 DEF Locals
  <2> QED
    BY <1>1, <2>1 DEF Locals
<1> HIDE DEF l
<1>4. /\ act' \in [Actors -> Locals] /\ act'[a].pc = "sent"
      /\ \A b \in Actors \ {a} : act'[b] = act[b]
  BY <1>1, <1>2, <1>3, OneType
<1>5. OneDrain' /\ EmptyHands'
  <2>1. \A b \in Actors : act'[b].pc = act[b].pc /\ (b = a \/ act'[b] = act[b])
    BY <1>1, <1>4
  <2>2. EmptyHands'
    BY <1>1, <2>1 DEF Exclusive, EmptyHands, Empty
  <2>3. OneDrain /\ sendLock' = sendLock /\ sendLock \in Actors \cup {None}
    BY <1>1 DEF Exclusive, TypeOK
  <2>4. OneDrain'
    BY <2>1, <2>3 DEF OneDrain
  <2> QED
    BY <2>2, <2>4
<1>6. TypeOK'
  BY <1>1, <1>4 DEF TypeOK, identity, events
<1> QED
  BY <1>5, <1>6 DEF Exclusive

LEMMA AnswerKeeps ==
    ASSUME Exclusive, NEW a \in Actors,
           Accept(a) \/ Fail(a, TRUE) \/ Fail(a, FALSE) \/ Break(a)
    PROVE  Exclusive' \/ (TypeOK' /\ Outside)
<1>1. {"accepted", "abandoned", "refused", "dropped"} \subseteq Fates
  BY DEF Fates
<1>2. CASE sendLock # a
  <2>1. \E how \in Fates : SettlesAlone(a, how)
    BY <1>1, <1>2 DEF Accept, Fail, Break, Draining
  <2> QED
    BY <1>2, <2>1, SettlesType
<1>3. CASE sendLock = a /\ ~Break(a)
  <2>1. /\ \E where \in {"persist", "transient", "refused"} : act' = Moved(a, where)
        /\ UNCHANGED <<boot, timer, sendLock, identity, store, crashes, events>>
    BY <1>3 DEF Accept, Fail, Draining
  <2> QED
    BY <1>3, <2>1, InsideMoves
<1>4. CASE sendLock = a /\ Break(a)
  <2>1. /\ AfterFlush(a, FALSE) /\ sendLock' = None /\ TypeOK /\ fate \in [Events -> Fates]
        /\ fate' = Become(ToSet(act[a].batch), "dropped")
        /\ UNCHANGED <<queue, timer, identity, store, tracked, crashes>>
    BY <1>4 DEF Break, Draining, Leaves, Exclusive, TypeOK
  <2>2. /\ act' \in [Actors -> Locals] /\ boot' \in {"off", "on", "closed"}
        /\ act'[a].pc \in {"idle", "remember", "stop"} /\ act'[a].batch = <<>>
        /\ \A b \in Actors \ {a} : act'[b] = act[b]
    BY <2>1, AfterFlushType
  <2>3. fate' \in [Events -> Fates]
    BY <1>1, <2>1, BecomeType
  <2>4. OneDrain' /\ EmptyHands'
    BY <1>4, <2>1, <2>2, InsideKeeps DEF DrainPlaces
  <2>5. TypeOK'
    BY <2>1, <2>2, <2>3 DEF TypeOK, identity
  <2> QED
    BY <2>4, <2>5 DEF Exclusive
<1> QED
  BY <1>2, <1>3, <1>4

LEMMA CrashKeeps == ASSUME Exclusive, Crash PROVE Exclusive'
<1>1. /\ act' = [a \in Actors |-> NoCall] /\ act' \in [Actors -> Locals]
      /\ \A a \in Actors : act'[a].pc = "idle"
  BY NoCallType DEF Crash
<1>2. /\ boot' = "off" /\ queue' = <<>> /\ timer' = None /\ sendLock' = None
      /\ userId' = None /\ identified' = FALSE /\ crashes < MaxCrashes /\ crashes' = crashes + 1
      /\ UNCHANGED <<store, anons, tracked>>
  BY DEF Crash
<1>3. fate' \in [Events -> Fates]
  BY DEF Crash, Exclusive, TypeOK, Fates
<1>4. crashes' \in 0..MaxCrashes
  BY <1>2, PyInstanceAssumption DEF Exclusive, TypeOK
<1>5. TypeOK'
  BY <1>1, <1>2, <1>3, <1>4, Kinds, EmptySeq DEF Exclusive, TypeOK
<1>6. OneDrain' /\ EmptyHands'
  BY <1>1, <1>2 DEF OneDrain, EmptyHands, DrainPlaces, Empty
<1> QED
  BY <1>5, <1>6 DEF Exclusive

LEMMA ExclusiveInit == Init => Exclusive
<1>1. Init => OneDrain /\ EmptyHands
  BY NoCallType DEF Init, OneDrain, EmptyHands, DrainPlaces, Empty
<1> QED
  BY <1>1, TypeInit DEF Exclusive

LEMMA ExclusiveNext == ASSUME Exclusive, [Next]_vars PROVE Exclusive'
<1>1. TypeOK /\ OneDrain /\ EmptyHands /\ sendLock \in Actors \cup {None}
  BY DEF Exclusive, TypeOK
<1>2. TypeOK' /\ Outside => Exclusive'
  BY <1>1, OutsideKeeps DEF Exclusive
<1>3. CASE Load
  BY <1>1, <1>2, <1>3, LoadSteps
<1>4. ASSUME NEW t \in Threads, CallOf(t) PROVE Exclusive'
  BY <1>1, <1>2, <1>4, CallSteps
<1>5. ASSUME NEW i \in Timers, TimerFires(i) \/ TimerRuns(i) PROVE Exclusive'
  BY <1>1, <1>2, <1>5, TimerSteps
<1>6. ASSUME NEW a \in Actors, FlushOf(a) PROVE Exclusive'
  <2>1. CASE FlushCancels(a)
    BY <1>1, <1>2, <2>1, CancelSteps
  <2>2. CASE FlushEnters(a) \/ FlushTakes(a) \/ FlushPersists(a)
    BY <2>2, EntersKeeps, TakesKeeps, PersistsKeeps
  <2>3. CASE FlushCatches(a) \/ FlushGivesUp(a) \/ Retry(a)
    BY <2>3, CatchesKeeps, GivesUpKeeps, RetryKeeps
  <2>4. CASE Accept(a) \/ Fail(a, TRUE) \/ Fail(a, FALSE) \/ Break(a)
    BY <1>2, <2>4, AnswerKeeps
  <2> QED
    BY <1>6, <2>1, <2>2, <2>3, <2>4 DEF FlushOf
<1>7. CASE Crash
  BY <1>7, CrashKeeps
<1>8. CASE UNCHANGED vars
  BY <1>8 DEF vars, Exclusive, TypeOK, OneDrain, EmptyHands
<1> QED
  BY <1>3, <1>4, <1>5, <1>6, <1>7, <1>8 DEF Next

LEMMA ExclusiveInvariant == Spec => []Exclusive
  BY ExclusiveInit, ExclusiveNext, PTL DEF Spec

(* Every variable of the Python integration keeps its type, for every      *)
(* number of threads, timers, users and events: in particular a request    *)
(* is tried at most max_retries + 1 times, whichever thread runs it.       *)
THEOREM TypeCorrect == Spec => []TypeOK
<1>1. Exclusive => TypeOK
  BY DEF Exclusive
<1> QED
  BY <1>1, ExclusiveInvariant, PTL

(* Flushes exclude each other, for every number of threads and timers: a   *)
(* thread inside a flush has the send lock, and the lock is free as soon   *)
(* as no thread is inside, whether the flush returned, gave up, raised or  *)
(* was broken off by an exception nobody catches.                          *)
THEOREM FlushesExclude == Spec => []OneDrain
<1>1. Exclusive => OneDrain
  BY DEF Exclusive
<1> QED
  BY <1>1, ExclusiveInvariant, PTL

-----------------------------------------------------------------------------
(* Sorted sequences of events *)

Below(s, n) == \A i \in 1..Len(s) : s[i] <= n

LEMMA ConcatSorted ==
    ASSUME NEW a \in Seq(Events), NEW b \in Seq(Events)
    PROVE  /\ Len(a \o b) = Len(a) + Len(b)
           /\ Sorted(a \o b) <=> /\ Sorted(a) /\ Sorted(b)
                                 /\ \A i \in 1..Len(a), j \in 1..Len(b) : a[i] < b[j]
           /\ \A n \in Nat : Below(a \o b, n) <=> Below(a, n) /\ Below(b, n)
<1> DEFINE c == a \o b
<1>1. /\ Len(a) \in Nat /\ Len(b) \in Nat /\ Len(c) = Len(a) + Len(b)
      /\ \A i \in 1..Len(a) : c[i] = a[i]
      /\ \A j \in 1..Len(b) : c[Len(a) + j] = b[j]
  BY ConcatProperties, LenProperties
<1>2. \A i \in 1..Len(c) : i \in 1..Len(a) \/ (i - Len(a) \in 1..Len(b) /\ c[i] = b[i - Len(a)])
  BY <1>1
<1> HIDE DEF c
<1>3. ASSUME Sorted(c)
      PROVE  Sorted(a) /\ Sorted(b) /\ \A i \in 1..Len(a), j \in 1..Len(b) : a[i] < b[j]
  <2>1. Sorted(a)
    BY <1>1, <1>3 DEF Sorted
  <2>2. Sorted(b)
    <3> SUFFICES ASSUME NEW i \in 1..Len(b), NEW j \in 1..Len(b), i < j PROVE b[i] < b[j]
      BY DEF Sorted
    <3>1. Len(a) + i \in 1..Len(c) /\ Len(a) + j \in 1..Len(c) /\ Len(a) + i < Len(a) + j
      BY <1>1
    <3>2. c[Len(a) + i] < c[Len(a) + j]
      BY <3>1, <1>3 DEF Sorted
    <3> QED
      BY <3>2, <1>1
  <2>3. ASSUME NEW i \in 1..Len(a), NEW j \in 1..Len(b) PROVE a[i] < b[j]
    <3>1. i \in 1..Len(c) /\ Len(a) + j \in 1..Len(c) /\ i < Len(a) + j
      BY <1>1
    <3>2. c[i] < c[Len(a) + j]
      BY <3>1, <1>3 DEF Sorted
    <3> QED
      BY <3>2, <1>1
  <2> QED
    BY <2>1, <2>2, <2>3
<1>4. ASSUME Sorted(a), Sorted(b), \A i \in 1..Len(a), j \in 1..Len(b) : a[i] < b[j]
      PROVE  Sorted(c)
  <2> SUFFICES ASSUME NEW i \in 1..Len(c), NEW j \in 1..Len(c), i < j PROVE c[i] < c[j]
    BY DEF Sorted
  <2>1. CASE i \in 1..Len(a) /\ j \in 1..Len(a)
    BY <2>1, <1>1, <1>4 DEF Sorted
  <2>2. CASE i \in 1..Len(a) /\ j \notin 1..Len(a)
    BY <2>2, <1>1, <1>2, <1>4
  <2>3. CASE i \notin 1..Len(a)
    <3>1. /\ i - Len(a) \in 1..Len(b) /\ j - Len(a) \in 1..Len(b) /\ i - Len(a) < j - Len(a)
          /\ c[i] = b[i - Len(a)] /\ c[j] = b[j - Len(a)]
      BY <2>3, <1>1, <1>2
    <3> QED
      BY <3>1, <1>4 DEF Sorted
  <2> QED
    BY <2>1, <2>2, <2>3
<1>5. ASSUME NEW n \in Nat PROVE Below(c, n) <=> Below(a, n) /\ Below(b, n)
  <2>1. ASSUME Below(c, n) PROVE Below(a, n) /\ Below(b, n)
    <3>1. \A j \in 1..Len(b) : Len(a) + j \in 1..Len(c)
      BY <1>1
    <3>2. \A j \in 1..Len(b) : c[Len(a) + j] <= n
      BY <3>1, <2>1 DEF Below
    <3>3. Below(b, n)
      BY <3>2, <1>1 DEF Below
    <3>4. Below(a, n)
      BY <2>1, <1>1 DEF Below
    <3> QED
      BY <3>3, <3>4
  <2>2. ASSUME Below(a, n), Below(b, n) PROVE Below(c, n)
    BY <2>2, <1>1, <1>2 DEF Below
  <2> QED
    BY <2>1, <2>2
<1> QED
  BY <1>1, <1>3, <1>4, <1>5 DEF c

(* What is left of a sorted sequence when its first events are removed. *)
LEMMA AfterSorted ==
    ASSUME NEW s \in Seq(Events), NEW n \in Nat, Sorted(s)
    PROVE  /\ Sorted(FirstN(s, n)) /\ Sorted(AfterN(s, n))
           /\ \A i \in 1..Len(FirstN(s, n)), j \in 1..Len(AfterN(s, n)) :
                  FirstN(s, n)[i] < AfterN(s, n)[j]
           /\ \A m \in Nat : Below(s, m) => Below(FirstN(s, n), m) /\ Below(AfterN(s, n), m)
<1> DEFINE a == FirstN(s, n)
           b == AfterN(s, n)
<1>1. a \in Seq(Events) /\ b \in Seq(Events) /\ a \o b = s
  BY SplitProps, FirstNProps, AfterNProps
<1> HIDE DEF a, b
<1>2. /\ Sorted(a) /\ Sorted(b)
      /\ \A i \in 1..Len(a), j \in 1..Len(b) : a[i] < b[j]
      /\ \A m \in Nat : Below(s, m) => Below(a, m) /\ Below(b, m)
  BY <1>1, ConcatSorted
<1> QED
  BY <1>2 DEF a, b

LEMMA NewestSorted ==
    ASSUME NEW s \in Seq(Events), Sorted(s)
    PROVE  /\ Newest(s) \in Seq(Events) /\ Sorted(Newest(s))
           /\ Len(Newest(s)) <= MaxQueueSize
           /\ \A m \in Nat : Below(s, m) => Below(Newest(s), m)
           /\ \A m \in Nat : (\A i \in 1..Len(s) : m < s[i])
                               => \A i \in 1..Len(Newest(s)) : m < Newest(s)[i]
<1>1. Len(s) \in Nat /\ Len(s) - Smaller(MaxQueueSize, Len(s)) \in Nat
  BY LenProperties, PyConfigAssumption DEF Smaller
<1>2. Newest(s) = AfterN(s, Len(s) - Smaller(MaxQueueSize, Len(s)))
  BY DEF Newest
<1>3. Newest(s) \in Seq(Events) /\ Len(Newest(s)) <= MaxQueueSize
  <2>1. Newest(s) \in Seq(Events) /\ Len(Newest(s)) = Smaller(MaxQueueSize, Len(s))
    BY NewestProps
  <2>2. Smaller(MaxQueueSize, Len(s)) <= MaxQueueSize
    BY <1>1, PyConfigAssumption DEF Smaller
  <2> QED
    BY <2>1, <2>2
<1>4. /\ Sorted(Newest(s))
      /\ \A m \in Nat : Below(s, m) => Below(Newest(s), m)
  BY <1>1, <1>2, AfterSorted
<1>5. \A i \in 1..Len(Newest(s)) :
         /\ i + (Len(s) - Smaller(MaxQueueSize, Len(s))) \in 1..Len(s)
         /\ Newest(s)[i] = s[i + (Len(s) - Smaller(MaxQueueSize, Len(s)))]
  BY <1>1, NewestProps, PyConfigAssumption DEF Smaller
<1> QED
  BY <1>3, <1>4, <1>5

-----------------------------------------------------------------------------
(* The order of the events, in the hands of all threads and in storage *)

Tidy(s, n) == Sorted(s) /\ Below(s, n)

(* The events the running flush has taken. *)
Taken == IF sendLock = None THEN <<>> ELSE act[sendLock].batch

Still == boot = "off" => queue = <<>> /\ sendLock = None /\ \A a \in Actors : act[a].pc = "idle"

OrderInv == Tidy(Taken \o queue, tracked) /\ Tidy(store.queue, tracked) /\ Still

LEMMA EmptyTidy == \A n : Tidy(<<>>, n)
  BY EmptySeq DEF Tidy, Sorted, Below

LEMMA LaterTidy ==
    ASSUME NEW s \in Seq(Events), NEW m \in Nat, NEW n \in Nat, m <= n, Tidy(s, m)
    PROVE  Tidy(s, n)
<1>1. Events \subseteq Nat
  BY PyInstanceAssumption DEF Events
<1>2. \A i \in 1..Len(s) : s[i] \in Events
  BY ElementOfSeq
<1>3. \A i \in 1..Len(s) : s[i] <= m
  BY DEF Tidy, Below
<1>4. ASSUME NEW i \in 1..Len(s) PROVE s[i] <= n
  <2>1. s[i] \in Nat /\ s[i] <= m
    BY <1>1, <1>2, <1>3
  <2> QED
    BY <2>1
<1> QED
  BY <1>4 DEF Tidy, Below

LEMMA ConcatTidy ==
    ASSUME NEW a \in Seq(Events), NEW b \in Seq(Events), NEW n \in Nat, Tidy(a \o b, n)
    PROVE  Tidy(a, n) /\ Tidy(b, n)
  BY ConcatSorted DEF Tidy

LEMMA TakenType ==
    ASSUME TypeOK
    PROVE  /\ Taken \in Seq(Events) /\ queue \in Seq(Events) /\ store.queue \in Seq(Events)
           /\ tracked \in Nat /\ Taken \o queue \in Seq(Events)
           /\ \A a \in Actors : act[a].batch \in Seq(Events)
<1>1. \A a \in Actors : act[a].batch \in Seq(Events)
  BY DEF TypeOK, Locals
<1>2. Taken \in Seq(Events)
  BY <1>1, EmptySeq DEF Taken, TypeOK
<1> QED
  BY <1>1, <1>2, ConcatProperties DEF TypeOK

LEMMA PersistedTidy ==
    ASSUME TypeOK, NEW s \in Seq(Events), NEW n, Tidy(s, n), Tidy(store.queue, n)
    PROVE  Tidy(Persisted(s).queue, n)
<1>1. Persisted(s).queue = s \/ Persisted(s).queue = store.queue
  BY DEF Persisted, TypeOK
<1> QED
  BY <1>1

(* A step that leaves the events where they are, while the client runs. *)
LEMMA OrderSame ==
    ASSUME OrderInv, queue' = queue, Taken' = Taken, tracked' = tracked,
           store'.queue = store.queue, boot' # "off"
    PROVE  OrderInv'
  BY DEF OrderInv, Tidy, Sorted, Below, Still

LEMMA OutsideTaken ==
    ASSUME Exclusive, Outside
    PROVE  Taken' = Taken
<1>1. sendLock' = sendLock /\ (sendLock # None => act'[sendLock] = act[sendLock])
  BY OutsideKeeps DEF Exclusive, Outside, TypeOK
<1> QED
  BY <1>1 DEF Taken

(* Something runs, so the client is not off. *)
LEMMA Runs ==
    ASSUME OrderInv, NEW a \in Actors, act[a].pc # "idle"
    PROVE  boot # "off"
  BY DEF OrderInv, Still

LEMMA OrderInit == Init => OrderInv
<1> SUFFICES ASSUME Init PROVE OrderInv
  OBVIOUS
<1>1. /\ Leftover \in Nat /\ store.queue = [e \in 1..Leftover |-> e] /\ tracked = Leftover
      /\ Len(store.queue) = Leftover
  <2>1. Leftover \in Nat /\ store.queue = [e \in 1..Leftover |-> e] /\ tracked = Leftover
    BY PyInstanceAssumption DEF Init, EmptyStore
  <2>2. store.queue \in [1..Leftover -> Nat]
    BY <2>1
  <2>3. store.queue \in Seq(Nat) /\ DOMAIN store.queue = 1..Leftover
    BY <2>1, <2>2, IsASeq
  <2> QED
    BY <2>1, <2>3, LenProperties
<1>2. Tidy(store.queue, tracked)
  BY <1>1 DEF Tidy, Sorted, Below
<1>3. Taken = <<>> /\ queue = <<>> /\ <<>> \o <<>> = <<>>
  BY ConcatEmptySeq, EmptySeq DEF Init, Taken
<1>4. Still
  BY NoCallType DEF Init, Still
<1> QED
  BY <1>2, <1>3, <1>4, EmptyTidy DEF OrderInv

LEMMA LoadOrder == ASSUME Exclusive, Exclusive', OrderInv, Load PROVE OrderInv'
<1>1. /\ boot = "off" /\ boot' = "on" /\ queue = <<>> /\ sendLock' = None /\ tracked' = tracked
      /\ store'.queue = store.queue
      /\ queue' = IF PersistQueue THEN Newest(store.queue \o queue) ELSE queue
  BY DEF Load, OrderInv, Still, Exclusive, TypeOK
<1>2. /\ store.queue \in Seq(Events) /\ store.queue \o <<>> = store.queue /\ tracked \in Nat
      /\ queue' \in Seq(Events) /\ Tidy(store.queue, tracked)
  BY TakenType, ConcatEmptySeq DEF Exclusive, OrderInv, TypeOK
<1>3. Tidy(queue', tracked)
  BY <1>1, <1>2, NewestSorted, EmptyTidy DEF Tidy
<1>4. Taken' = <<>> /\ <<>> \o queue' = queue'
  BY <1>1, <1>2, ConcatEmptySeq DEF Taken
<1> QED
  BY <1>1, <1>2, <1>3, <1>4 DEF OrderInv, Still

(* track adds the newest event, and a trim takes the oldest of the queue.  *)
LEMMA TrackTidy ==
    ASSUME NEW a \in Seq(Events), NEW s \in Seq(Events), NEW m \in Nat, NEW e \in Events,
           m < e, Tidy(a \o s, m)
    PROVE  /\ Newest(Append(s, e)) \in Seq(Events)
           /\ Tidy(a \o Newest(Append(s, e)), e)
<1> DEFINE grown == Append(s, e)
<1>1. e \in Nat /\ Events \subseteq Nat
  BY PyInstanceAssumption DEF Events
<1>2. /\ grown \in Seq(Events) /\ Len(s) \in Nat /\ Len(grown) = Len(s) + 1
      /\ \A i \in 1..Len(s) : grown[i] = s[i]
      /\ grown[Len(s) + 1] = e
  BY AppendProperties, LenProperties
<1> HIDE DEF grown
<1>3. \A i \in 1..Len(grown) : i \in 1..Len(s) \/ (i = Len(s) + 1 /\ grown[i] = e)
  BY <1>2
<1>4. /\ Sorted(a) /\ Sorted(s) /\ Below(a, m) /\ Below(s, m)
      /\ \A i \in 1..Len(a), j \in 1..Len(s) : a[i] < s[j]
  BY ConcatSorted DEF Tidy
<1>5. /\ \A i \in 1..Len(s) : s[i] \in Nat /\ s[i] < e
      /\ \A i \in 1..Len(a) : a[i] \in Nat /\ a[i] < e
  <2>1. /\ \A i \in 1..Len(s) : s[i] \in Nat
        /\ \A i \in 1..Len(a) : a[i] \in Nat
    BY <1>1, ElementOfSeq
  <2> QED
    BY <1>1, <1>4, <2>1 DEF Below
<1>6. Sorted(grown)
  <2> SUFFICES ASSUME NEW i \in 1..Len(grown), NEW j \in 1..Len(grown), i < j
               PROVE  grown[i] < grown[j]
    BY DEF Sorted
  <2>1. CASE j \in 1..Len(s)
    BY <2>1, <1>2, <1>4 DEF Sorted
  <2>2. CASE j = Len(s) + 1
    BY <2>2, <1>2, <1>5
  <2> QED
    BY <2>1, <2>2, <1>3
<1>7. Below(grown, e)
  BY <1>1, <1>2, <1>3, <1>5 DEF Below
<1>8. Below(a, e)
  BY <1>1, <1>5 DEF Below
<1>9. \A i \in 1..Len(a), j \in 1..Len(grown) : a[i] < grown[j]
  BY <1>2, <1>3, <1>4, <1>5
<1>10. /\ Newest(grown) \in Seq(Events) /\ Sorted(Newest(grown)) /\ Below(Newest(grown), e)
       /\ \A i \in 1..Len(a), j \in 1..Len(Newest(grown)) : a[i] < Newest(grown)[j]
  <2>1. /\ Newest(grown) \in Seq(Events) /\ Sorted(Newest(grown)) /\ Below(Newest(grown), e)
        /\ \A k \in Nat : (\A i \in 1..Len(grown) : k < grown[i])
                            => \A i \in 1..Len(Newest(grown)) : k < Newest(grown)[i]
    BY <1>1, <1>2, <1>6, <1>7, NewestSorted
  <2>2. ASSUME NEW i \in 1..Len(a)
        PROVE  \A j \in 1..Len(Newest(grown)) : a[i] < Newest(grown)[j]
    <3>1. a[i] \in Nat /\ \A j \in 1..Len(grown) : a[i] < grown[j]
      BY <1>5, <1>9
    <3> QED
      BY <2>1, <3>1
  <2> QED
    BY <2>1, <2>2
<1>11. Tidy(a \o Newest(grown), e)
  BY <1>1, <1>4, <1>8, <1>10, ConcatSorted DEF Tidy
<1> QED
  BY <1>10, <1>11 DEF grown

LEMMA TrackOrder ==
    ASSUME Exclusive, OrderInv, NEW t \in Threads, Track(t)
    PROVE  OrderInv'
<1> DEFINE e == tracked + 1
<1>1. /\ TypeOK /\ OneDrain /\ tracked \in Nat /\ e \in Events /\ e \in Nat /\ tracked < e
  BY PyInstanceAssumption DEF Exclusive, TypeOK, Track, Events
<1>2. /\ boot = "on" /\ boot' = boot /\ tracked' = e /\ queue' = Newest(Append(queue, e))
      /\ store' = Persisted(queue')
  BY DEF Track, Starts
<1>3. Taken' = Taken
  BY <1>1, TrackSteps, OutsideTaken
<1>4. /\ Taken \in Seq(Events) /\ queue \in Seq(Events) /\ store.queue \in Seq(Events)
      /\ Tidy(Taken \o queue, tracked) /\ Tidy(store.queue, tracked)
  BY <1>1, TakenType DEF OrderInv
<1> HIDE DEF e
<1>5. queue' \in Seq(Events) /\ Tidy(Taken \o queue', e)
  BY <1>1, <1>2, <1>4, TrackTidy
<1>6. Tidy(queue', e)
  BY <1>1, <1>4, <1>5, ConcatTidy
<1>7. Tidy(store.queue, e)
  BY <1>1, <1>4, LaterTidy
<1>8. Tidy(store'.queue, e)
  BY <1>1, <1>2, <1>5, <1>6, <1>7, PersistedTidy
<1> QED
  BY <1>2, <1>3, <1>5, <1>8 DEF OrderInv, Still

LEMMA TrackSingleOrder ==
    ASSUME Exclusive, OrderInv, NEW t \in Threads, TrackSingle(t)
    PROVE  OrderInv'
<1>1. /\ TypeOK /\ OneDrain /\ tracked \in Nat /\ tracked' \in Nat /\ tracked <= tracked'
      /\ boot = "on" /\ boot' = boot /\ queue' = queue /\ store' = store
  BY DEF Exclusive, TypeOK, TrackSingle, Starts
<1>2. Taken' = Taken
  BY <1>1, TrackSingleSteps, OutsideTaken
<1>3. /\ Taken \o queue \in Seq(Events) /\ store.queue \in Seq(Events)
      /\ Tidy(Taken \o queue, tracked) /\ Tidy(store.queue, tracked)
  BY <1>1, TakenType DEF OrderInv
<1>4. Tidy(Taken \o queue, tracked') /\ Tidy(store.queue, tracked')
  BY <1>1, <1>3, LaterTidy
<1> QED
  BY <1>1, <1>2, <1>4 DEF OrderInv, Still

LEMMA CallOrder ==
    ASSUME Exclusive, OrderInv, NEW t \in Threads, CallOf(t)
    PROVE  OrderInv'
<1>1. TypeOK /\ OneDrain /\ EmptyHands /\ t \in Actors
  BY Kinds DEF Exclusive
<1>2. CASE Track(t) \/ TrackSingle(t)
  BY <1>2, TrackOrder, TrackSingleOrder
<1>3. CASE ~Track(t) /\ ~TrackSingle(t)
  <2>1. Taken' = Taken
    BY <1>1, CallSteps, OutsideTaken
  <2>2. queue' = queue /\ tracked' = tracked /\ store'.queue = store.queue
    BY <1>1, <1>3 DEF CallOf, TrackSchedules, Identify, Reset, Flush, Shutdown, Calls, Stops,
                      Remember, RememberFlag, StoreUser, StoreFlag, events, TypeOK
  <2>3. boot' # "off"
    <3>1. CASE act[t].pc = "idle"
      BY <1>3, <3>1 DEF CallOf, TrackSchedules, Identify, Reset, Flush, Shutdown, Calls, Stops,
                        Starts, At, Remember, RememberFlag, StoreUser, StoreFlag
    <3>2. CASE act[t].pc # "idle"
      <4>1. boot # "off"
        BY <1>1, <3>2, Runs
      <4> QED
        BY <1>3, <4>1 DEF CallOf, TrackSchedules, Identify, Reset, Flush, Shutdown, Calls,
                          Stops, Remember, RememberFlag, StoreUser, StoreFlag
    <3> QED
      BY <3>1, <3>2
  <2> QED
    BY <2>1, <2>2, <2>3, OrderSame
<1> QED
  BY <1>2, <1>3

LEMMA TimerOrder ==
    ASSUME Exclusive, OrderInv, NEW i \in Timers, TimerFires(i) \/ TimerRuns(i)
    PROVE  OrderInv'
<1>1. TypeOK /\ OneDrain /\ i \in Actors /\ act[i].pc # "idle"
  BY Kinds DEF Exclusive, TimerFires, TimerRuns, At
<1>2. Taken' = Taken
  BY <1>1, TimerSteps, OutsideTaken
<1>3. /\ boot' = boot /\ queue' = queue /\ tracked' = tracked /\ store' = store
  BY DEF TimerFires, TimerRuns, events
<1>4. boot # "off"
  BY <1>1, Runs
<1> QED
  BY <1>2, <1>3, <1>4, OrderSame

-----------------------------------------------------------------------------
(* The order, through the steps of a flush *)

LEMMA AfterFlushRuns ==
    ASSUME NEW a \in Actors, NEW ok, AfterFlush(a, ok), boot # "off"
    PROVE  boot' # "off"
  BY DEF AfterFlush

LEMMA TakesOrder ==
    ASSUME Exclusive, OrderInv, NEW a \in Actors, FlushTakes(a)
    PROVE  OrderInv'
<1>1. /\ TypeOK /\ ActsType /\ act[a].pc = "take" /\ sendLock = a /\ act[a].batch = <<>>
      /\ store' = store /\ tracked' = tracked
  BY DEF Exclusive, TypeOK, ActsType, FlushTakes, At, OneDrain, DrainPlaces, EmptyHands, Empty
<1>2. /\ a # None /\ queue \in Seq(Events) /\ Taken = <<>> /\ <<>> \o queue = queue
      /\ boot # "off"
  BY <1>1, TakenType, ConcatEmptySeq, Runs, Kinds DEF Taken
<1>3. CASE queue = <<>>
  <2>1. AfterFlush(a, TRUE) /\ sendLock' = None /\ queue' = queue
    BY <1>3 DEF FlushTakes, Leaves
  <2>2. Taken' = Taken
    BY <1>2, <2>1 DEF Taken
  <2> QED
    BY <1>1, <1>2, <2>1, <2>2, AfterFlushRuns, OrderSame
<1>4. CASE queue # <<>>
  <2>1. /\ queue' = AfterN(queue, MaxBatch) /\ sendLock' = a /\ boot' = boot
        /\ act'[a].batch = FirstN(queue, MaxBatch)
    <3>1. /\ queue' = AfterN(queue, MaxBatch) /\ UNCHANGED <<boot, sendLock>>
          /\ act' = [act EXCEPT ![a].pc = "sent", ![a].batch = FirstN(queue, MaxBatch),
                                ![a].attempt = 0]
      BY <1>4 DEF FlushTakes
    <3>2. act[a] \in Locals
      BY <1>1 DEF ActsType
    <3> DEFINE b == FirstN(queue, MaxBatch)
               l == [act[a] EXCEPT !.pc = "sent", !.batch = b, !.attempt = 0]
    <3>3. act' = [act EXCEPT ![a] = l]
      BY <1>1, <3>1 DEF ActsType
    <3> HIDE DEF b
    <3>4. l.batch = b
      BY <3>2 DEF Locals
    <3>5. act'[a] = l
      BY <1>1, <3>3 DEF ActsType
    <3>6. act'[a].batch = b
      BY <3>4, <3>5
    <3> QED
      BY <1>1, <3>1, <3>6 DEF b
  <2>2. Taken' \o queue' = queue
    BY <1>2, <2>1, SplitProps, PyConfigAssumption DEF Taken
  <2> QED
    BY <1>1, <1>2, <2>1, <2>2 DEF OrderInv, Still
<1> QED
  BY <1>3, <1>4

(* The batch is out of the hands of the flush. *)
LEMMA HandsOver ==
    ASSUME Exclusive, OrderInv, NEW a \in Actors, sendLock = a, boot' # "off",
           tracked' = tracked, queue' = queue \/ queue' = Taken \o queue \/ queue' = <<>>,
           store' = Persisted(queue') \/ store' = store,
           Taken' = <<>>
    PROVE  OrderInv'
<1>1. /\ TypeOK /\ Taken \in Seq(Events) /\ queue \in Seq(Events) /\ tracked \in Nat
      /\ Taken \o queue \in Seq(Events)
      /\ Tidy(Taken \o queue, tracked) /\ Tidy(store.queue, tracked)
  BY TakenType DEF Exclusive, OrderInv
<1>2. queue' \in Seq(Events) /\ Tidy(queue', tracked)
  BY <1>1, ConcatTidy, EmptyTidy, EmptySeq
<1>3. Tidy(store'.queue, tracked)
  BY <1>1, <1>2, PersistedTidy
<1>4. <<>> \o queue' = queue'
  BY <1>2, ConcatEmptySeq
<1> QED
  BY <1>2, <1>3, <1>4 DEF OrderInv, Still

LEMMA LeavesOrder ==
    ASSUME Exclusive, OrderInv, NEW a \in Actors, NEW ok, sendLock = a, Leaves(a, ok),
           UNCHANGED <<queue, store, tracked>>
    PROVE  OrderInv'
<1>1. act[a].pc # "idle"
  BY Kinds DEF Exclusive, OneDrain, DrainPlaces
<1>2. boot' # "off"
  BY <1>1, Runs, AfterFlushRuns DEF Leaves
<1>3. Taken' = <<>>
  BY DEF Leaves, Taken
<1> QED
  BY <1>2, <1>3, HandsOver

LEMMA CatchesOrder ==
    ASSUME Exclusive, OrderInv, NEW a \in Actors, FlushCatches(a)
    PROVE  OrderInv'
<1>1. /\ TypeOK /\ ActsType /\ sendLock = a /\ a # None /\ timer \in Timers \cup {None}
      /\ act[a] \in Locals /\ act[a].pc \in {"transient", "refused"}
  BY Kinds DEF Exclusive, TypeOK, ActsType, FlushCatches, At, OneDrain, DrainPlaces
<1> DEFINE failed == [act EXCEPT ![a].pc = "failed", ![a].batch = <<>>]
           l == [act[a] EXCEPT !.pc = "failed", !.batch = <<>>]
<1>2. failed = [act EXCEPT ![a] = l]
  BY <1>1 DEF ActsType
<1>3. l \in Locals /\ l.batch = <<>>
  BY <1>1, EmptySeq DEF Locals, Places
<1>4. failed \in [Actors -> Locals] /\ failed[a].batch = <<>>
  BY <1>1, <1>2, <1>3, OneType
<1>5. /\ Taken = act[a].batch
      /\ queue' = queue \/ queue' = Taken \o queue \/ queue' = <<>>
      /\ act' = failed \/ Schedule(queue', failed)
  BY <1>1 DEF FlushCatches, Requeued, Taken
<1> HIDE DEF failed, l
<1>6. act'[a].batch = <<>>
  BY <1>1, <1>4, <1>5, ScheduleType
<1>7. sendLock' = a /\ boot' = boot /\ tracked' = tracked /\ store' = Persisted(queue')
  BY <1>1 DEF FlushCatches
<1>8. Taken' = <<>>
  BY <1>1, <1>6, <1>7 DEF Taken
<1>9. boot # "off"
  BY <1>1, Runs
<1> QED
  BY <1>1, <1>5, <1>7, <1>8, <1>9, HandsOver

LEMMA PersistsOrder ==
    ASSUME Exclusive, OrderInv, NEW a \in Actors, FlushPersists(a)
    PROVE  OrderInv'
<1>1. /\ ActsType /\ sendLock = a /\ a # None /\ act[a].pc = "persist"
  BY Kinds DEF Exclusive, TypeOK, ActsType, FlushPersists, At, OneDrain, DrainPlaces
<1>2. /\ store' = Persisted(queue') /\ queue' = queue /\ tracked' = tracked /\ boot' = boot
      /\ sendLock' = a /\ act'[a].batch = <<>>
  BY <1>1 DEF FlushPersists, ActsType
<1>3. Taken' = <<>>
  BY <1>1, <1>2 DEF Taken
<1> QED
  BY <1>1, <1>2, <1>3, Runs, HandsOver

(* The thread goes on with the batch it had, and nothing else moves. *)
LEMMA BatchStays ==
    ASSUME Exclusive, OrderInv, NEW a \in Actors, act[a].pc # "idle",
           act'[a].batch = act[a].batch, \A b \in Actors \ {a} : act'[b] = act[b],
           UNCHANGED <<boot, sendLock, store, events>>
    PROVE  OrderInv'
<1>1. sendLock \in Actors \cup {None} /\ boot # "off"
  BY Runs DEF Exclusive, TypeOK
<1>2. Taken' = Taken
  BY <1>1 DEF Taken
<1> QED
  BY <1>1, <1>2, OrderSame DEF events

LEMMA RequestOrder ==
    ASSUME Exclusive, OrderInv, NEW a \in Actors,
           Retry(a) \/ Accept(a) \/ Fail(a, TRUE) \/ Fail(a, FALSE) \/ Break(a)
    PROVE  OrderInv'
<1>1. /\ TypeOK /\ ActsType /\ act[a].pc = "sent" /\ act[a].pc # "idle" /\ act[a] \in Locals
      /\ sendLock \in Actors \cup {None}
  BY DEF Exclusive, TypeOK, ActsType, Retry, Accept, Fail, Break, At
<1>2. CASE Retry(a)
  <2>1. /\ act'[a].batch = act[a].batch /\ \A b \in Actors \ {a} : act'[b] = act[b]
        /\ UNCHANGED <<boot, sendLock, store, events>>
    BY <1>1, <1>2 DEF Retry, ActsType, Locals
  <2> QED
    BY <1>1, <2>1, BatchStays
<1>3. CASE sendLock # a /\ ~Retry(a)
  <2>1. \E how : SettlesAlone(a, how)
    BY <1>3 DEF Accept, Fail, Break, Draining
  <2>2. Taken' = Taken /\ UNCHANGED <<boot, queue, store, tracked>>
    BY <1>1, <1>3, <2>1 DEF SettlesAlone, Taken, ActsType
  <2> QED
    BY <1>1, <2>2, Runs, OrderSame
<1>4. CASE sendLock = a /\ ~Retry(a) /\ ~Break(a)
  <2>1. /\ \E where \in {"persist", "transient", "refused"} : act' = Moved(a, where)
        /\ UNCHANGED <<boot, sendLock, store, events>>
    BY <1>4 DEF Accept, Fail, Draining
  <2>2. {"persist", "transient", "refused"} \subseteq Places
    BY DEF Places
  <2>3. act'[a].batch = act[a].batch /\ \A b \in Actors \ {a} : act'[b] = act[b]
    BY <1>1, <2>1, <2>2, MovedType
  <2> QED
    BY <1>1, <2>1, <2>3, BatchStays
<1>5. CASE sendLock = a /\ Break(a)
  <2>1. Leaves(a, FALSE) /\ UNCHANGED <<queue, store, tracked>>
    BY <1>5 DEF Break, Draining
  <2> QED
    BY <1>5, <2>1, LeavesOrder
<1> QED
  BY <1>2, <1>3, <1>4, <1>5

LEMMA FlushOrder ==
    ASSUME Exclusive, OrderInv, NEW a \in Actors, FlushOf(a)
    PROVE  OrderInv'
<1>1. TypeOK /\ OneDrain /\ EmptyHands /\ ActsType
  BY DEF Exclusive, TypeOK, ActsType
<1>2. CASE FlushCancels(a)
  <2>1. Taken' = Taken
    BY <1>1, <1>2, CancelSteps, OutsideTaken
  <2>2. act[a].pc # "idle" /\ UNCHANGED <<boot, store, events>>
    BY <1>2 DEF FlushCancels, At
  <2> QED
    BY <2>1, <2>2, Runs, OrderSame DEF events
<1>3. CASE FlushEnters(a)
  <2>1. /\ act[a].pc = "lock" /\ act[a].pc # "idle" /\ sendLock = None /\ sendLock' = a
        /\ a # None /\ act' = Moved(a, "take") /\ UNCHANGED <<boot, store, events>>
    BY <1>3, Kinds DEF FlushEnters, At
  <2>2. act'[a].batch = <<>>
    <3>1. act[a].batch = <<>> /\ "take" \in Places
      BY <1>1, <2>1 DEF EmptyHands, Empty, Places
    <3> QED
      BY <1>1, <2>1, <3>1, MovedType
  <2>3. Taken' = Taken
    BY <2>1, <2>2 DEF Taken
  <2> QED
    BY <2>1, <2>3, Runs, OrderSame DEF events
<1>4. CASE FlushTakes(a) \/ FlushPersists(a) \/ FlushCatches(a)
  BY <1>4, TakesOrder, PersistsOrder, CatchesOrder
<1>5. CASE FlushGivesUp(a)
  <2>1. /\ sendLock = a /\ Leaves(a, ~ThrowOnError) /\ UNCHANGED <<queue, store, tracked>>
    BY <1>1, <1>5 DEF FlushGivesUp, At, OneDrain, DrainPlaces
  <2> QED
    BY <2>1, LeavesOrder
<1>6. CASE Retry(a) \/ Accept(a) \/ Fail(a, TRUE) \/ Fail(a, FALSE) \/ Break(a)
  BY <1>6, RequestOrder
<1> QED
  BY <1>2, <1>3, <1>4, <1>5, <1>6 DEF FlushOf

LEMMA CrashOrder == ASSUME Exclusive, OrderInv, Crash PROVE OrderInv'
<1>1. /\ act' = [a \in Actors |-> NoCall] /\ queue' = <<>> /\ sendLock' = None
      /\ store' = store /\ tracked' = tracked
  BY DEF Crash
<1>2. Taken' = <<>> /\ <<>> \o <<>> = <<>>
  BY <1>1, ConcatEmptySeq, EmptySeq DEF Taken
<1>3. Still'
  BY <1>1, NoCallType DEF Still
<1> QED
  BY <1>1, <1>2, <1>3, EmptyTidy DEF OrderInv

LEMMA OrderNext == ASSUME Exclusive, Exclusive', OrderInv, [Next]_vars PROVE OrderInv'
<1>1. CASE Load
  BY <1>1, LoadOrder
<1>2. ASSUME NEW t \in Threads, CallOf(t) PROVE OrderInv'
  BY <1>2, CallOrder
<1>3. ASSUME NEW i \in Timers, TimerFires(i) \/ TimerRuns(i) PROVE OrderInv'
  BY <1>3, TimerOrder
<1>4. ASSUME NEW a \in Actors, FlushOf(a) PROVE OrderInv'
  BY <1>4, FlushOrder
<1>5. CASE Crash
  BY <1>5, CrashOrder
<1>6. CASE UNCHANGED vars
  BY <1>6 DEF vars, OrderInv, Tidy, Sorted, Below, Taken, Still
<1> QED
  BY <1>1, <1>2, <1>3, <1>4, <1>5, <1>6 DEF Next

(* The events a client holds stay in the order of the track calls, without *)
(* duplicates, for every number of threads, timers, events and queue and   *)
(* batch sizes: a failed batch comes back in front of what was tracked     *)
(* meanwhile, a trim takes the oldest, and so does a restart.              *)
THEOREM OrderKept == Spec => []QueueOrder
<1>1. Exclusive /\ OrderInv => QueueOrder
  <2> SUFFICES ASSUME Exclusive, OrderInv PROVE Sorted(Held)
    BY DEF QueueOrder
  <2>1. queue \in Seq(Events) /\ <<>> \o queue = queue
    BY TakenType, ConcatEmptySeq DEF Exclusive
  <2>2. Held = Taken \o queue
    BY <2>1 DEF Held, Taken
  <2> QED
    BY <2>2 DEF OrderInv, Tidy
<1>2. Spec => []OrderInv
  BY OrderInit, OrderNext, ExclusiveInvariant, PTL DEF Spec
<1> QED
  BY <1>1, <1>2, ExclusiveInvariant, PTL

-----------------------------------------------------------------------------
(* Sequences as sets *)

LEMMA Members ==
    ASSUME NEW s \in Seq(Events)
    PROVE  /\ ToSet(s) \subseteq Events
           /\ \A e : e \in ToSet(s) <=> \E i \in 1..Len(s) : s[i] = e
           /\ ToSet(s) = {} <=> s = <<>>
<1>1. DOMAIN s = 1..Len(s) /\ Len(s) \in Nat /\ \A i \in 1..Len(s) : s[i] \in Events
  BY LenProperties, ElementOfSeq
<1>2. s # <<>> => 1 \in 1..Len(s)
  BY <1>1, EmptySeq
<1>3. s = <<>> => 1..Len(s) = {}
  BY <1>1
<1> QED
  BY <1>1, <1>2, <1>3 DEF ToSet

LEMMA MembersConcat ==
    ASSUME NEW a \in Seq(Events), NEW b \in Seq(Events)
    PROVE  ToSet(a \o b) = ToSet(a) \cup ToSet(b)
<1> DEFINE c == a \o b
<1>1. /\ c \in Seq(Events) /\ Len(a) \in Nat /\ Len(b) \in Nat /\ Len(c) = Len(a) + Len(b)
      /\ \A i \in 1..Len(a) : c[i] = a[i]
      /\ \A j \in 1..Len(b) : c[Len(a) + j] = b[j]
  BY ConcatProperties, LenProperties
<1>2. \A i \in 1..Len(c) : i \in 1..Len(a) \/ (i - Len(a) \in 1..Len(b) /\ c[i] = b[i - Len(a)])
  BY <1>1
<1>3. \A i \in 1..Len(a) : i \in 1..Len(c)
  BY <1>1
<1>4. \A j \in 1..Len(b) : Len(a) + j \in 1..Len(c)
  BY <1>1
<1> HIDE DEF c
<1>5. \A e : e \in ToSet(c) <=> e \in ToSet(a) \/ e \in ToSet(b)
  <2> TAKE e
  <2>1. ASSUME e \in ToSet(c) PROVE e \in ToSet(a) \/ e \in ToSet(b)
    <3>1. PICK i \in 1..Len(c) : c[i] = e
      BY <1>1, <2>1, Members
    <3>2. (i \in 1..Len(a) /\ a[i] = e) \/ (i - Len(a) \in 1..Len(b) /\ b[i - Len(a)] = e)
      BY <1>1, <1>2, <3>1
    <3> QED
      BY <3>2, Members
  <2>2. ASSUME e \in ToSet(a) PROVE e \in ToSet(c)
    <3>1. PICK i \in 1..Len(a) : a[i] = e
      BY <2>2, Members
    <3>2. i \in 1..Len(c) /\ c[i] = e
      BY <1>1, <1>3, <3>1
    <3> QED
      BY <1>1, <3>2, Members
  <2>3. ASSUME e \in ToSet(b) PROVE e \in ToSet(c)
    <3>1. PICK j \in 1..Len(b) : b[j] = e
      BY <2>3, Members
    <3>2. Len(a) + j \in 1..Len(c) /\ c[Len(a) + j] = e
      BY <1>1, <1>4, <3>1
    <3> QED
      BY <1>1, <3>2, Members
  <2> QED
    BY <2>1, <2>2, <2>3
<1> QED
  BY <1>5 DEF c

(* A trim keeps the newest events, and the last one among them.            *)
LEMMA MembersNewest ==
    ASSUME NEW s \in Seq(Events)
    PROVE  /\ Newest(s) \in Seq(Events)
           /\ ToSet(Newest(s)) \subseteq ToSet(s)
           /\ s # <<>> => s[Len(s)] \in ToSet(Newest(s))
           /\ Len(s) <= MaxQueueSize => ToSet(Newest(s)) = ToSet(s)
<1> DEFINE n == Len(s) - Smaller(MaxQueueSize, Len(s))
<1>1. /\ Len(s) \in Nat /\ n \in Nat /\ n <= Len(s) /\ (Len(s) # 0 => n < Len(s))
      /\ Len(s) <= MaxQueueSize => n = 0
  BY LenProperties, PyConfigAssumption DEF Smaller
<1>2. Len(s) - n = Smaller(MaxQueueSize, Len(s))
  BY <1>1, PyConfigAssumption DEF Smaller
<1>3. /\ Newest(s) \in Seq(Events) /\ Len(Newest(s)) = Len(s) - n
      /\ \A i \in 1..Len(Newest(s)) : Newest(s)[i] = s[i + n]
  BY <1>2, NewestProps
<1> HIDE DEF n
<1>4. ToSet(Newest(s)) \subseteq ToSet(s)
  <2> SUFFICES ASSUME NEW e \in ToSet(Newest(s)) PROVE e \in ToSet(s)
    OBVIOUS
  <2>1. PICK i \in 1..Len(Newest(s)) : Newest(s)[i] = e
    BY <1>3, Members
  <2>2. i + n \in 1..Len(s) /\ s[i + n] = e
    BY <1>1, <1>3, <2>1
  <2> QED
    BY <2>2, Members
<1>5. ASSUME NEW j \in 1..Len(s), j > n PROVE s[j] \in ToSet(Newest(s))
  <2>1. j - n \in 1..Len(Newest(s)) /\ Newest(s)[j - n] = s[j]
    BY <1>1, <1>3, <1>5
  <2> QED
    BY <1>3, <2>1, Members
<1>6. s # <<>> => s[Len(s)] \in ToSet(Newest(s))
  BY <1>1, <1>5, EmptySeq
<1>7. ASSUME Len(s) <= MaxQueueSize, NEW e \in ToSet(s) PROVE e \in ToSet(Newest(s))
  <2>1. PICK j \in 1..Len(s) : s[j] = e
    BY Members
  <2>2. j > n
    BY <1>1, <1>7, <2>1
  <2> QED
    BY <1>5, <2>1, <2>2
<1> QED
  BY <1>3, <1>4, <1>6, <1>7

-----------------------------------------------------------------------------
(* Whose hands the events are in *)

Hand(a) == ToSet(act[a].batch)
Has(e)  == e \in ToSet(queue) \/ \E a \in Actors : e \in Hand(a)
Kept    == ToSet(Newest(store.queue))      \* what the next start will find

(* A thread holds events only while it sends or settles them. *)
Sending  == {"sent", "persist", "transient", "refused"}
Handless == \A a \in Actors : act[a].pc \notin Sending => act[a].batch = <<>>

(* Nobody holds what another or the queue holds, and no request outside a  *)
(* flush sends an event of the stored queue.                               *)
Apart ==
    \A a \in Actors :
        /\ Hand(a) \cap ToSet(queue) = {}
        /\ \A b \in Actors \ {a} : Hand(a) \cap Hand(b) = {}
        /\ a # sendLock => Hand(a) \cap Kept = {}

(* What the next start would find still is to be sent, or was lost only    *)
(* from memory.                                                            *)
Backed ==
    /\ boot # "off" => \A e \in Kept : fate[e] \in {"pending", "dropped"}
    /\ ~PersistQueue => store.queue = <<>>

Fresh == \A e \in Events : e > tracked => fate[e] = "new"

AccountInv == EventsAccounted /\ Fresh /\ Handless /\ Apart /\ Backed

LEMMA HandNow ==
    \A e : e \in InHand <=> IF boot = "off" THEN e \in Kept ELSE Has(e)
  BY DEF InHand, Kept, Has, Hand

LEMMA HandNext ==
    \A e : e \in InHand' <=> IF boot' = "off" THEN e \in Kept' ELSE Has(e)'
  BY DEF InHand, Kept, Has, Hand

LEMMA Subsets ==
    ASSUME TypeOK
    PROVE  /\ ToSet(queue) \subseteq Events /\ Kept \subseteq Events
           /\ \A a \in Actors : Hand(a) \subseteq Events
           /\ \A e : Has(e) => e \in Events
<1>1. ToSet(queue) \subseteq Events /\ Kept \subseteq Events
  BY TakenType, MembersNewest, Members DEF Kept
<1>2. \A a \in Actors : Hand(a) \subseteq Events
  BY TakenType, Members DEF Hand
<1> QED
  BY <1>1, <1>2 DEF Has

(* While the client runs, what anybody holds is pending and not new.       *)
LEMMA HeldPending ==
    ASSUME TypeOK, AccountInv, boot # "off"
    PROVE  /\ \A e : Has(e) <=> e \in Events /\ fate[e] = "pending"
           /\ \A e \in Events : Has(e) \/ e \in Kept => e <= tracked
<1>1. \A e : Has(e) <=> e \in Events /\ fate[e] = "pending"
  BY HandNow, Subsets DEF AccountInv, EventsAccounted
<1>2. ASSUME NEW e \in Events, Has(e) \/ e \in Kept PROVE e <= tracked
  <2>1. fate[e] # "new"
    BY <1>1, <1>2 DEF AccountInv, Backed
  <2>2. e \in Nat /\ tracked \in Nat
    BY PyInstanceAssumption DEF Events, TypeOK
  <2> QED
    BY <2>1, <2>2 DEF AccountInv, Fresh
<1> QED
  BY <1>1, <1>2

(* A step while the client runs: some events are born, some are gone.      *)
LEMMA Accounts ==
    ASSUME TypeOK, TypeOK', AccountInv, boot # "off", boot' # "off",
           NEW born \in SUBSET Events, NEW gone \in SUBSET Events, NEW how \in Fates \ {"pending"},
           \A e \in Events : fate'[e] = IF e \in born THEN "pending"
                                        ELSE IF e \in gone THEN how ELSE fate[e],
           \A e \in born : e <= tracked', tracked <= tracked',
           \A e \in gone : Has(e),
           \A e \in Events : Has(e)' <=> e \in born \/ (Has(e) /\ e \notin gone),
           \A e \in Kept' : e \in Kept \/ Has(e)',
           how = "dropped" \/ gone \cap Kept' = {},
           ~PersistQueue => store'.queue = <<>>
    PROVE  EventsAccounted' /\ Fresh' /\ Backed'
<1>1. /\ \A e : Has(e) <=> e \in Events /\ fate[e] = "pending"
      /\ \A e \in Events : Has(e) \/ e \in Kept => e <= tracked
  BY HeldPending
<1>2. EventsAccounted'
  <2> SUFFICES ASSUME NEW e \in Events PROVE fate'[e] = "pending" <=> e \in InHand'
    BY DEF EventsAccounted
  <2>1. e \in InHand' <=> Has(e)'
    BY HandNext
  <2>2. fate'[e] = "pending" <=> e \in born \/ (fate[e] = "pending" /\ e \notin gone)
    OBVIOUS
  <2> QED
    BY <1>1, <2>1, <2>2
<1>3. Fresh'
  <2> SUFFICES ASSUME NEW e \in Events, e > tracked' PROVE fate'[e] = "new"
    BY DEF Fresh
  <2>1. e \in Nat /\ tracked \in Nat /\ tracked' \in Nat
    BY PyInstanceAssumption DEF Events, TypeOK
  <2>2. e > tracked /\ e \notin born /\ e \notin gone
    BY <1>1, <2>1
  <2> QED
    BY <2>2 DEF AccountInv, Fresh
<1>4. Backed'
  <2> SUFFICES ASSUME NEW e \in Kept' PROVE fate'[e] \in {"pending", "dropped"}
    BY DEF Backed
  <2>1. e \in Events
    <3>1. store'.queue \in Seq(Events)
      BY DEF TypeOK
    <3> QED
      BY <3>1, MembersNewest, Members DEF Kept
  <2>2. CASE e \in born
    BY <2>1, <2>2
  <2>3. CASE e \in gone /\ e \notin born
    BY <2>1, <2>3
  <2>4. CASE e \notin gone /\ e \notin born
    <3>1. fate[e] \in {"pending", "dropped"}
      BY <1>1, <2>1, <2>4 DEF AccountInv, Backed
    <3> QED
      BY <2>1, <2>4, <3>1
  <2> QED
    BY <2>2, <2>3, <2>4
<1> QED
  BY <1>2, <1>3, <1>4

(* A step that gives no event a new outcome. *)
LEMMA AccountsSame ==
    ASSUME TypeOK, TypeOK', AccountInv, boot # "off", boot' # "off", UNCHANGED <<fate, tracked>>,
           \A e \in Events : Has(e)' <=> Has(e),
           \A e \in Kept' : e \in Kept \/ Has(e)',
           ~PersistQueue => store'.queue = <<>>
    PROVE  EventsAccounted' /\ Fresh' /\ Backed'
<1> DEFINE none == {}
<1>1. "new" \in Fates \ {"pending"} /\ tracked \in Nat
  BY DEF Fates, TypeOK
<1>2. /\ none \in SUBSET Events
      /\ \A e \in Events : fate'[e] = IF e \in none THEN "pending"
                                      ELSE IF e \in none THEN "new" ELSE fate[e]
      /\ \A e \in none : e <= tracked'
      /\ tracked <= tracked'
      /\ \A e \in none : Has(e)
      /\ \A e \in Events : Has(e)' <=> e \in none \/ (Has(e) /\ e \notin none)
      /\ none \cap Kept' = {}
  BY <1>1
<1> HIDE DEF none
<1> QED
  BY <1>1, <1>2, Accounts

(* A thread keeps what it holds. *)
Calm(b) ==
    \/ act'[b] = act[b]
    \/ /\ act'[b].batch = act[b].batch
       /\ act[b].pc \notin Sending \/ act'[b].pc \in Sending

LEMMA CalmStep ==
    ASSUME TypeOK, TypeOK', AccountInv, boot # "off", boot' # "off",
           \A b \in Actors : Calm(b), UNCHANGED <<queue, fate, tracked>>,
           store'.queue = store.queue,
           sendLock' = sendLock \/ sendLock = None \/ act[sendLock].batch = <<>>
    PROVE  AccountInv'
<1>1. /\ \A a \in Actors : Hand(a)' = Hand(a)
      /\ Handless' /\ Kept' = Kept /\ \A e : Has(e)' <=> Has(e)
  <2>1. \A a \in Actors : act'[a].batch = act[a].batch
    BY DEF Calm
  <2>2. \A a \in Actors : Hand(a)' = Hand(a)
    BY <2>1 DEF Hand
  <2>3. Handless'
    BY <2>1 DEF Calm, AccountInv, Handless
  <2>4. Kept' = Kept
    BY DEF Kept
  <2> QED
    BY <2>2, <2>3, <2>4 DEF Has
<1>2. Apart'
  <2> SUFFICES ASSUME NEW a \in Actors
               PROVE  /\ Hand(a)' \cap ToSet(queue)' = {}
                      /\ \A b \in Actors \ {a} : Hand(a)' \cap Hand(b)' = {}
                      /\ a # sendLock' => Hand(a)' \cap Kept' = {}
    BY DEF Apart
  <2>1. /\ Hand(a) \cap ToSet(queue) = {}
        /\ \A b \in Actors \ {a} : Hand(a) \cap Hand(b) = {}
        /\ a # sendLock => Hand(a) \cap Kept = {}
    BY DEF AccountInv, Apart
  <2>2. ASSUME a # sendLock', a = sendLock PROVE Hand(a) = {}
    <3>1. act[a].batch = <<>>
      BY <2>2, Kinds
    <3> QED
      BY <3>1, TakenType, Members DEF Hand
  <2> QED
    BY <1>1, <2>1, <2>2
<1>3. EventsAccounted' /\ Fresh' /\ Backed'
  <2>1. ~PersistQueue => store'.queue = <<>>
    BY DEF AccountInv, Backed
  <2> QED
    BY <1>1, <2>1, AccountsSame
<1> QED
  BY <1>1, <1>2, <1>3 DEF AccountInv

(* A thread's request is over, and so are its events.                      *)
LEMMA HandSettled ==
    ASSUME TypeOK, TypeOK', AccountInv, boot # "off", boot' # "off",
           NEW a \in Actors, NEW how \in Fates \ {"pending"},
           fate' = Become(Hand(a), how),
           act'[a].batch = <<>>, \A b \in Actors \ {a} : Calm(b),
           UNCHANGED <<queue, tracked>>, sendLock' = sendLock \/ sendLock = a,
           Kept' = Kept \/ Kept' \subseteq ToSet(queue),
           how = "dropped" \/ a # sendLock \/ Kept' \subseteq ToSet(queue),
           ~PersistQueue => store'.queue = <<>>
    PROVE  AccountInv'
<1>1. /\ Hand(a)' = {} /\ \A b \in Actors \ {a} : Hand(b)' = Hand(b)
      /\ ToSet(queue)' = ToSet(queue)
  <2>1. \A b \in Actors \ {a} : act'[b].batch = act[b].batch
    BY DEF Calm
  <2>2. ToSet(<<>>) = {}
    BY Members, EmptySeq
  <2> QED
    BY <2>1, <2>2 DEF Hand
<1>2. Handless'
  BY DEF Calm, AccountInv, Handless
<1>3. Apart'
  <2> SUFFICES ASSUME NEW c \in Actors, c # a
               PROVE  /\ Hand(c)' \cap ToSet(queue)' = {}
                      /\ \A b \in Actors \ {c} : Hand(c)' \cap Hand(b)' = {}
                      /\ c # sendLock' => Hand(c)' \cap Kept' = {}
    BY <1>1 DEF Apart
  <2>1. /\ Hand(c) \cap ToSet(queue) = {}
        /\ \A b \in Actors \ {c} : Hand(c) \cap Hand(b) = {}
        /\ c # sendLock => Hand(c) \cap Kept = {}
    BY DEF AccountInv, Apart
  <2> QED
    BY <1>1, <2>1
<1>4. /\ \A e \in Hand(a) : Has(e)
      /\ \A e \in Events : Has(e)' <=> (Has(e) /\ e \notin Hand(a))
      /\ \A e \in Kept' : e \in Kept \/ Has(e)'
      /\ how = "dropped" \/ Hand(a) \cap Kept' = {}
  <2>1. /\ Hand(a) \cap ToSet(queue) = {}
        /\ \A b \in Actors \ {a} : Hand(a) \cap Hand(b) = {}
        /\ a # sendLock => Hand(a) \cap Kept = {}
    BY DEF AccountInv, Apart
  <2>2. \A e : Has(e)' <=> e \in ToSet(queue) \/ \E b \in Actors \ {a} : e \in Hand(b)
    BY <1>1 DEF Has
  <2>3. \A e : Has(e) <=> e \in ToSet(queue) \/ e \in Hand(a) \/ \E b \in Actors \ {a} : e \in Hand(b)
    BY DEF Has
  <2> QED
    BY <2>1, <2>2, <2>3
<1>5. EventsAccounted' /\ Fresh' /\ Backed'
  <2>1. \A e \in Events : fate'[e] = IF e \in {} THEN "pending"
                                     ELSE IF e \in Hand(a) THEN how ELSE fate[e]
    BY DEF Become
  <2>2. tracked \in Nat /\ Hand(a) \in SUBSET Events
    BY Subsets DEF TypeOK
  <2> DEFINE none == {}
             gone == Hand(a)
  <2>3. /\ none \in SUBSET Events /\ gone \in SUBSET Events
        /\ \A e \in Events : fate'[e] = IF e \in none THEN "pending"
                                        ELSE IF e \in gone THEN how ELSE fate[e]
        /\ \A e \in none : e <= tracked'
        /\ tracked <= tracked'
        /\ \A e \in gone : Has(e)
        /\ \A e \in Events : Has(e)' <=> e \in none \/ (Has(e) /\ e \notin gone)
        /\ \A e \in Kept' : e \in Kept \/ Has(e)'
        /\ how = "dropped" \/ gone \cap Kept' = {}
    BY <1>4, <2>1, <2>2
  <2> HIDE DEF none, gone
  <2> QED
    BY <2>3, Accounts
<1> QED
  BY <1>2, <1>3, <1>5 DEF AccountInv

LEMMA KeptPersisted ==
    ASSUME TypeOK, Backed, NEW s \in Seq(Events), store' = Persisted(s)
    PROVE  /\ Kept' \subseteq ToSet(s)
           /\ ~PersistQueue => store'.queue = <<>>
<1>1. store'.queue = s \/ (~PersistQueue /\ store'.queue = <<>>)
  BY DEF Persisted, TypeOK, Backed
<1>2. PersistQueue => store'.queue = s
  BY DEF Persisted, TypeOK
<1>3. ToSet(Newest(<<>>)) \subseteq ToSet(<<>>) /\ ToSet(Newest(s)) \subseteq ToSet(s)
  BY MembersNewest, EmptySeq
<1>4. ToSet(<<>>) = {}
  BY Members, EmptySeq
<1>5. Kept' = ToSet(Newest(store'.queue))
  BY DEF Kept
<1>6. CASE PersistQueue
  BY <1>2, <1>3, <1>5, <1>6
<1>7. CASE ~PersistQueue
  BY <1>1, <1>3, <1>4, <1>5, <1>7 DEF Persisted, TypeOK, Backed
<1> QED
  BY <1>6, <1>7

-----------------------------------------------------------------------------
(* The accounting, through the calls of the threads *)

LEMMA AccountInit ==
    ASSUME PersistQueue \/ Leftover = 0
    PROVE  Init => AccountInv
<1> SUFFICES ASSUME Init PROVE AccountInv
  OBVIOUS
<1>1. /\ Leftover \in Nat /\ Leftover <= MaxQueueSize /\ Leftover <= MaxEvents
      /\ MaxQueueSize \in Nat /\ MaxEvents \in Nat
  BY PyInstanceAssumption, PyConfigAssumption DEF Smaller
<1>2. /\ boot = "off" /\ tracked = Leftover /\ queue = <<>> /\ sendLock = None
      /\ fate = [e \in Events |-> IF e <= Leftover THEN "pending" ELSE "new"]
      /\ act = [a \in Actors |-> NoCall]
  BY DEF Init
<1>3. /\ store.queue = [e \in 1..Leftover |-> e] /\ store.queue \in Seq(Events)
      /\ Len(store.queue) = Leftover
  <2>1. store.queue = [e \in 1..Leftover |-> e]
    BY DEF Init, EmptyStore
  <2>2. store.queue \in Seq(Events)
    BY TypeInit DEF TypeOK
  <2>3. DOMAIN store.queue = 1..Leftover
    BY <2>1
  <2>4. Len(store.queue) = Leftover
    BY <1>1, <2>2, <2>3, LenProperties
  <2> QED
    BY <2>1, <2>2, <2>4
<1>4. \A e : e \in Kept <=> e \in 1..Leftover
  <2>1. Kept = ToSet(store.queue)
    BY <1>1, <1>3, MembersNewest DEF Kept
  <2>2. \A e : e \in ToSet(store.queue) <=> \E i \in 1..Leftover : store.queue[i] = e
    BY <1>3, Members
  <2> QED
    BY <1>3, <2>1, <2>2
<1>5. EventsAccounted /\ Fresh
  <2>1. ASSUME NEW e \in Events
        PROVE  (e \in 1..Leftover <=> e <= Leftover) /\ (e > tracked => ~(e <= Leftover))
    BY <1>1, <1>2 DEF Events
  <2>2. ASSUME NEW e \in Events PROVE fate[e] = "pending" <=> e \in InHand
    <3>1. e \in InHand <=> e \in Kept
      BY <1>2, HandNow
    <3> QED
      BY <1>2, <1>4, <2>1, <3>1
  <2> QED
    BY <1>2, <2>1, <2>2 DEF EventsAccounted, Fresh
<1>6. \A a \in Actors : act[a].batch = <<>> /\ Hand(a) = {}
  <2>1. ToSet(<<>>) = {}
    BY Members, EmptySeq
  <2> QED
    BY <1>2, <2>1, NoCallType DEF Hand
<1>7. Handless /\ Apart
  BY <1>6 DEF Handless, Apart
<1>8. Leftover = 0 => store.queue = <<>>
  BY <1>3, EmptySeq
<1>9. Backed
  BY <1>2, <1>8 DEF Backed
<1> QED
  BY <1>5, <1>7, <1>9 DEF AccountInv

LEMMA LoadAccounts ==
    ASSUME TypeOK, TypeOK', OrderInv, AccountInv, Load
    PROVE  AccountInv'
<1>1. /\ boot = "off" /\ boot' = "on" /\ queue = <<>> /\ fate' = fate /\ tracked' = tracked
      /\ \A a \in Actors : act[a].pc = "idle"
      /\ store.queue \in Seq(Events) /\ act \in [Actors -> Locals] /\ timer \in Timers \cup {None}
  BY DEF Load, OrderInv, Still, TypeOK
<1>2. store'.queue = store.queue
  BY DEF Load, TypeOK
<1>3. \A a \in Actors : act[a].batch = <<>>
  BY <1>1 DEF AccountInv, Handless, Sending
<1>4. \A a \in Actors : act'[a].batch = <<>>
  <2>1. CASE PersistQueue /\ store.queue # <<>>
    BY <1>1, <1>3, <2>1, ScheduleType DEF Load
  <2>2. CASE ~(PersistQueue /\ store.queue # <<>>)
    BY <1>3, <2>2 DEF Load
  <2> QED
    BY <2>1, <2>2
<1>5. ToSet(<<>>) = {}
  BY Members, EmptySeq
<1>6. \A a \in Actors : Hand(a)' = {}
  BY <1>4, <1>5 DEF Hand
<1>7. Kept' = Kept /\ ToSet(queue)' = Kept
  <2>1. Kept' = Kept
    BY <1>2 DEF Kept
  <2>2. CASE PersistQueue
    <3>1. store.queue \o queue = store.queue
      BY <1>1, ConcatEmptySeq
    <3> QED
      BY <2>1, <2>2, <3>1 DEF Load, Kept
  <2>3. CASE ~PersistQueue
    <3>1. store.queue = <<>> /\ queue' = <<>>
      BY <1>1, <2>3 DEF Load, AccountInv, Backed
    <3>2. ToSet(Newest(<<>>)) \subseteq ToSet(<<>>)
      BY MembersNewest, EmptySeq
    <3> QED
      BY <1>5, <2>1, <3>1, <3>2 DEF Kept
  <2> QED
    BY <2>1, <2>2, <2>3
<1>8. EventsAccounted'
  <2> SUFFICES ASSUME NEW e \in Events PROVE fate'[e] = "pending" <=> e \in InHand'
    BY DEF EventsAccounted
  <2>1. Has(e)' <=> e \in Kept
    BY <1>6, <1>7 DEF Has
  <2>2. fate[e] = "pending" <=> e \in InHand
    BY DEF AccountInv, EventsAccounted
  <2> QED
    BY <1>1, <2>1, <2>2, HandNow, HandNext
<1>9. Fresh'
  BY <1>1 DEF AccountInv, Fresh
<1>10. Handless' /\ Apart'
  BY <1>4, <1>6 DEF Handless, Apart
<1>11. Backed'
  <2>1. \A e \in Kept : fate[e] = "pending"
    BY <1>1, HandNow, Subsets DEF AccountInv, EventsAccounted
  <2>2. ~PersistQueue => store'.queue = <<>>
    BY <1>2 DEF AccountInv, Backed
  <2> QED
    BY <1>1, <1>7, <2>1, <2>2 DEF Backed
<1> QED
  BY <1>8, <1>9, <1>10, <1>11 DEF AccountInv

LEMMA TrackAccounts ==
    ASSUME TypeOK, TypeOK', OneDrain, AccountInv, NEW t \in Threads, Track(t)
    PROVE  AccountInv'
<1> DEFINE e == tracked + 1
           gone == ToSet(queue) \ ToSet(queue)'
           born == {e}
           grown == Append(queue, e)
<1>1. /\ queue \in Seq(Events) /\ queue' \in Seq(Events) /\ ActsType /\ t \in Actors
      /\ tracked \in Nat /\ e \in Events /\ e \in Nat /\ e > tracked /\ tracked <= e
      /\ fate \in [Events -> Fates]
  BY Kinds, PyInstanceAssumption DEF TypeOK, ActsType, Track, Events
<1>2. /\ boot = "on" /\ boot' = "on" /\ act[t].pc = "idle" /\ tracked' = e
      /\ queue' = Newest(grown) /\ store' = Persisted(queue') /\ sendLock' = sendLock
      /\ fate' = [Become(gone, "trimmed") EXCEPT ![e] = "pending"]
      /\ act' = In(t, "track", IF Len(queue') >= BatchSize THEN "cancel" ELSE "schedule")
  BY DEF Track, Starts, At
<1>3. /\ grown \in Seq(Events) /\ ToSet(grown) = ToSet(queue) \cup {e}
      /\ e \in ToSet(Newest(grown))
  <2>1. /\ grown \in Seq(Events) /\ Len(queue) \in Nat /\ Len(grown) = Len(queue) + 1
        /\ \A i \in 1..Len(queue) : grown[i] = queue[i]
        /\ grown[Len(queue) + 1] = e
    BY <1>1, AppendProperties, LenProperties
  <2> HIDE DEF grown
  <2>2. \A i \in 1..Len(grown) : i \in 1..Len(queue) \/ i = Len(queue) + 1
    BY <2>1
  <2>3. 1..Len(queue) \subseteq 1..Len(grown) /\ Len(queue) + 1 \in 1..Len(grown)
    BY <2>1
  <2>4. ASSUME NEW f PROVE f \in ToSet(grown) <=> f \in ToSet(queue) \/ f = e
    <3>1. /\ f \in ToSet(grown) <=> \E i \in 1..Len(grown) : grown[i] = f
          /\ f \in ToSet(queue) <=> \E i \in 1..Len(queue) : queue[i] = f
      BY <1>1, <2>1, Members
    <3> QED
      BY <2>1, <2>2, <2>3, <3>1
  <2>5. grown # <<>> /\ grown[Len(grown)] = e
    BY <2>1, EmptySeq
  <2> QED
    BY <2>1, <2>4, <2>5, MembersNewest
<1> HIDE DEF grown, e
<1>4. ToSet(queue)' \subseteq ToSet(queue) \cup {e} /\ e \in ToSet(queue)'
  BY <1>2, <1>3, MembersNewest
<1>5. act[t].batch = <<>> /\ act'[t].batch = <<>> /\ \A b \in Actors \ {t} : act'[b] = act[b]
  <2>1. {"cancel", "schedule"} \subseteq Places /\ "track" \in Goals
    BY DEF Places, Goals
  <2>2. act[t].batch = <<>>
    BY <1>1, <1>2 DEF AccountInv, Handless, Sending
  <2> QED
    BY <1>1, <1>2, <2>1, <2>2, InType
<1>6. /\ \A a \in Actors : Hand(a)' = Hand(a)
      /\ Hand(t) = {}
  <2>1. ToSet(<<>>) = {}
    BY Members, EmptySeq
  <2> QED
    BY <1>1, <1>5, <2>1 DEF Hand
<1>7. /\ \A f : Has(f) => f \in Events
      /\ \A f \in Events : Has(f) \/ f \in Kept => f <= tracked
  BY <1>2, HeldPending
<1>8. ~Has(e) /\ e \notin Kept
  BY <1>1, <1>7
<1>9. Kept' \subseteq ToSet(queue)' /\ (~PersistQueue => store'.queue = <<>>)
  BY <1>1, <1>2, KeptPersisted DEF AccountInv
<1>10. Handless'
  <2>1. act'[t].batch = <<>>
    BY <1>5
  <2> QED
    BY <1>5, <2>1 DEF AccountInv, Handless
<1>11. Apart'
  <2> SUFFICES ASSUME NEW a \in Actors
               PROVE  /\ Hand(a) \cap ToSet(queue)' = {}
                      /\ \A b \in Actors \ {a} : Hand(a) \cap Hand(b) = {}
    BY <1>6, <1>9 DEF Apart
  <2>1. /\ Hand(a) \cap ToSet(queue) = {}
        /\ \A b \in Actors \ {a} : Hand(a) \cap Hand(b) = {}
    BY DEF AccountInv, Apart
  <2>2. e \notin Hand(a)
    BY <1>8 DEF Has
  <2> QED
    BY <1>4, <2>1, <2>2
<1>12. EventsAccounted' /\ Fresh' /\ Backed'
  <2>1. "trimmed" \in Fates \ {"pending"}
    BY DEF Fates
  <2>2. born \in SUBSET Events /\ gone \in SUBSET Events
    BY <1>1, Subsets
  <2>3. \A f \in Events : fate'[f] = IF f \in born THEN "pending"
                                     ELSE IF f \in gone THEN "trimmed" ELSE fate[f]
    BY <1>1, <1>2 DEF Become
  <2>4. \A f \in gone : Has(f)
    BY DEF Has
  <2>5. \A f \in Events : Has(f)' <=> f \in born \/ (Has(f) /\ f \notin gone)
    <3> SUFFICES ASSUME NEW f \in Events
                 PROVE  Has(f)' <=> f \in born \/ (Has(f) /\ f \notin gone)
      OBVIOUS
    <3>1. Has(f)' <=> f \in ToSet(queue)' \/ \E a \in Actors : f \in Hand(a)
      BY <1>6 DEF Has
    <3>2. Has(f) <=> f \in ToSet(queue) \/ \E a \in Actors : f \in Hand(a)
      BY DEF Has
    <3>3. \A a \in Actors : Hand(a) \cap ToSet(queue) = {}
      BY DEF AccountInv, Apart
    <3> QED
      BY <1>4, <3>1, <3>2, <3>3
  <2>6. \A f \in Kept' : f \in Kept \/ Has(f)'
    BY <1>9 DEF Has
  <2>7. gone \cap Kept' = {}
    BY <1>9
  <2>8. (\A f \in born : f <= tracked') /\ tracked <= tracked'
    BY <1>1, <1>2
  <2>9. boot # "off" /\ boot' # "off"
    BY <1>2
  <2> HIDE DEF born, gone
  <2> QED
    BY <1>9, <2>1, <2>2, <2>3, <2>4, <2>5, <2>6, <2>7, <2>8, <2>9, Accounts
<1> QED
  BY <1>10, <1>11, <1>12 DEF AccountInv

LEMMA SingleAccounts ==
    ASSUME TypeOK, TypeOK', OneDrain, AccountInv, NEW t \in Threads, TrackSingle(t)
    PROVE  AccountInv'
<1> DEFINE e == tracked + 1
           born == {e}
           none == {}
<1>1. /\ ActsType /\ t \in Actors /\ tracked \in Nat /\ e \in Events /\ e \in Nat
      /\ e > tracked /\ tracked <= e /\ fate \in [Events -> Fates]
  BY Kinds, PyInstanceAssumption DEF TypeOK, ActsType, TrackSingle, Events
<1>2. /\ boot = "on" /\ boot' = "on" /\ act[t].pc = "idle" /\ tracked' = e
      /\ UNCHANGED <<queue, store, sendLock>>
      /\ fate' = [fate EXCEPT ![e] = "pending"]
  BY DEF TrackSingle, Starts, At
<1>3. act'[t].pc = "sent" /\ act'[t].batch = <<e>> /\ \A b \in Actors \ {t} : act'[b] = act[b]
  <2>1. "sent" \in Places /\ "track" \in Goals
    BY DEF Places, Goals
  <2>2. /\ In(t, "track", "sent") \in [Actors -> Locals]
        /\ In(t, "track", "sent")[t].pc = "sent"
        /\ \A b \in Actors \ {t} : In(t, "track", "sent")[b] = act[b]
    BY <1>1, <2>1, InType
  <2>3. act' = [In(t, "track", "sent") EXCEPT ![t].batch = <<e>>]
    BY DEF TrackSingle
  <2> HIDE DEF e
  <2>4. In(t, "track", "sent")[t] \in Locals
    BY <1>1, <2>2
  <2> QED
    BY <1>1, <2>2, <2>3, <2>4 DEF Locals
<1> HIDE DEF e
<1>4. /\ Hand(t)' = {e} /\ \A a \in Actors \ {t} : Hand(a)' = Hand(a)
      /\ Hand(t) = {} /\ Kept' = Kept /\ ToSet(queue)' = ToSet(queue)
  <2>1. ToSet(<<>>) = {}
    BY Members, EmptySeq
  <2>2. act[t].batch = <<>>
    BY <1>1, <1>2 DEF AccountInv, Handless, Sending
  <2>3. ToSet(<<e>>) = {e}
    <3>1. <<e>> \in Seq(Events) /\ Len(<<e>>) = 1 /\ <<e>>[1] = e /\ 1..1 = {1}
      BY <1>1
    <3>2. \A f : f \in ToSet(<<e>>) <=> \E i \in 1..1 : <<e>>[i] = f
      BY <3>1, Members
    <3> QED
      BY <3>1, <3>2
  <2> QED
    BY <1>2, <1>3, <2>1, <2>2, <2>3 DEF Hand, Kept
<1>5. /\ \A f : Has(f) => f \in Events
      /\ \A f \in Events : Has(f) \/ f \in Kept => f <= tracked
  BY <1>2, HeldPending
<1>6. ~Has(e) /\ e \notin Kept
  BY <1>1, <1>5
<1>7. Handless'
  BY <1>3 DEF AccountInv, Handless, Sending
<1>8. Apart'
  <2> SUFFICES ASSUME NEW a \in Actors
               PROVE  /\ Hand(a)' \cap ToSet(queue) = {}
                      /\ \A b \in Actors \ {a} : Hand(a)' \cap Hand(b)' = {}
                      /\ a # sendLock => Hand(a)' \cap Kept = {}
    BY <1>2, <1>4 DEF Apart
  <2>1. /\ \A c \in Actors : Hand(c) \cap ToSet(queue) = {}
        /\ \A c \in Actors : \A b \in Actors \ {c} : Hand(c) \cap Hand(b) = {}
        /\ \A c \in Actors : c # sendLock => Hand(c) \cap Kept = {}
    BY DEF AccountInv, Apart
  <2>2. e \notin ToSet(queue) /\ \A c \in Actors : e \notin Hand(c)
    BY <1>6 DEF Has
  <2>3. CASE a = t
    BY <1>4, <1>6, <2>2, <2>3
  <2>4. CASE a # t
    <3>1. Hand(a)' = Hand(a)
      BY <1>4, <2>4
    <3>2. ASSUME NEW b \in Actors \ {a} PROVE Hand(a)' \cap Hand(b)' = {}
      <4>1. CASE b = t
        BY <1>4, <2>2, <3>1, <4>1
      <4>2. CASE b # t
        BY <1>4, <2>1, <3>1, <4>2
      <4> QED
        BY <4>1, <4>2
    <3> QED
      BY <2>1, <3>1, <3>2
  <2> QED
    BY <2>3, <2>4
<1>9. EventsAccounted' /\ Fresh' /\ Backed'
  <2>1. "new" \in Fates \ {"pending"}
    BY DEF Fates
  <2>2. born \in SUBSET Events /\ none \in SUBSET Events
    BY <1>1
  <2>3. \A f \in Events : fate'[f] = IF f \in born THEN "pending"
                                     ELSE IF f \in none THEN "new" ELSE fate[f]
    BY <1>1, <1>2
  <2>4. \A f \in Events : Has(f)' <=> f \in born \/ (Has(f) /\ f \notin none)
    <3> SUFFICES ASSUME NEW f \in Events PROVE Has(f)' <=> f = e \/ Has(f)
      OBVIOUS
    <3>1. Has(f)' <=> f \in ToSet(queue) \/ f = e \/ \E a \in Actors \ {t} : f \in Hand(a)
      BY <1>1, <1>4 DEF Has
    <3>2. Has(f) <=> f \in ToSet(queue) \/ \E a \in Actors \ {t} : f \in Hand(a)
      BY <1>1, <1>4 DEF Has
    <3> QED
      BY <3>1, <3>2
  <2>5. /\ \A f \in none : Has(f)
        /\ \A f \in Kept' : f \in Kept \/ Has(f)'
        /\ none \cap Kept' = {}
    BY <1>4
  <2>6. (\A f \in born : f <= tracked') /\ tracked <= tracked'
    BY <1>1, <1>2
  <2>7. boot # "off" /\ boot' # "off" /\ (~PersistQueue => store'.queue = <<>>)
    BY <1>2 DEF AccountInv, Backed
  <2> HIDE DEF born, none
  <2> QED
    BY <2>1, <2>2, <2>3, <2>4, <2>5, <2>6, <2>7, Accounts
<1> QED
  BY <1>7, <1>8, <1>9 DEF AccountInv
(* A thread goes on with a batch it may hold, and the others do nothing.   *)
LEMMA OneCalm ==
    ASSUME NEW a \in Actors, act'[a].batch = act[a].batch,
           act[a].pc \notin Sending \/ act'[a].pc \in Sending,
           \A b \in Actors \ {a} : act'[b] = act[b]
    PROVE  \A b \in Actors : Calm(b)
  BY DEF Calm

LEMMA CallsCalm ==
    ASSUME TypeOK, AccountInv, NEW t \in Threads, CallOf(t), ~Track(t), ~TrackSingle(t)
    PROVE  \A b \in Actors : Calm(b)
<1>1. ActsType /\ t \in Actors /\ act[t] \in Locals /\ timer \in Timers \cup {None}
  BY Kinds DEF TypeOK, ActsType
<1>2. act[t].pc \notin Sending /\ act[t].batch = <<>>
  <2>1. act[t].pc \notin Sending
    BY DEF CallOf, TrackSchedules, Identify, Reset, Flush, Shutdown, Stops, Starts, At,
           Remember, RememberFlag, StoreUser, StoreFlag, Sending
  <2> QED
    BY <1>1, <2>1 DEF AccountInv, Handless
<1> DEFINE acts == [act EXCEPT ![t] = NoCall]
<1>3. /\ acts \in [Actors -> Locals] /\ acts[t].batch = <<>>
      /\ \A b \in Actors \ {t} : acts[b] = act[b]
  BY <1>1, NoCallType, OneType
<1>4. CASE TrackSchedules(t)
  <2>1. Schedule(queue, acts)
    BY <1>4 DEF TrackSchedules
  <2> HIDE DEF acts
  <2>2. \A b \in Actors : \/ act'[b] = acts[b]
                          \/ acts[b].pc = "idle" /\ act'[b].batch = acts[b].batch
    BY <1>1, <1>3, <2>1, ScheduleType
  <2>3. ASSUME NEW b \in Actors PROVE Calm(b)
    <3>1. CASE b = t
      BY <1>2, <1>3, <2>2, <3>1 DEF Calm
    <3>2. CASE b # t
      BY <1>3, <2>2, <3>2 DEF Calm, Sending
    <3> QED
      BY <3>1, <3>2
  <2> QED
    BY <2>3
<1>5. CASE Stops(t)
  <2>1. act' = Cancelled(acts)
    BY <1>5 DEF Stops
  <2> HIDE DEF acts
  <2>2. \A b \in Actors : act'[b] = acts[b] \/ (acts[b].pc = "armed" /\ act'[b] = NoCall)
    BY <1>1, <1>3, <2>1, CancelledType
  <2>3. ASSUME NEW b \in Actors PROVE Calm(b)
    <3>1. CASE b = t
      BY <1>2, <1>3, <2>2, <3>1, NoCallType DEF Calm
    <3>2. CASE b # t /\ act'[b] # act[b]
      <4>1. act[b].pc = "armed" /\ act'[b] = NoCall
        BY <1>3, <2>2, <3>2
      <4>2. act[b].batch = <<>>
        BY <4>1 DEF AccountInv, Handless, Sending
      <4> QED
        BY <4>1, <4>2, NoCallType DEF Calm, Sending
    <3> QED
      BY <3>1, <3>2 DEF Calm
  <2> QED
    BY <2>3
<1>6. CASE \E goal, where, id : Calls(t, goal, where, id)
  <2>1. PICK goal, where, id : act' = [In(t, goal, where) EXCEPT ![t].id = id]
    BY <1>6 DEF Calls
  <2>2. act' = [act EXCEPT ![t] = [NoCall EXCEPT !.pc = where, !.goal = goal, !.id = id]]
    BY <1>1, <2>1 DEF In, NoCall, ActsType
  <2>3. act'[t].batch = <<>> /\ \A b \in Actors \ {t} : act'[b] = act[b]
    BY <1>1, <2>2 DEF NoCall, ActsType
  <2> QED
    BY <1>1, <1>2, <2>3, OneCalm
<1>7. CASE Remember(t) \/ RememberFlag(t) \/ StoreUser(t) \/ StoreFlag(t)
  <2>1. act'[t].batch = act[t].batch /\ \A b \in Actors \ {t} : act'[b] = act[b]
    <3>1. CASE Remember(t)
      BY <1>1, <3>1 DEF Remember, ActsType, Locals
    <3>2. CASE RememberFlag(t) \/ StoreUser(t) \/ StoreFlag(t)
      BY <1>1, <1>2, <1>3, <3>2, MovedType DEF RememberFlag, StoreUser, StoreFlag, Places
    <3> QED
      BY <1>7, <3>1, <3>2
  <2> QED
    BY <1>1, <1>2, <2>1, OneCalm
<1> QED
  BY <1>4, <1>5, <1>6, <1>7 DEF CallOf, Identify, Reset, Flush, Shutdown

LEMMA CallAccounts ==
    ASSUME Exclusive, Exclusive', OrderInv, AccountInv, NEW t \in Threads, CallOf(t)
    PROVE  AccountInv'
<1>1. TypeOK /\ TypeOK' /\ OneDrain /\ t \in Actors
  BY Kinds DEF Exclusive
<1>2. CASE Track(t) \/ TrackSingle(t)
  BY <1>1, <1>2, TrackAccounts, SingleAccounts
<1>3. CASE ~Track(t) /\ ~TrackSingle(t)
  <2>1. \A b \in Actors : Calm(b)
    BY <1>1, <1>3, CallsCalm
  <2>2. /\ UNCHANGED <<queue, fate, tracked, sendLock>> /\ store'.queue = store.queue
    BY <1>1, <1>3 DEF CallOf, TrackSchedules, Identify, Reset, Flush, Shutdown, Calls, Stops,
                      Remember, RememberFlag, StoreUser, StoreFlag, events, TypeOK
  <2>3. boot # "off"
    <3>1. CASE act[t].pc = "idle"
      BY <1>3, <3>1 DEF CallOf, TrackSchedules, Identify, Reset, Flush, Shutdown, Stops,
                        Starts, At, Remember, RememberFlag, StoreUser, StoreFlag
    <3> QED
      BY <1>1, <3>1, Runs
  <2>4. boot' # "off"
    BY <1>3, <2>3 DEF CallOf, TrackSchedules, Identify, Reset, Flush, Shutdown, Calls, Stops,
                      Remember, RememberFlag, StoreUser, StoreFlag
  <2> QED
    BY <1>1, <2>1, <2>2, <2>3, <2>4, CalmStep
<1> QED
  BY <1>2, <1>3

LEMMA TimerAccounts ==
    ASSUME Exclusive, Exclusive', OrderInv, AccountInv, NEW i \in Timers,
           TimerFires(i) \/ TimerRuns(i)
    PROVE  AccountInv'
<1>1. /\ TypeOK /\ TypeOK' /\ ActsType /\ i \in Actors
      /\ act[i].pc \in {"armed", "fired"} /\ act[i].pc # "idle"
  BY Kinds DEF Exclusive, TypeOK, ActsType, TimerFires, TimerRuns, At
<1>2. act[i].pc \notin Sending /\ act[i].batch = <<>>
  BY <1>1 DEF AccountInv, Handless, Sending
<1>3. act'[i].batch = <<>> /\ \A b \in Actors \ {i} : act'[b] = act[b]
  <2>1. {"fired", "cancel"} \subseteq Places /\ "timer" \in Goals
    BY DEF Places, Goals
  <2> QED
    BY <1>1, <1>2, <2>1, MovedType, InType DEF TimerFires, TimerRuns
<1>4. \A b \in Actors : Calm(b)
  BY <1>1, <1>2, <1>3, OneCalm
<1>5. UNCHANGED <<boot, queue, fate, tracked, sendLock, store>>
  BY DEF TimerFires, TimerRuns, events
<1>6. boot # "off"
  BY <1>1, Runs
<1> QED
  BY <1>1, <1>4, <1>5, <1>6, CalmStep
-----------------------------------------------------------------------------
(* The accounting, through the steps of a flush *)

(* Steps of a flush that leave the events in their places.                 *)
LEMMA CancelsAccounts ==
    ASSUME Exclusive, Exclusive', OrderInv, AccountInv, NEW a \in Actors, FlushCancels(a)
    PROVE  AccountInv'
<1>1. /\ TypeOK /\ TypeOK' /\ ActsType /\ act[a].pc = "cancel" /\ act[a].pc # "idle"
      /\ timer \in Timers \cup {None}
  BY DEF Exclusive, TypeOK, ActsType, FlushCancels, At
<1>2. act' = Cancelled(Moved(a, "lock")) /\ UNCHANGED <<boot, sendLock, store, queue, fate, tracked>>
  BY DEF FlushCancels, events
<1>3. /\ Moved(a, "lock") \in [Actors -> Locals] /\ Moved(a, "lock")[a].pc = "lock"
      /\ Moved(a, "lock")[a].batch = act[a].batch
      /\ \A b \in Actors \ {a} : Moved(a, "lock")[b] = act[b]
  BY <1>1, MovedType DEF Places
<1>4. \A b \in Actors : \/ act'[b] = Moved(a, "lock")[b]
                        \/ Moved(a, "lock")[b].pc = "armed" /\ act'[b] = NoCall
  BY <1>1, <1>2, <1>3, CancelledType
<1>5. ASSUME NEW b \in Actors PROVE Calm(b)
  <2>1. CASE b = a
    BY <1>1, <1>3, <1>4, <2>1 DEF Calm, Sending
  <2>2. CASE b # a /\ act'[b] # act[b]
    <3>1. act[b].pc = "armed" /\ act'[b] = NoCall
      BY <1>3, <1>4, <2>2
    <3>2. act[b].batch = <<>>
      BY <3>1 DEF AccountInv, Handless, Sending
    <3> QED
      BY <3>1, <3>2, NoCallType DEF Calm, Sending
  <2> QED
    BY <2>1, <2>2 DEF Calm
<1>6. boot # "off"
  BY <1>1, Runs
<1> QED
  BY <1>1, <1>2, <1>5, <1>6, CalmStep

LEMMA EntersAccounts ==
    ASSUME Exclusive, Exclusive', OrderInv, AccountInv, NEW a \in Actors, FlushEnters(a)
    PROVE  AccountInv'
<1>1. /\ TypeOK /\ TypeOK' /\ ActsType /\ act[a].pc = "lock" /\ act[a].pc # "idle"
      /\ sendLock = None /\ act' = Moved(a, "take")
      /\ UNCHANGED <<boot, store, queue, fate, tracked>>
  BY DEF Exclusive, TypeOK, ActsType, FlushEnters, At, events
<1>2. act'[a].batch = act[a].batch /\ \A b \in Actors \ {a} : act'[b] = act[b]
  BY <1>1, MovedType DEF Places
<1>3. \A b \in Actors : Calm(b)
  BY <1>1, <1>2, OneCalm DEF Sending
<1>4. boot # "off"
  BY <1>1, Runs
<1> QED
  BY <1>1, <1>3, <1>4, CalmStep

(* The flush ends with nothing in its hands. *)
LEMMA LeavesAccounts ==
    ASSUME Exclusive, Exclusive', OrderInv, AccountInv, NEW a \in Actors, sendLock = a,
           act[a].pc \notin Sending, NEW ok \in BOOLEAN, Leaves(a, ok),
           UNCHANGED <<queue, store, fate, tracked>>
    PROVE  AccountInv'
<1>1. TypeOK /\ TypeOK' /\ act[a].batch = <<>> /\ act[a].pc # "idle"
  BY Kinds DEF Exclusive, OneDrain, DrainPlaces, AccountInv, Handless
<1>2. act'[a].batch = <<>> /\ \A b \in Actors \ {a} : act'[b] = act[b]
  BY <1>1, AfterFlushType DEF Leaves
<1>3. \A b \in Actors : Calm(b)
  BY <1>1, <1>2, OneCalm
<1>4. boot # "off" /\ boot' # "off"
  BY <1>1, Runs, AfterFlushRuns DEF Leaves
<1> QED
  BY <1>1, <1>3, <1>4, CalmStep

(* The flush takes the first events of the queue in its hands. *)
LEMMA TakesAccounts ==
    ASSUME Exclusive, Exclusive', OrderInv, AccountInv, NEW a \in Actors, FlushTakes(a)
    PROVE  AccountInv'
<1>1. /\ TypeOK /\ TypeOK' /\ ActsType /\ act[a].pc = "take" /\ act[a].pc # "idle"
      /\ sendLock = a /\ act[a].pc \notin Sending
      /\ UNCHANGED <<store, tracked, fate>>
  BY DEF Exclusive, TypeOK, ActsType, FlushTakes, At, OneDrain, DrainPlaces, Sending
<1>2. CASE queue = <<>>
  BY <1>1, <1>2, LeavesAccounts DEF FlushTakes
<1>3. CASE queue # <<>>
  <2> DEFINE b == FirstN(queue, MaxBatch)
             rest == AfterN(queue, MaxBatch)
  <2>1. /\ queue \in Seq(Events) /\ b \in Seq(Events) /\ rest \in Seq(Events)
        /\ b \o rest = queue /\ MaxBatch \in Nat
    BY <1>1, TakenType, SplitProps, FirstNProps, AfterNProps, PyConfigAssumption
  <2>2. ToSet(queue) = ToSet(b) \cup ToSet(rest) /\ ToSet(b) \cap ToSet(rest) = {}
    <3>1. Sorted(queue)
      <4>1. Taken = <<>> /\ <<>> \o queue = queue
        <5>1. act[a].batch = <<>> /\ a # None
          BY <1>1, Kinds DEF AccountInv, Handless
        <5> QED
          BY <1>1, <2>1, <5>1, ConcatEmptySeq DEF Taken
      <4> QED
        BY <4>1 DEF OrderInv, Tidy
    <3>2. \A i \in 1..Len(b), j \in 1..Len(rest) : b[i] < rest[j]
      BY <2>1, <3>1, AfterSorted
    <3> HIDE DEF b, rest
    <3>3. ToSet(queue) = ToSet(b) \cup ToSet(rest)
      BY <2>1, MembersConcat
    <3>4. ASSUME NEW e, e \in ToSet(b), e \in ToSet(rest) PROVE FALSE
      <4>1. PICK i \in 1..Len(b) : b[i] = e
        BY <2>1, <3>4, Members
      <4>2. PICK j \in 1..Len(rest) : rest[j] = e
        BY <2>1, <3>4, Members
      <4>3. e < e /\ e \in Nat
        <5>1. e \in Events
          BY <2>1, <3>4, Members
        <5> QED
          BY <3>2, <4>1, <4>2, <5>1, PyInstanceAssumption DEF Events
      <4> QED
        BY <4>3
    <3> QED
      BY <3>3, <3>4
  <2>3. /\ queue' = rest /\ sendLock' = a /\ boot' = boot
        /\ act'[a].batch = b /\ act'[a].pc = "sent"
        /\ \A c \in Actors \ {a} : act'[c] = act[c]
    <3>1. /\ queue' = rest /\ UNCHANGED <<boot, sendLock>>
          /\ act' = [act EXCEPT ![a].pc = "sent", ![a].batch = b, ![a].attempt = 0]
      BY <1>3 DEF FlushTakes
    <3> HIDE DEF b, rest
    <3> DEFINE l == [act[a] EXCEPT !.pc = "sent", !.batch = b, !.attempt = 0]
    <3>2. act' = [act EXCEPT ![a] = l] /\ act[a] \in Locals
      BY <1>1, <3>1 DEF ActsType
    <3>3. l.batch = b /\ l.pc = "sent"
      BY <3>2 DEF Locals
    <3> HIDE DEF l
    <3>4. act'[a] = l /\ \A c \in Actors \ {a} : act'[c] = act[c]
      BY <1>1, <3>2 DEF ActsType
    <3> QED
      BY <1>1, <3>1, <3>3, <3>4
  <2> HIDE DEF b, rest
  <2>4. /\ Hand(a) = {} /\ Hand(a)' = ToSet(b) /\ ToSet(queue)' = ToSet(rest) /\ Kept' = Kept
        /\ \A c \in Actors \ {a} : Hand(c)' = Hand(c)
    <3>1. act[a].batch = <<>> /\ ToSet(<<>>) = {}
      BY <1>1, Members, EmptySeq DEF AccountInv, Handless
    <3> QED
      BY <1>1, <2>3, <3>1 DEF Hand, Kept
  <2>5. Handless'
    BY <2>3 DEF AccountInv, Handless, Sending
  <2>6. Apart'
    <3>1. \A c \in Actors : Hand(c) \cap ToSet(queue) = {}
      BY DEF AccountInv, Apart
    <3>2. ASSUME NEW c \in Actors \ {a}
          PROVE  /\ Hand(c)' \cap ToSet(queue)' = {}
                 /\ \A d \in Actors \ {c} : Hand(c)' \cap Hand(d)' = {}
                 /\ c # sendLock' => Hand(c)' \cap Kept' = {}
      <4>1. /\ Hand(c) \cap ToSet(queue) = {} /\ Hand(c) \cap Kept = {}
            /\ \A d \in Actors \ {c} : Hand(c) \cap Hand(d) = {}
        BY <1>1 DEF AccountInv, Apart
      <4>2. Hand(c)' \cap Hand(a)' = {}
        BY <2>2, <2>4, <4>1
      <4>3. ASSUME NEW d \in Actors \ {c} PROVE Hand(c)' \cap Hand(d)' = {}
        <5>1. CASE d = a
          BY <4>2, <5>1
        <5>2. CASE d # a
          BY <2>4, <4>1, <5>2
        <5> QED
          BY <5>1, <5>2
      <4> QED
        BY <2>2, <2>4, <4>1, <4>3
    <3>3. \A d \in Actors \ {a} : Hand(a)' \cap Hand(d)' = {}
      BY <2>2, <2>4, <3>1
    <3>4. Hand(a)' \cap ToSet(queue)' = {}
      BY <2>2, <2>4
    <3>5. ASSUME NEW c \in Actors
          PROVE  /\ Hand(c)' \cap ToSet(queue)' = {}
                 /\ \A d \in Actors \ {c} : Hand(c)' \cap Hand(d)' = {}
                 /\ c # sendLock' => Hand(c)' \cap Kept' = {}
      <4>1. CASE c = a
        BY <2>3, <3>3, <3>4, <4>1
      <4>2. CASE c # a
        BY <3>2, <4>2
      <4> QED
        BY <4>1, <4>2
    <3> QED
      BY <3>5 DEF Apart
  <2>7. EventsAccounted' /\ Fresh' /\ Backed'
    <3>1. \A e : Has(e)' <=> Has(e)
      <4>1. \A e : Has(e)' <=> e \in ToSet(rest) \/ e \in ToSet(b)
                                 \/ \E c \in Actors \ {a} : e \in Hand(c)
        BY <2>4 DEF Has
      <4>2. \A e : Has(e) <=> e \in ToSet(queue) \/ \E c \in Actors \ {a} : e \in Hand(c)
        BY <2>4 DEF Has
      <4> QED
        BY <2>2, <4>1, <4>2
    <3>2. boot # "off" /\ boot' # "off" /\ (~PersistQueue => store'.queue = <<>>)
      BY <1>1, <2>3, Runs DEF AccountInv, Backed
    <3> QED
      BY <1>1, <2>4, <3>1, <3>2, AccountsSame
  <2> QED
    BY <2>5, <2>6, <2>7 DEF AccountInv
<1> QED
  BY <1>2, <1>3
LEMMA PersistsAccounts ==
    ASSUME Exclusive, Exclusive', OrderInv, AccountInv, NEW a \in Actors, FlushPersists(a)
    PROVE  AccountInv'
<1>1. /\ TypeOK /\ TypeOK' /\ ActsType /\ act[a].pc # "idle" /\ sendLock = a
      /\ queue \in Seq(Events)
  BY TakenType DEF Exclusive, TypeOK, ActsType, FlushPersists, At, OneDrain, DrainPlaces
<1>2. /\ fate' = Become(Hand(a), "accepted") /\ store' = Persisted(queue)
      /\ UNCHANGED <<boot, queue, sendLock, tracked>>
      /\ act'[a].batch = <<>> /\ \A b \in Actors \ {a} : act'[b] = act[b]
  BY <1>1 DEF FlushPersists, Hand, ActsType
<1>3. boot # "off"
  BY <1>1, Runs
<1>4. Kept' \subseteq ToSet(queue) /\ (~PersistQueue => store'.queue = <<>>)
  BY <1>1, <1>2, KeptPersisted DEF AccountInv
<1>5. \A b \in Actors \ {a} : Calm(b)
  BY <1>2 DEF Calm
<1>6. "accepted" \in Fates \ {"pending"}
  BY DEF Fates
<1> QED
  BY <1>1, <1>2, <1>3, <1>4, <1>5, <1>6, HandSettled

(* The batch goes back to the front of the queue. *)
LEMMA RequeueAccounts ==
    ASSUME TypeOK, TypeOK', AccountInv, boot # "off", boot' # "off", NEW a \in Actors,
           sendLock = a, sendLock' = a, queue' = Requeued(a), store' = Persisted(queue'),
           act'[a].batch = <<>>, \A b \in Actors \ {a} : Calm(b),
           UNCHANGED <<fate, tracked>>
    PROVE  AccountInv'
<1>1. /\ queue \in Seq(Events) /\ queue' \in Seq(Events) /\ act[a].batch \in Seq(Events)
      /\ tracked \in Nat
  BY TakenType DEF TypeOK
<1>2. /\ Hand(a)' = {} /\ \A b \in Actors \ {a} : Hand(b)' = Hand(b)
      /\ ToSet(queue)' = Hand(a) \cup ToSet(queue)
  <2>1. \A b \in Actors \ {a} : act'[b].batch = act[b].batch
    BY DEF Calm
  <2>2. ToSet(<<>>) = {}
    BY Members, EmptySeq
  <2> QED
    BY <1>1, <2>1, <2>2, MembersConcat DEF Hand, Requeued
<1>3. Kept' \subseteq ToSet(queue)' /\ (~PersistQueue => store'.queue = <<>>)
  BY <1>1, KeptPersisted DEF AccountInv
<1>4. Handless'
  BY DEF Calm, AccountInv, Handless
<1>5. Apart'
  <2>1. ASSUME NEW c \in Actors, c # a
        PROVE  /\ Hand(c)' \cap ToSet(queue)' = {}
               /\ \A d \in Actors \ {c} : Hand(c)' \cap Hand(d)' = {}
    <3>1. /\ Hand(c) \cap ToSet(queue) = {}
          /\ \A d \in Actors \ {c} : Hand(c) \cap Hand(d) = {}
      BY DEF AccountInv, Apart
    <3>2. Hand(c) \cap Hand(a) = {}
      BY <2>1, <3>1
    <3>3. ASSUME NEW d \in Actors \ {c} PROVE Hand(c)' \cap Hand(d)' = {}
      BY <1>2, <2>1, <3>1
    <3> QED
      BY <1>2, <2>1, <3>1, <3>2, <3>3
  <2>2. ASSUME NEW c \in Actors, c # a PROVE Hand(c)' \cap Kept' = {}
    BY <1>3, <2>1, <2>2
  <2> QED
    BY <1>2, <2>1, <2>2 DEF Apart
<1>6. EventsAccounted' /\ Fresh' /\ Backed'
  <2>1. \A e : Has(e)' <=> Has(e)
    <3>1. \A e : Has(e)' <=> e \in ToSet(queue) \/ e \in Hand(a)
                               \/ \E c \in Actors \ {a} : e \in Hand(c)
      BY <1>2 DEF Has
    <3>2. \A e : Has(e) <=> e \in ToSet(queue) \/ e \in Hand(a)
                              \/ \E c \in Actors \ {a} : e \in Hand(c)
      BY DEF Has
    <3> QED
      BY <3>1, <3>2
  <2>2. \A e \in Kept' : Has(e)'
    BY <1>3 DEF Has
  <2> QED
    BY <1>3, <2>1, <2>2, AccountsSame
<1> QED
  BY <1>4, <1>5, <1>6 DEF AccountInv

(* A refusal ends the batch and the queue. *)
LEMMA RefusedAccounts ==
    ASSUME TypeOK, TypeOK', AccountInv, boot # "off", boot' # "off", NEW a \in Actors,
           sendLock = a, sendLock' = a, queue' = <<>>, store' = Persisted(queue'),
           fate' = Become(ToSet(act[a].batch \o queue), "refused"),
           act'[a].batch = <<>>, \A b \in Actors \ {a} : Calm(b), tracked' = tracked
    PROVE  AccountInv'
<1> DEFINE gone == Hand(a) \cup ToSet(queue)
           none == {}
<1>1. /\ queue \in Seq(Events) /\ queue' \in Seq(Events) /\ act[a].batch \in Seq(Events)
      /\ tracked \in Nat
  BY TakenType DEF TypeOK
<1>2. /\ Hand(a)' = {} /\ \A b \in Actors \ {a} : Hand(b)' = Hand(b)
      /\ ToSet(queue)' = {} /\ fate' = Become(gone, "refused")
  <2>1. \A b \in Actors \ {a} : act'[b].batch = act[b].batch
    BY DEF Calm
  <2>2. ToSet(<<>>) = {}
    BY Members, EmptySeq
  <2>3. ToSet(act[a].batch \o queue) = gone
    BY <1>1, MembersConcat DEF Hand
  <2> QED
    BY <2>1, <2>2, <2>3 DEF Hand
<1>3. Kept' = {} /\ (~PersistQueue => store'.queue = <<>>)
  <2>1. Kept' \subseteq ToSet(queue)' /\ (~PersistQueue => store'.queue = <<>>)
    BY <1>1, KeptPersisted DEF AccountInv
  <2> QED
    BY <1>2, <2>1
<1>4. Handless'
  BY DEF Calm, AccountInv, Handless
<1>5. Apart'
  <2>1. ASSUME NEW c \in Actors, NEW d \in Actors \ {c} PROVE Hand(c)' \cap Hand(d)' = {}
    <3>1. Hand(c) \cap Hand(d) = {}
      BY DEF AccountInv, Apart
    <3> QED
      BY <1>2, <3>1
  <2> QED
    BY <1>2, <1>3, <2>1 DEF Apart
<1>6. EventsAccounted' /\ Fresh' /\ Backed'
  <2>1. "refused" \in Fates \ {"pending"}
    BY DEF Fates
  <2>2. none \in SUBSET Events /\ gone \in SUBSET Events
    BY Subsets
  <2>3. \A e \in Events : fate'[e] = IF e \in none THEN "pending"
                                     ELSE IF e \in gone THEN "refused" ELSE fate[e]
    BY <1>2 DEF Become
  <2>4. \A e \in gone : Has(e)
    BY DEF Has
  <2>5. \A e \in Events : Has(e)' <=> e \in none \/ (Has(e) /\ e \notin gone)
    <3>1. \A e : Has(e)' <=> \E c \in Actors \ {a} : e \in Hand(c)
      BY <1>2 DEF Has
    <3>2. \A e : Has(e) <=> e \in gone \/ \E c \in Actors \ {a} : e \in Hand(c)
      BY DEF Has
    <3>3. ASSUME NEW c \in Actors \ {a} PROVE Hand(c) \cap gone = {}
      <4>1. Hand(c) \cap ToSet(queue) = {} /\ Hand(c) \cap Hand(a) = {}
        BY DEF AccountInv, Apart
      <4> QED
        BY <4>1
    <3> HIDE DEF gone
    <3> QED
      BY <3>1, <3>2, <3>3
  <2>6. /\ \A e \in none : e <= tracked'
        /\ tracked <= tracked'
        /\ \A e \in Kept' : e \in Kept \/ Has(e)'
        /\ gone \cap Kept' = {}
    BY <1>1, <1>3
  <2> HIDE DEF none, gone
  <2> QED
    BY <1>3, <2>1, <2>2, <2>3, <2>4, <2>5, <2>6, Accounts
<1> QED
  BY <1>4, <1>5, <1>6 DEF AccountInv

LEMMA CatchesAccounts ==
    ASSUME Exclusive, Exclusive', OrderInv, AccountInv, NEW a \in Actors, FlushCatches(a)
    PROVE  AccountInv'
<1> DEFINE failed == [act EXCEPT ![a].pc = "failed", ![a].batch = <<>>]
           l == [act[a] EXCEPT !.pc = "failed", !.batch = <<>>]
<1>1. /\ TypeOK /\ TypeOK' /\ ActsType /\ sendLock = a /\ timer \in Timers \cup {None}
      /\ act[a] \in Locals /\ act[a].pc \in {"transient", "refused"} /\ act[a].pc # "idle"
      /\ queue \in Seq(Events)
  BY TakenType DEF Exclusive, TypeOK, ActsType, FlushCatches, At, OneDrain, DrainPlaces
<1>2. failed = [act EXCEPT ![a] = l] /\ l \in Locals /\ l.batch = <<>>
  BY <1>1, EmptySeq DEF ActsType, Locals, Places
<1>3. /\ failed \in [Actors -> Locals] /\ failed[a].batch = <<>>
      /\ \A b \in Actors \ {a} : failed[b] = act[b]
  BY <1>1, <1>2, OneType
<1>4. /\ \/ queue' = Requeued(a) /\ fate' = fate /\ Schedule(queue', failed)
         \/ /\ act' = failed /\ queue' = queue
            /\ fate' = Become(Hand(a), "abandoned")
         \/ /\ act' = failed /\ queue' = <<>>
            /\ fate' = Become(ToSet(act[a].batch \o queue), "refused")
      /\ store' = Persisted(queue') /\ boot' = boot /\ sendLock' = a /\ tracked' = tracked
  BY <1>1 DEF FlushCatches, Hand
<1> HIDE DEF failed, l
<1>5. act'[a].batch = <<>> /\ \A b \in Actors \ {a} : Calm(b)
  <2>1. \A b \in Actors : \/ act'[b] = failed[b]
                          \/ /\ failed[b].pc = "idle" /\ act'[b].pc = "armed"
                             /\ act'[b].batch = failed[b].batch
    BY <1>1, <1>3, <1>4, ScheduleType
  <2> QED
    BY <1>3, <2>1 DEF Calm, Sending
<1>6. boot # "off"
  BY <1>1, Runs
<1>7. CASE queue' = queue /\ fate' = Become(Hand(a), "abandoned")
  <2>1. Kept' \subseteq ToSet(queue) /\ (~PersistQueue => store'.queue = <<>>)
    BY <1>1, <1>4, <1>7, KeptPersisted DEF AccountInv
  <2>2. "abandoned" \in Fates \ {"pending"}
    BY DEF Fates
  <2> QED
    BY <1>1, <1>4, <1>5, <1>6, <1>7, <2>1, <2>2, HandSettled
<1> QED
  BY <1>1, <1>4, <1>5, <1>6, <1>7, RequeueAccounts, RefusedAccounts

LEMMA RequestAccounts ==
    ASSUME Exclusive, Exclusive', OrderInv, AccountInv, NEW a \in Actors,
           Retry(a) \/ Accept(a) \/ Fail(a, TRUE) \/ Fail(a, FALSE) \/ Break(a)
    PROVE  AccountInv'
<1>1. /\ TypeOK /\ TypeOK' /\ ActsType /\ act[a].pc = "sent" /\ act[a].pc # "idle"
      /\ act[a] \in Locals /\ "sent" \in Sending
  BY DEF Exclusive, TypeOK, ActsType, Retry, Accept, Fail, Break, At, Sending
<1>2. boot # "off" /\ (~PersistQueue => store.queue = <<>>)
  BY <1>1, Runs DEF AccountInv, Backed
<1>3. CASE Retry(a)
  <2>1. /\ act'[a].batch = act[a].batch /\ act'[a].pc = "sent"
        /\ \A b \in Actors \ {a} : act'[b] = act[b]
        /\ UNCHANGED <<boot, sendLock, store, queue, fate, tracked>>
    BY <1>1, <1>3 DEF Retry, ActsType, Locals, events
  <2>2. \A b \in Actors : Calm(b)
    BY <1>1, <2>1, OneCalm
  <2> QED
    BY <1>1, <1>2, <2>1, <2>2, CalmStep
<1>4. CASE sendLock = a /\ ~Retry(a) /\ ~Break(a)
  <2>1. /\ \E where \in {"persist", "transient", "refused"} : act' = Moved(a, where)
        /\ UNCHANGED <<boot, sendLock, store, queue, fate, tracked>>
    BY <1>4 DEF Accept, Fail, Draining, events
  <2>2. {"persist", "transient", "refused"} \subseteq Places \cap Sending
    BY DEF Places, Sending
  <2>3. /\ act'[a].batch = act[a].batch /\ act'[a].pc \in Sending
        /\ \A b \in Actors \ {a} : act'[b] = act[b]
    BY <1>1, <2>1, <2>2, MovedType
  <2>4. \A b \in Actors : Calm(b)
    BY <2>3, OneCalm
  <2> QED
    BY <1>1, <1>2, <2>1, <2>4, CalmStep
<1>5. CASE (sendLock # a /\ ~Retry(a)) \/ (sendLock = a /\ Break(a))
  <2>1. PICK how \in Fates \ {"pending"} :
          /\ fate' = Become(Hand(a), how) /\ (how = "dropped" \/ a # sendLock)
          /\ UNCHANGED <<queue, store, tracked>>
          /\ SettlesAlone(a, how) \/ (Leaves(a, FALSE) /\ sendLock = a)
    <3>1. {"accepted", "abandoned", "refused", "dropped"} \subseteq Fates \ {"pending"}
      BY DEF Fates
    <3>2. CASE sendLock # a
      <4>1. \E how \in Fates \ {"pending"} : SettlesAlone(a, how)
        BY <1>5, <3>1, <3>2 DEF Accept, Fail, Break, Draining
      <4> QED
        BY <3>2, <4>1 DEF SettlesAlone, Hand
    <3>3. CASE sendLock = a
      <4>1. /\ Leaves(a, FALSE) /\ fate' = Become(Hand(a), "dropped")
            /\ UNCHANGED <<queue, store, tracked>>
        BY <1>5, <3>3 DEF Break, Draining, Hand
      <4> QED
        BY <3>1, <3>3, <4>1
    <3> QED
      BY <3>2, <3>3
  <2>2. /\ act'[a].batch = <<>> /\ \A b \in Actors \ {a} : act'[b] = act[b]
        /\ boot' # "off" /\ (sendLock' = sendLock \/ sendLock = a)
    <3>1. CASE SettlesAlone(a, how)
      BY <1>1, <1>2, <3>1, NoCallType DEF SettlesAlone, ActsType
    <3>2. CASE Leaves(a, FALSE) /\ sendLock = a
      BY <1>1, <1>2, <3>2, AfterFlushType, AfterFlushRuns DEF Leaves
    <3> QED
      BY <2>1, <3>1, <3>2
  <2>3. \A b \in Actors \ {a} : Calm(b)
    BY <2>2 DEF Calm
  <2>4. Kept' = Kept
    BY <2>1 DEF Kept
  <2> QED
    BY <1>1, <1>2, <2>1, <2>2, <2>3, <2>4, HandSettled
<1> QED
  BY <1>3, <1>4, <1>5

LEMMA FlushAccounts ==
    ASSUME Exclusive, Exclusive', OrderInv, AccountInv, NEW a \in Actors, FlushOf(a)
    PROVE  AccountInv'
<1>1. CASE FlushCancels(a) \/ FlushEnters(a) \/ FlushTakes(a)
  BY <1>1, CancelsAccounts, EntersAccounts, TakesAccounts
<1>2. CASE FlushPersists(a) \/ FlushCatches(a)
  BY <1>2, PersistsAccounts, CatchesAccounts
<1>3. CASE FlushGivesUp(a)
  <2>1. /\ sendLock = a /\ act[a].pc \notin Sending /\ Leaves(a, ~ThrowOnError)
        /\ UNCHANGED <<queue, store, fate, tracked>>
    BY <1>3 DEF Exclusive, OneDrain, DrainPlaces, FlushGivesUp, At, Sending
  <2>2. (~ThrowOnError) \in BOOLEAN
    OBVIOUS
  <2> QED
    BY <2>1, <2>2, LeavesAccounts
<1>4. CASE Retry(a) \/ Accept(a) \/ Fail(a, TRUE) \/ Fail(a, FALSE) \/ Break(a)
  BY <1>4, RequestAccounts
<1> QED
  BY <1>1, <1>2, <1>3, <1>4 DEF FlushOf

(* After the end of the process the events to be sent are those of storage. *)
LEMMA CrashAccounts ==
    ASSUME Exclusive, Exclusive', AccountInv, Crash
    PROVE  AccountInv'
<1>1. /\ TypeOK /\ boot # "off" /\ boot' = "off" /\ store' = store /\ tracked' = tracked
      /\ act' = [a \in Actors |-> NoCall]
      /\ fate' = [e \in Events |-> CASE fate[e] = "pending" /\ e \notin Kept -> "lost"
                                     [] fate[e] = "dropped" /\ e \in Kept   -> "pending"
                                     [] OTHER                               -> fate[e]]
  BY DEF Exclusive, Crash, Kept
<1>2. Kept' = Kept /\ \A e \in Kept : fate[e] \in {"pending", "dropped"}
  BY <1>1 DEF Kept, AccountInv, Backed
<1>3. EventsAccounted'
  <2> SUFFICES ASSUME NEW e \in Events PROVE fate'[e] = "pending" <=> e \in Kept
    BY <1>1, <1>2, HandNext DEF EventsAccounted
  <2>1. CASE e \in Kept
    BY <1>1, <1>2, <2>1
  <2>2. CASE e \notin Kept
    BY <1>1, <2>2
  <2> QED
    BY <2>1, <2>2
<1>4. Fresh'
  <2> SUFFICES ASSUME NEW e \in Events, e > tracked PROVE fate'[e] = "new"
    BY <1>1 DEF Fresh
  <2>1. fate[e] = "new"
    BY DEF AccountInv, Fresh
  <2> QED
    BY <1>1, <2>1
<1>5. \A a \in Actors : act'[a].batch = <<>> /\ Hand(a)' = {}
  <2>1. ToSet(<<>>) = {}
    BY Members, EmptySeq
  <2> QED
    BY <1>1, <2>1, NoCallType DEF Hand
<1>6. Handless' /\ Apart'
  BY <1>5 DEF Handless, Apart
<1>7. Backed'
  BY <1>1 DEF AccountInv, Backed
<1> QED
  BY <1>3, <1>4, <1>6, <1>7 DEF AccountInv

LEMMA AccountNext ==
    ASSUME Exclusive, Exclusive', OrderInv, AccountInv, [Next]_vars
    PROVE  AccountInv'
<1>1. CASE Load
  BY <1>1, LoadAccounts DEF Exclusive
<1>2. ASSUME NEW t \in Threads, CallOf(t) PROVE AccountInv'
  BY <1>2, CallAccounts
<1>3. ASSUME NEW i \in Timers, TimerFires(i) \/ TimerRuns(i) PROVE AccountInv'
  BY <1>3, TimerAccounts
<1>4. ASSUME NEW a \in Actors, FlushOf(a) PROVE AccountInv'
  BY <1>4, FlushAccounts
<1>5. CASE Crash
  BY <1>5, CrashAccounts
<1>6. CASE UNCHANGED vars
  BY <1>6 DEF vars, AccountInv, EventsAccounted, InHand, Fresh, Handless, Apart, Backed, Hand,
              Kept
<1> QED
  BY <1>1, <1>2, <1>3, <1>4, <1>5, <1>6 DEF Next

(* Exactly the events nobody accepted, refused or gave up are still in the *)
(* hands of a thread, in the queue or, after a crash, in storage, for      *)
(* every number of threads, timers and events: no requeue, trim, retry or  *)
(* broken answer makes an event vanish without one of the outcomes of fate,*)
(* or keeps one that has its outcome.  Without persist_queue nobody reads  *)
(* a queue an earlier process stored, so then there must be none.          *)
THEOREM Accounted ==
    ASSUME PersistQueue \/ Leftover = 0
    PROVE  Spec => []EventsAccounted
<1>1. Init => AccountInv
  BY AccountInit
<1>2. Spec => []OrderInv
  BY OrderInit, OrderNext, ExclusiveInvariant, PTL DEF Spec
<1>3. Exclusive /\ Exclusive' /\ OrderInv /\ AccountInv /\ [Next]_vars => AccountInv'
  BY AccountNext
<1>4. Spec => []AccountInv
  BY <1>1, <1>2, <1>3, ExclusiveInvariant, PTL DEF Spec
<1>5. AccountInv => EventsAccounted
  BY DEF AccountInv
<1> QED
  BY <1>4, <1>5, PTL
-----------------------------------------------------------------------------
(* Nobody strands the queue *)

(* Thread b will look at the queue, or a timer will make it look.          *)
Minds(b) ==
    \/ b \in Timers /\ act[b].pc \in {"armed", "fired"}
    \/ act[b].pc \in {"schedule", "cancel", "lock", "take", "persist", "transient", "refused"}
    \/ sendLock = b /\ act[b].pc = "sent"

Minded == boot = "on" /\ queue # <<>> => \E b \in Actors : Minds(b)

(* The timer of the integration is one that is going to run. *)
Timed(i, acts) == i # None => i \in Timers /\ acts[i].pc \in {"armed", "fired"}

StrandInv == Minded /\ Timed(timer, act)

(* Thread a goes on, and still minds the queue if it did before and the    *)
(* queue is not empty.                                                     *)
LEMMA StrandStep ==
    ASSUME StrandInv, NEW a \in Actors, \A b \in Actors \ {a} : act'[b] = act[b],
           sendLock' = sendLock \/ sendLock \in {a, None},
           timer' = timer \/ timer' = None,
           timer' # a \/ act'[a].pc \in {"armed", "fired"},
           \/ Minds(a)'
           \/ ~Minds(a) /\ queue' = queue /\ (boot' = "on" => boot = "on")
           \/ queue' = <<>>
           \/ boot' # "on"
    PROVE  StrandInv'
<1> USE Kinds
<1>1. Minded'
  <2> SUFFICES ASSUME boot' = "on", queue' # <<>>, ~Minds(a)'
               PROVE  \E b \in Actors : Minds(b)'
    BY DEF Minded
  <2>1. PICK b \in Actors : Minds(b)
    BY DEF StrandInv, Minded
  <2>2. b # a /\ act'[b] = act[b]
    BY <2>1
  <2>3. Minds(b)'
    BY <2>1, <2>2 DEF Minds
  <2> QED
    BY <2>3
<1>2. Timed(timer, act)'
  BY DEF StrandInv, Timed
<1> QED
  BY <1>1, <1>2 DEF StrandInv

(* After _schedule a queue with an event has a timer. *)
LEMMA ScheduleTimed ==
    ASSUME NEW acts \in [Actors -> Locals], NEW s, timer \in Timers \cup {None},
           Schedule(s, acts), Timed(timer, acts)
    PROVE  Timed(timer, act)' /\ (s # <<>> => timer' # None)
<1>1. CASE ~NeedsTimer(s)
  BY <1>1 DEF Schedule, NeedsTimer, Timed
<1>2. CASE NeedsTimer(s)
  <2> DEFINE i == Min(FreeTimers(acts))
  <2>1. FreeTimers(acts) \subseteq Nat /\ FreeTimers(acts) # {}
    BY <1>2, Kinds DEF Schedule, FreeTimers
  <2>2. i \in Timers /\ i \in Actors /\ i # None /\ acts[i] \in Locals
    BY <2>1, SmallestNat, Kinds DEF FreeTimers
  <2>3. timer' = i /\ act' = [acts EXCEPT ![i].pc = "armed"]
    BY <1>2 DEF Schedule
  <2> HIDE DEF i
  <2>4. act'[i].pc = "armed"
    BY <2>2, <2>3 DEF Locals
  <2> QED
    BY <2>2, <2>3, <2>4 DEF Timed
<1> QED
  BY <1>1, <1>2

LEMMA ScheduledStrand ==
    ASSUME NEW acts \in [Actors -> Locals], NEW s, timer \in Timers \cup {None},
           Schedule(s, acts), Timed(timer, acts), boot' = "on" /\ queue' # <<>> => s # <<>>
    PROVE  StrandInv'
<1>1. Timed(timer, act)' /\ (s # <<>> => timer' # None)
  BY ScheduleTimed
<1>2. ASSUME timer' # None PROVE \E b \in Actors : Minds(b)'
  <2>1. PICK i \in Timers : i = timer'
    BY <1>1, <1>2 DEF Timed
  <2>2. i \in Actors /\ Minds(i)'
    BY <1>1, <1>2, <2>1, Kinds DEF Timed, Minds
  <2> QED
    BY <2>2
<1> QED
  BY <1>1, <1>2 DEF StrandInv, Minded

LEMMA LoadStrand ==
    ASSUME Exclusive, OrderInv, StrandInv, Load
    PROVE  StrandInv'
<1>1. /\ boot = "off" /\ queue = <<>> /\ act \in [Actors -> Locals]
      /\ timer \in Timers \cup {None} /\ \A a \in Actors : act[a].pc = "idle"
  BY DEF Load, Exclusive, TypeOK, OrderInv, Still
<1>2. timer = None
  BY <1>1, Kinds DEF StrandInv, Timed
<1>3. CASE PersistQueue /\ store.queue # <<>>
  <2>1. Schedule(queue', act) /\ Timed(timer, act)
    BY <1>2, <1>3 DEF Load, Timed
  <2> DEFINE s == queue'
  <2>2. Schedule(s, act) /\ (boot' = "on" /\ queue' # <<>> => s # <<>>)
    BY <2>1
  <2> HIDE DEF s
  <2> QED
    BY <1>1, <2>1, <2>2, ScheduledStrand
<1>4. CASE ~(PersistQueue /\ store.queue # <<>>)
  <2>1. queue' = <<>>
    <3>1. <<>> \in Seq(Events) /\ <<>> \o <<>> = <<>>
      BY EmptySeq, ConcatEmptySeq
    <3>2. Newest(<<>>) = <<>>
      <4>1. Newest(<<>>) \in Seq(Events) /\ Len(Newest(<<>>)) = Smaller(MaxQueueSize, 0)
        BY <3>1, NewestProps, EmptySeq
      <4>2. Smaller(MaxQueueSize, 0) = 0
        BY PyConfigAssumption DEF Smaller
      <4> QED
        BY <4>1, <4>2, EmptySeq
    <3> QED
      BY <1>1, <1>4, <3>1, <3>2 DEF Load
  <2>2. timer' = timer
    BY <1>4 DEF Load
  <2> QED
    BY <1>2, <2>1, <2>2 DEF StrandInv, Minded, Timed
<1> QED
  BY <1>3, <1>4

LEMMA CallStrand ==
    ASSUME Exclusive, StrandInv, NEW t \in Threads, CallOf(t)
    PROVE  StrandInv'
<1>1. /\ act \in [Actors -> Locals] /\ t \in Actors /\ timer \in Timers \cup {None}
      /\ t \notin Timers /\ timer # t /\ ActsType
  BY Kinds DEF Exclusive, TypeOK, ActsType
<1>2. CASE Track(t)
  <2>1. /\ act' = In(t, "track", IF Len(queue') >= BatchSize THEN "cancel" ELSE "schedule")
        /\ sendLock' = sendLock /\ timer' = timer
    BY <1>2 DEF Track
  <2>2. /\ act'[t].pc \in {"cancel", "schedule"}
        /\ \A b \in Actors \ {t} : act'[b] = act[b]
    BY <1>1, <2>1 DEF In, NoCall
  <2>3. Minds(t)'
    BY <2>2 DEF Minds
  <2> QED
    BY <1>1, <2>1, <2>2, <2>3, StrandStep
<1>3. CASE TrackSchedules(t)
  <2> DEFINE acts == [act EXCEPT ![t] = NoCall]
  <2>1. /\ acts \in [Actors -> Locals] /\ \A b \in Actors \ {t} : acts[b] = act[b]
    BY <1>1, NoCallType, OneType
  <2>2. Schedule(queue, acts) /\ queue' = queue
    BY <1>3 DEF TrackSchedules, events
  <2> HIDE DEF acts
  <2>3. Timed(timer, acts)
    BY <1>1, <2>1, Kinds DEF StrandInv, Timed
  <2> QED
    BY <1>1, <2>1, <2>2, <2>3, ScheduledStrand
<1>4. CASE Stops(t)
  <2>1. timer' = None /\ boot' = "closed"
    BY <1>4 DEF Stops
  <2> QED
    BY <2>1 DEF StrandInv, Minded, Timed
<1>5. ASSUME /\ act[t].pc \in {"idle", "remember", "rememberFlag", "storeUser", "storeFlag"}
             /\ \A b \in Actors \ {t} : act'[b] = act[b]
             /\ UNCHANGED <<boot, queue, timer, sendLock>>
      PROVE  StrandInv'
  <2>1. ~Minds(t)
    BY <1>1, <1>5 DEF Minds
  <2> QED
    BY <1>1, <1>5, <2>1, StrandStep
<1>6. CASE TrackSingle(t)
  <2>1. \A b \in Actors \ {t} : act'[b] = act[b]
    BY <1>1, <1>6 DEF TrackSingle, In
  <2> QED
    BY <1>5, <1>6, <2>1 DEF TrackSingle, Starts, At
<1>7. CASE (\E c \in Customs : Identify(t, c)) \/ Reset(t) \/ Flush(t) \/ Shutdown(t)
  <2>1. PICK goal, where, id : Calls(t, goal, where, id) /\ act[t].pc = "idle"
    BY <1>7 DEF Identify, Reset, Flush, Shutdown, Starts, At
  <2>2. /\ \A b \in Actors \ {t} : act'[b] = act[b]
        /\ UNCHANGED <<boot, queue, timer, sendLock>>
    BY <1>1, <2>1 DEF Calls, In, events
  <2> QED
    BY <1>5, <2>1, <2>2
<1>8. CASE Remember(t) \/ RememberFlag(t) \/ StoreUser(t) \/ StoreFlag(t)
  <2>1. /\ act[t].pc \in {"remember", "rememberFlag", "storeUser", "storeFlag"}
        /\ UNCHANGED <<boot, queue, timer, sendLock>>
    BY <1>8 DEF Remember, RememberFlag, StoreUser, StoreFlag, At, events
  <2>2. \A b \in Actors \ {t} : act'[b] = act[b]
    BY <1>1, <1>8 DEF Remember, RememberFlag, StoreUser, StoreFlag, Moved
  <2> QED
    BY <1>5, <2>1, <2>2
<1> QED
  BY <1>2, <1>3, <1>4, <1>6, <1>7, <1>8 DEF CallOf

LEMMA TimerStrand ==
    ASSUME Exclusive, StrandInv, NEW i \in Timers, TimerFires(i) \/ TimerRuns(i)
    PROVE  StrandInv'
<1>1. /\ act \in [Actors -> Locals] /\ i \in Actors /\ act[i] \in Locals
      /\ sendLock' = sendLock /\ i # None
  BY Kinds DEF Exclusive, TypeOK, TimerFires, TimerRuns
<1>2. CASE TimerFires(i)
  <2>1. act' = Moved(i, "fired") /\ timer' = timer
    BY <1>2 DEF TimerFires
  <2>2. act'[i].pc = "fired" /\ \A b \in Actors \ {i} : act'[b] = act[b]
    BY <1>1, <2>1 DEF Moved, Locals
  <2>3. Minds(i)'
    BY <2>2 DEF Minds
  <2> QED
    BY <1>1, <2>1, <2>2, <2>3, StrandStep
<1>3. CASE TimerRuns(i)
  <2>1. act' = In(i, "timer", "cancel") /\ timer' = None
    BY <1>3 DEF TimerRuns
  <2>2. act'[i].pc = "cancel" /\ \A b \in Actors \ {i} : act'[b] = act[b]
    BY <1>1, <2>1 DEF In, NoCall
  <2>3. Minds(i)'
    BY <2>2 DEF Minds
  <2> QED
    BY <1>1, <2>1, <2>2, <2>3, StrandStep
<1> QED
  BY <1>2, <1>3
(* A flush that failed has let go of its batch. *)
LEMMA FailedType ==
    ASSUME ActsType, NEW a \in Actors
    PROVE  LET acts == [act EXCEPT ![a].pc = "failed", ![a].batch = <<>>]
           IN  /\ acts \in [Actors -> Locals] /\ acts[a].batch = <<>>
               /\ \A b \in Actors \ {a} : acts[b] = act[b]
<1> DEFINE acts == [act EXCEPT ![a].pc = "failed", ![a].batch = <<>>]
           l    == [act[a] EXCEPT !.pc = "failed", !.batch = <<>>]
<1>1. act[a] \in Locals /\ "failed" \in Places /\ <<>> \in Seq(Events)
  BY EmptySeq DEF ActsType, Places
<1>2. l \in Locals /\ l.batch = <<>>
  BY <1>1 DEF Locals
<1>3. acts = [act EXCEPT ![a] = l]
  BY DEF ActsType
<1> HIDE DEF l, acts
<1>4. acts \in [Actors -> Locals] /\ acts[a] = l /\ \A b \in Actors \ {a} : acts[b] = act[b]
  BY <1>2, <1>3, OneType
<1>5. /\ acts \in [Actors -> Locals] /\ acts[a].batch = <<>>
      /\ \A b \in Actors \ {a} : acts[b] = act[b]
  BY <1>2, <1>4
<1> QED
  BY <1>5 DEF acts

LEMMA FlushStrand ==
    ASSUME RequeueFailedEvents, ~BodiesBreak, Exclusive, StrandInv, NEW a \in Actors, FlushOf(a)
    PROVE  StrandInv'
<1>1. /\ act \in [Actors -> Locals] /\ act[a] \in Locals /\ ActsType /\ sendLock \in Actors \cup {None}
      /\ timer \in Timers \cup {None} /\ a # None /\ OneDrain
  BY Kinds DEF Exclusive, TypeOK, ActsType
<1>2. timer = a => act[a].pc \in {"armed", "fired"}
  BY <1>1, Kinds DEF StrandInv, Timed
<1>3. CASE FlushCancels(a)
  <2> DEFINE acts == Moved(a, "lock")
  <2>1. /\ acts \in [Actors -> Locals] /\ acts[a].pc = "lock"
        /\ timer' = None /\ act' = Cancelled(acts) /\ act[a].pc = "cancel"
        /\ queue' = queue /\ boot' = boot /\ sendLock' = sendLock
    BY <1>1, <1>3, MovedType DEF FlushCancels, At, Places, events
  <2> HIDE DEF acts
  <2>2. act'[a] = acts[a]
    BY <1>1, <2>1, CancelledType
  <2>3. Minds(a)'
    BY <2>1, <2>2 DEF Minds
  <2> QED
    BY <1>1, <2>1, <2>3, Kinds DEF StrandInv, Minded, Timed
<1>4. CASE FlushEnters(a) \/ FlushPersists(a)
  <2>1. /\ act[a].pc \in {"lock", "persist"} /\ timer' = timer
        /\ sendLock \in {a, None} \/ sendLock' = sendLock
    BY <1>4 DEF FlushEnters, FlushPersists, At
  <2>2. act'[a].pc = "take" /\ \A b \in Actors \ {a} : act'[b] = act[b]
    BY <1>1, <1>4 DEF FlushEnters, FlushPersists, Moved, Locals
  <2>3. Minds(a)'
    BY <2>2 DEF Minds
  <2> QED
    BY <1>1, <1>2, <2>1, <2>2, <2>3, StrandStep
<1>5. CASE FlushTakes(a)
  <2>1. /\ act[a].pc = "take" /\ timer' = timer /\ sendLock = a
        /\ \A b \in Actors \ {a} : act'[b] = act[b]
    BY <1>1, <1>5 DEF FlushTakes, Leaves, AfterFlush, At, OneDrain, DrainPlaces
  <2>2. queue' = <<>> \/ Minds(a)'
    <3>1. CASE queue = <<>>
      BY <1>5, <3>1 DEF FlushTakes
    <3>2. CASE queue # <<>>
      <4>1. act'[a].pc = "sent" /\ sendLock' = a
        BY <1>1, <1>5, <2>1, <3>2 DEF FlushTakes, Locals
      <4> QED
        BY <4>1 DEF Minds
    <3> QED
      BY <3>1, <3>2
  <2> QED
    BY <1>1, <1>2, <2>1, <2>2, StrandStep
<1>6. CASE FlushCatches(a)
  <2> DEFINE acts == [act EXCEPT ![a].pc = "failed", ![a].batch = <<>>]
  <2>1. /\ acts \in [Actors -> Locals] /\ \A b \in Actors \ {a} : acts[b] = act[b]
    BY <1>1, FailedType
  <2>2. act[a].pc \in {"transient", "refused"} /\ sendLock = a /\ sendLock' = a
    BY <1>1, <1>6 DEF FlushCatches, At, OneDrain, DrainPlaces
  <2>3. timer # a /\ Timed(timer, acts)
    BY <1>1, <1>2, <2>1, <2>2, Kinds DEF StrandInv, Timed
  <2>4. \/ Schedule(queue', acts)
        \/ queue' = <<>> /\ act' = acts /\ timer' = timer
    BY <1>6 DEF FlushCatches
  <2> DEFINE s == queue'
  <2>5. CASE Schedule(s, acts)
    <3>1. boot' = "on" /\ queue' # <<>> => s # <<>>
      OBVIOUS
    <3> HIDE DEF s, acts
    <3> QED
      BY <1>1, <2>1, <2>3, <2>5, <3>1, ScheduledStrand
  <2>6. CASE queue' = <<>> /\ act' = acts /\ timer' = timer
    <3> HIDE DEF acts
    <3> QED
      BY <1>1, <2>1, <2>2, <2>3, <2>6, StrandStep
  <2> QED
    BY <2>4, <2>5, <2>6
<1>7. CASE FlushGivesUp(a)
  <2>1. /\ act[a].pc = "failed" /\ sendLock = a /\ UNCHANGED <<queue, timer>>
        /\ \A b \in Actors \ {a} : act'[b] = act[b]
        /\ boot' = "on" => boot = "on"
    BY <1>1, <1>7 DEF FlushGivesUp, Leaves, AfterFlush, At, OneDrain, DrainPlaces
  <2>2. ~Minds(a)
    BY <2>1 DEF Minds
  <2> QED
    BY <1>1, <1>2, <2>1, <2>2, StrandStep
<1>8. CASE Retry(a) \/ Accept(a) \/ Fail(a, TRUE) \/ Fail(a, FALSE)
  <2>1. act[a].pc = "sent" /\ UNCHANGED <<boot, queue, timer, sendLock>>
    BY <1>8 DEF Retry, Accept, Fail, SettlesAlone, At, events
  <2>2. \A b \in Actors \ {a} : act'[b] = act[b]
    BY <1>1, <1>8 DEF Retry, Accept, Fail, SettlesAlone, Moved
  <2>3. CASE sendLock = a
    <3>1. act'[a].pc \in {"sent", "persist", "transient", "refused"}
      BY <1>1, <1>8, <2>1, <2>3 DEF Retry, Accept, Fail, Draining, Moved, Locals
    <3>2. Minds(a)'
      BY <2>1, <2>3, <3>1 DEF Minds
    <3> QED
      BY <1>1, <1>2, <2>1, <2>2, <3>2, StrandStep
  <2>4. CASE sendLock # a
    <3>1. ~Minds(a)
      BY <2>1, <2>4 DEF Minds
    <3> QED
      BY <1>1, <1>2, <2>1, <2>2, <3>1, StrandStep
  <2> QED
    BY <2>3, <2>4
<1>9. ~Break(a)
  BY DEF Break
<1> QED
  BY <1>3, <1>4, <1>5, <1>6, <1>7, <1>8, <1>9 DEF FlushOf

LEMMA StrandNext ==
    ASSUME RequeueFailedEvents, ~BodiesBreak, Exclusive, OrderInv, StrandInv, [Next]_vars
    PROVE  StrandInv'
<1>1. CASE Load
  BY <1>1, LoadStrand
<1>2. ASSUME NEW t \in Threads, CallOf(t) PROVE StrandInv'
  BY <1>2, CallStrand
<1>3. ASSUME NEW i \in Timers, TimerFires(i) \/ TimerRuns(i) PROVE StrandInv'
  BY <1>3, TimerStrand
<1>4. ASSUME NEW a \in Actors, FlushOf(a) PROVE StrandInv'
  BY <1>4, FlushStrand
<1>5. CASE Crash
  BY <1>5 DEF Crash, StrandInv, Minded, Timed
<1>6. CASE UNCHANGED vars
  BY <1>6 DEF vars, StrandInv, Minded, Minds, Timed
<1> QED
  BY <1>1, <1>2, <1>3, <1>4, <1>5, <1>6 DEF Next

(* With failed batches requeued and no answer that breaks off, a queued    *)
(* event of a running client always has a timer that will fire, or a       *)
(* thread that is about to look at the queue, for every number of threads  *)
(* and timers: neither the gap between the two steps of track, nor a timer *)
(* that clears the field of its successor, nor a flush that cancels while  *)
(* another one sends, leaves the queue alone.                              *)
THEOREM NobodyStrandsTheQueue ==
    ASSUME RequeueFailedEvents, ~BodiesBreak
    PROVE  Spec => []NoStrandedQueue
<1>1. Init => StrandInv
  BY DEF Init, StrandInv, Minded, Timed
<1>2. Exclusive /\ OrderInv /\ StrandInv /\ [Next]_vars => StrandInv'
  BY StrandNext
<1>3. Exclusive /\ StrandInv => NoStrandedQueue
  <2> SUFFICES ASSUME Exclusive, boot = "on", queue # <<>>, NEW b \in Actors, Minds(b)
               PROVE  NoStrandedQueue
    BY DEF StrandInv, Minded, NoStrandedQueue
  <2>1. act[b].pc \in {"transient", "refused"} => sendLock = b
    BY DEF Exclusive, OneDrain, DrainPlaces
  <2>2. sendLock = b /\ act[b].pc # "failed" => NoStrandedQueue
    BY Kinds DEF NoStrandedQueue, At
  <2> QED
    BY <2>1, <2>2 DEF Minds, NoStrandedQueue, At
<1>4. Spec => []OrderInv
  BY OrderInit, OrderNext, ExclusiveInvariant, PTL DEF Spec
<1> QED
  BY <1>1, <1>2, <1>3, <1>4, ExclusiveInvariant, PTL DEF Spec
-----------------------------------------------------------------------------
(* With batching and without broken answers, the refinement of the         *)
(* abstract delivery: only the thread of the running flush holds events,   *)
(* and a restart finds the newest of those still to be sent.               *)

Alone     == \A a \in Actors : act[a].batch = <<>> \/ sendLock = a
Upper     == \A e \in Kept, f \in Events : fate[f] = "pending" /\ e < f => f \in Kept
Undropped == \A e \in Events : fate[e] # "dropped"

DeliveryInv == Alone /\ Upper /\ Undropped

(* Of an ordered queue a trim leaves the newest. *)
LEMMA NewestUpper ==
    ASSUME NEW s \in Seq(Events), Sorted(s), NEW e \in ToSet(Newest(s)), NEW f \in ToSet(s), e < f
    PROVE  f \in ToSet(Newest(s))
<1> DEFINE n == Len(s) - Smaller(MaxQueueSize, Len(s))
<1>1. Len(s) \in Nat /\ n \in Nat
  BY LenProperties, PyConfigAssumption DEF Smaller
<1>2. /\ Newest(s) \in Seq(Events) /\ Len(Newest(s)) = Len(s) - n
      /\ \A i \in 1..Len(Newest(s)) : Newest(s)[i] = s[i + n]
  <2>1. Len(s) - n = Smaller(MaxQueueSize, Len(s))
    BY <1>1, PyConfigAssumption DEF Smaller
  <2> QED
    BY <2>1, NewestProps
<1> HIDE DEF n
<1>3. PICK i \in 1..Len(Newest(s)) : Newest(s)[i] = e
  BY <1>2, Members
<1>4. PICK j \in 1..Len(s) : s[j] = f
  BY Members
<1>5. i + n \in 1..Len(s) /\ s[i + n] = e /\ i + n > n
  BY <1>1, <1>2, <1>3
<1>6. ~(j <= n)
  <2> SUFFICES ASSUME j <= n PROVE FALSE
    OBVIOUS
  <2>1. s[j] < s[i + n]
    BY <1>1, <1>5 DEF Sorted
  <2>2. e \in Nat /\ f \in Nat
    BY <1>4, <1>5, ElementOfSeq, PyInstanceAssumption DEF Events
  <2> QED
    BY <1>4, <1>5, <2>1, <2>2
<1>7. j - n \in 1..Len(Newest(s)) /\ Newest(s)[j - n] = f
  BY <1>1, <1>2, <1>4, <1>6
<1> QED
  BY <1>2, <1>7, Members

(* Who holds events, if not the flush, holds none. *)
LEMMA AloneStep ==
    ASSUME Alone, \A b \in Actors : act'[b].batch \in {act[b].batch, <<>>} \/ sendLock' = b,
           sendLock' = sendLock \/ sendLock = None
             \/ \E b \in Actors : sendLock = b /\ act'[b].batch = <<>>
    PROVE  Alone'
  BY Kinds DEF Alone

LEMMA AloneNext ==
    ASSUME BatchSize > 1, Exclusive, AccountInv, Alone, [Next]_vars
    PROVE  Alone'
<1>1. /\ act \in [Actors -> Locals] /\ \A b \in Actors : act[b] \in Locals
      /\ ActsType /\ timer \in Timers \cup {None} /\ OneDrain
  BY DEF Exclusive, TypeOK, ActsType
<1>2. ASSUME NEW a \in Actors, \A b \in Actors \ {a} : act'[b].batch = act[b].batch,
             act'[a].batch \in {act[a].batch, <<>>} \/ sendLock' = a,
             \/ sendLock' = sendLock \/ sendLock = None
             \/ sendLock = a /\ act'[a].batch = <<>>
      PROVE  Alone'
  BY <1>2, AloneStep
<1>3. ASSUME NEW acts \in [Actors -> Locals], NEW s, Schedule(s, acts), NEW a \in Actors,
             \A b \in Actors \ {a} : acts[b] = act[b], acts[a].batch = <<>>,
             sendLock' = sendLock
      PROVE  Alone'
  <2>1. \A b \in Actors : act'[b] = acts[b] \/ act'[b].batch = acts[b].batch
    BY <1>1, <1>3, ScheduleType
  <2> QED
    BY <1>2, <1>3, <2>1
<1>4. ASSUME NEW acts \in [Actors -> Locals], act' = Cancelled(acts), NEW a \in Actors,
             \A b \in Actors \ {a} : acts[b] = act[b],
             acts[a].batch \in {act[a].batch, <<>>},
             sendLock' = sendLock
      PROVE  Alone'
  <2>1. \A b \in Actors : act'[b] = acts[b] \/ act'[b] = NoCall
    BY <1>1, <1>4, CancelledType
  <2>2. \A b \in Actors : act'[b].batch \in {act[b].batch, <<>>}
    BY <1>4, <2>1, NoCallType
  <2> QED
    BY <1>4, <2>2, AloneStep
<1>5. CASE Load
  <2>1. sendLock' = sendLock
    BY <1>5 DEF Load
  <2>2. \A b \in Actors : act'[b].batch = act[b].batch
    <3> DEFINE s == queue'
    <3>1. Schedule(s, act) \/ act' = act
      BY <1>5 DEF Load
    <3> HIDE DEF s
    <3> QED
      BY <1>1, <3>1, ScheduleType
  <2> QED
    BY <2>1, <2>2, AloneStep
<1>6. ASSUME NEW t \in Threads, CallOf(t) PROVE Alone'
  <2>1. t \in Actors
    BY Kinds
  <2>2. ~TrackSingle(t)
    BY DEF TrackSingle
  <2>3. CASE Track(t)
    <3>1. /\ act'[t].batch = <<>> /\ \A b \in Actors \ {t} : act'[b] = act[b]
          /\ sendLock' = sendLock
      BY <1>1, <2>1, <2>3 DEF Track, In, NoCall
    <3> QED
      BY <1>2, <2>1, <3>1
  <2>4. CASE TrackSchedules(t)
    <3> DEFINE acts == [act EXCEPT ![t] = NoCall]
    <3>1. /\ acts \in [Actors -> Locals] /\ \A b \in Actors \ {t} : acts[b] = act[b]
          /\ acts[t].batch = <<>>
      BY <1>1, <2>1, NoCallType, OneType
    <3>2. Schedule(queue, acts) /\ sendLock' = sendLock
      BY <2>4 DEF TrackSchedules
    <3> HIDE DEF acts
    <3> QED
      BY <1>3, <2>1, <3>1, <3>2
  <2>5. CASE (\E c \in Customs : Identify(t, c)) \/ Reset(t) \/ Flush(t) \/ Shutdown(t)
    <3>1. PICK goal, where, id : Calls(t, goal, where, id)
      BY <2>5 DEF Identify, Reset, Flush, Shutdown
    <3>2. /\ act'[t].batch = <<>> /\ \A b \in Actors \ {t} : act'[b] = act[b]
          /\ sendLock' = sendLock
      BY <1>1, <2>1, <3>1 DEF Calls, In, NoCall
    <3> QED
      BY <1>2, <2>1, <3>2
  <2>6. CASE Stops(t)
    <3> DEFINE acts == [act EXCEPT ![t] = NoCall]
    <3>1. /\ acts \in [Actors -> Locals] /\ \A b \in Actors \ {t} : acts[b] = act[b]
          /\ acts[t].batch = <<>>
      BY <1>1, <2>1, NoCallType, OneType
    <3>2. act' = Cancelled(acts) /\ sendLock' = sendLock
      BY <2>6 DEF Stops
    <3> HIDE DEF acts
    <3> QED
      BY <1>4, <2>1, <3>1, <3>2
  <2>7. CASE Remember(t) \/ RememberFlag(t) \/ StoreUser(t) \/ StoreFlag(t)
    <3>1. /\ act'[t].batch \in {act[t].batch, <<>>} /\ sendLock' = sendLock
          /\ \A b \in Actors \ {t} : act'[b] = act[b]
      <4>1. CASE Remember(t)
        BY <1>1, <2>1, <4>1 DEF Remember, Locals
      <4>2. CASE RememberFlag(t) \/ StoreUser(t)
        BY <1>1, <2>1, <4>2 DEF RememberFlag, StoreUser, Moved, Locals
      <4>3. CASE StoreFlag(t)
        BY <1>1, <2>1, <4>3, NoCallType DEF StoreFlag, Moved, Locals
      <4> QED
        BY <2>7, <4>1, <4>2, <4>3
    <3> QED
      BY <1>2, <2>1, <3>1
  <2> QED
    BY <1>6, <2>2, <2>3, <2>4, <2>5, <2>6, <2>7 DEF CallOf
<1>7. ASSUME NEW i \in Timers, TimerFires(i) \/ TimerRuns(i) PROVE Alone'
  <2>1. i \in Actors
    BY Kinds
  <2>2. /\ act'[i].batch \in {act[i].batch, <<>>} /\ sendLock' = sendLock
        /\ \A b \in Actors \ {i} : act'[b] = act[b]
    <3>1. CASE TimerFires(i)
      BY <1>1, <2>1, <3>1 DEF TimerFires, Moved, Locals
    <3>2. CASE TimerRuns(i)
      BY <1>1, <2>1, <3>2 DEF TimerRuns, In, NoCall
    <3> QED
      BY <1>7, <3>1, <3>2
  <2> QED
    BY <1>2, <2>1, <2>2
<1>8. ASSUME NEW a \in Actors, FlushOf(a) PROVE Alone'
  <2>1. CASE FlushCancels(a)
    <3> DEFINE acts == Moved(a, "lock")
    <3>1. /\ acts \in [Actors -> Locals] /\ \A b \in Actors \ {a} : acts[b] = act[b]
          /\ acts[a].batch = act[a].batch /\ "lock" \in Places
      BY <1>1, MovedType DEF Places
    <3>2. act' = Cancelled(acts) /\ sendLock' = sendLock
      BY <2>1 DEF FlushCancels
    <3> HIDE DEF acts
    <3> QED
      BY <1>4, <3>1, <3>2
  <2>2. CASE FlushEnters(a)
    <3>1. /\ sendLock = None /\ sendLock' = a
          /\ \A b \in Actors \ {a} : act'[b] = act[b]
      BY <1>1, <2>2 DEF FlushEnters, Moved
    <3> QED
      BY <1>2, <3>1
  <2>3. ASSUME NEW ok, Leaves(a, ok), sendLock = a PROVE Alone'
    <3>1. /\ act'[a].batch = <<>> /\ \A b \in Actors \ {a} : act'[b] = act[b]
      <4> DEFINE goal == act[a].goal
                 l == CASE goal = "reset" /\ ok    -> [NoCall EXCEPT !.pc = "remember", !.goal = goal]
                        [] goal = "shutdown" /\ ok -> [NoCall EXCEPT !.pc = "stop", !.goal = goal]
                        [] OTHER                   -> NoCall
      <4>1. act' = [act EXCEPT ![a] = l]
        BY <2>3 DEF Leaves, AfterFlush
      <4>2. l.batch = <<>>
        BY DEF NoCall
      <4> HIDE DEF l
      <4> QED
        BY <1>1, <4>1, <4>2
    <3> QED
      BY <1>2, <2>3, <3>1
  <2>4. CASE FlushTakes(a)
    <3>1. sendLock = a
      BY <1>1, <2>4 DEF FlushTakes, At, OneDrain, DrainPlaces
    <3>2. CASE queue = <<>>
      BY <2>3, <2>4, <3>1, <3>2 DEF FlushTakes
    <3>3. CASE queue # <<>>
      <4>1. sendLock' = a /\ \A b \in Actors \ {a} : act'[b] = act[b]
        BY <1>1, <2>4, <3>1, <3>3 DEF FlushTakes
      <4> QED
        BY <1>2, <3>1, <4>1
    <3> QED
      BY <3>2, <3>3
  <2>5. CASE FlushPersists(a)
    <3>1. /\ act'[a].batch = <<>> /\ \A b \in Actors \ {a} : act'[b] = act[b]
          /\ sendLock' = sendLock
      BY <1>1, <2>5 DEF FlushPersists, Locals
    <3> QED
      BY <1>2, <3>1
  <2>6. CASE FlushCatches(a)
    <3> DEFINE acts == [act EXCEPT ![a].pc = "failed", ![a].batch = <<>>]
               s == queue'
    <3>1. /\ acts \in [Actors -> Locals] /\ \A b \in Actors \ {a} : acts[b] = act[b]
          /\ acts[a].batch = <<>>
      BY <1>1, FailedType
    <3>2. (Schedule(s, acts) \/ act' = acts) /\ sendLock' = sendLock
      BY <2>6 DEF FlushCatches
    <3> HIDE DEF acts, s
    <3> QED
      BY <1>2, <1>3, <3>1, <3>2
  <2>7. CASE FlushGivesUp(a)
    <3>1. sendLock = a /\ Leaves(a, ~ThrowOnError)
      BY <1>1, <2>7 DEF FlushGivesUp, At, OneDrain, DrainPlaces
    <3> QED
      BY <2>3, <3>1
  <2>8. CASE Retry(a) \/ Accept(a) \/ Fail(a, TRUE) \/ Fail(a, FALSE)
    <3>1. /\ sendLock' = sendLock /\ act'[a].batch \in {act[a].batch, <<>>}
          /\ \A b \in Actors \ {a} : act'[b] = act[b]
      <4>1. CASE Retry(a)
        BY <1>1, <4>1 DEF Retry, Locals
      <4>2. CASE Accept(a)
        BY <1>1, <4>2, NoCallType DEF Accept, SettlesAlone, Moved, Locals
      <4>3. CASE Fail(a, TRUE) \/ Fail(a, FALSE)
        BY <1>1, <4>3, NoCallType DEF Fail, SettlesAlone, Moved, Locals
      <4> QED
        BY <2>8, <4>1, <4>2, <4>3
    <3> QED
      BY <1>2, <3>1
  <2>9. CASE Break(a)
    <3>1. CASE sendLock = a
      BY <2>3, <2>9, <3>1 DEF Break, Draining
    <3>2. CASE sendLock # a
      <4>1. /\ sendLock' = sendLock /\ act'[a].batch = <<>>
            /\ \A b \in Actors \ {a} : act'[b] = act[b]
        BY <1>1, <2>9, <3>2, NoCallType DEF Break, Draining, SettlesAlone
      <4> QED
        BY <1>2, <4>1
    <3> QED
      BY <3>1, <3>2
  <2> QED
    BY <1>8, <2>1, <2>2, <2>4, <2>5, <2>6, <2>7, <2>8, <2>9 DEF FlushOf
<1>9. CASE Crash
  BY <1>9, NoCallType DEF Crash, Alone
<1>10. CASE UNCHANGED vars
  BY <1>10 DEF vars, Alone
<1> QED
  BY <1>5, <1>6, <1>7, <1>8, <1>9, <1>10 DEF Next
Pending  == {e \in Events : fate[e] = "pending"}
Accepted == {e \in Events : fate[e] = "accepted"}

(* What a step does to the events: nothing, one is born and some shed, or  *)
(* the oldest of those to be sent are settled.                             *)
Unsettled == UNCHANGED <<fate, tracked>>
Born(shed) ==
    /\ tracked' = tracked + 1 /\ tracked' \in Events /\ store' = Persisted(queue')
    /\ shed \subseteq Pending
    /\ \A e \in Events : fate'[e] = IF e = tracked' THEN "pending"
                                    ELSE IF e \in shed THEN "trimmed" ELSE fate[e]
Ends == {"accepted", "refused", "abandoned", "lost"}
Settled(S, how) ==
    /\ tracked' = tracked /\ S \subseteq Pending
    /\ \A e \in S, f \in Pending \ S : e < f
    /\ \A e \in Events : fate'[e] = IF e \in S THEN how ELSE fate[e]
Moves == \/ Unsettled
         \/ \E shed \in SUBSET Events : Born(shed)
         \/ \E S \in SUBSET Events, how \in Ends : Settled(S, how)

(* The events of the running flush are the oldest. *)
LEMMA BatchOldest ==
    ASSUME Exclusive, OrderInv, AccountInv, Alone, boot # "off", NEW a \in Actors, sendLock = a
    PROVE  /\ Hand(a) \subseteq Pending /\ Pending = Hand(a) \cup ToSet(queue)
           /\ \A e \in Hand(a), f \in Pending \ Hand(a) : e < f
<1>1. \A e : Has(e) <=> e \in Pending
  BY HeldPending DEF Exclusive, Pending
<1>2. \A b \in Actors \ {a} : Hand(b) = {}
  BY Members, EmptySeq DEF Alone, Hand
<1>3. Pending = Hand(a) \cup ToSet(queue)
  BY <1>1, <1>2 DEF Has
<1>4. ASSUME NEW e \in Hand(a), NEW f \in ToSet(queue) PROVE e < f
  <2>1. /\ Taken = act[a].batch /\ Taken \in Seq(Events) /\ queue \in Seq(Events)
        /\ Sorted(Taken \o queue)
    BY TakenType, Kinds DEF Exclusive, OrderInv, Tidy, Taken
  <2>2. \A i \in 1..Len(Taken), j \in 1..Len(queue) : Taken[i] < queue[j]
    BY <2>1, ConcatSorted
  <2>3. PICK i \in 1..Len(Taken) : Taken[i] = e
    BY <1>4, <2>1, Members DEF Hand
  <2>4. PICK j \in 1..Len(queue) : queue[j] = f
    BY <1>4, <2>1, Members
  <2> QED
    BY <2>2, <2>3, <2>4
<1> QED
  BY <1>3, <1>4

LEMMA TrackMoves ==
    ASSUME Exclusive, Exclusive', AccountInv, NEW t \in Threads, Track(t)
    PROVE  Moves
<1> DEFINE shed == ToSet(queue) \ ToSet(queue')
<1>1. /\ boot # "off" /\ tracked' = tracked + 1 /\ store' = Persisted(queue')
      /\ fate' = [Become(shed, "trimmed") EXCEPT ![tracked + 1] = "pending"]
      /\ tracked + 1 \in Events
  BY PyInstanceAssumption DEF Track, Starts, Events, Exclusive, TypeOK
<1>2. shed \subseteq Pending /\ Pending \subseteq Events
  BY <1>1, HeldPending DEF Pending, Has, Exclusive
<1>3. \A e \in Events : fate'[e] = IF e = tracked' THEN "pending"
                                   ELSE IF e \in shed THEN "trimmed" ELSE fate[e]
  BY <1>1 DEF Become
<1> HIDE DEF shed
<1>4. Born(shed)
  BY <1>1, <1>2, <1>3 DEF Born
<1> QED
  BY <1>2, <1>4 DEF Moves

(* A request outside a flush has no events here. *)
LEMMA AloneSettles ==
    ASSUME TypeOK, Alone, NEW a \in Actors, sendLock # a, NEW how,
           fate' = Become(ToSet(act[a].batch), how)
    PROVE  fate' = fate
<1>1. ToSet(act[a].batch) = {}
  BY Members, EmptySeq DEF Alone
<1> QED
  BY <1>1 DEF Become, TypeOK

LEMMA FlushMoves ==
    ASSUME ~BodiesBreak, Exclusive, OrderInv, AccountInv, Alone, NEW a \in Actors, FlushOf(a)
    PROVE  Moves
<1>1. boot # "off" /\ TypeOK /\ OneDrain
  BY Runs DEF FlushOf, FlushCancels, FlushEnters, FlushTakes, FlushPersists, FlushCatches,
              FlushGivesUp, Retry, Accept, Fail, Break, At, Exclusive
<1>2. ASSUME sendLock = a, NEW how \in Ends, tracked' = tracked,
             \/ fate' = Become(ToSet(act[a].batch), how)
             \/ fate' = Become(Pending, how)
      PROVE  Moves
  <2>1. ASSUME NEW S \in SUBSET Events, S = Hand(a) \/ S = Pending, fate' = Become(S, how)
        PROVE  Moves
    <3>1. S \subseteq Pending /\ \A e \in S, f \in Pending \ S : e < f
      BY <1>1, <1>2, <2>1, BatchOldest
    <3>2. \A e \in Events : fate'[e] = IF e \in S THEN how ELSE fate[e]
      BY <2>1 DEF Become
    <3>3. Settled(S, how)
      BY <1>2, <3>1, <3>2 DEF Settled
    <3> QED
      BY <1>2, <3>3 DEF Moves
  <2>2. Hand(a) \in SUBSET Events /\ Pending \in SUBSET Events
    BY <1>1, Subsets DEF Pending
  <2> QED
    BY <1>2, <2>1, <2>2 DEF Hand
<1>3. CASE FlushCancels(a) \/ FlushEnters(a) \/ FlushTakes(a) \/ FlushGivesUp(a) \/ Retry(a)
  BY <1>3 DEF FlushCancels, FlushEnters, FlushTakes, FlushGivesUp, Retry, events, Moves, Unsettled
<1>4. CASE FlushPersists(a)
  <2>1. sendLock = a
    BY <1>1, <1>4 DEF FlushPersists, At, OneDrain, DrainPlaces
  <2> QED
    BY <1>2, <1>4, <2>1 DEF FlushPersists, Ends
<1>5. CASE FlushCatches(a)
  <2>1. sendLock = a /\ tracked' = tracked
    BY <1>1, <1>5 DEF FlushCatches, At, OneDrain, DrainPlaces
  <2>2. \/ fate' = fate
        \/ fate' = Become(ToSet(act[a].batch), "abandoned")
        \/ fate' = Become(ToSet(act[a].batch \o queue), "refused")
    BY <1>5 DEF FlushCatches
  <2>3. ToSet(act[a].batch \o queue) = Pending
    <3>1. act[a].batch \in Seq(Events) /\ queue \in Seq(Events)
      BY <1>1, TakenType
    <3> QED
      BY <1>1, <2>1, <3>1, MembersConcat, BatchOldest DEF Hand
  <2> QED
    BY <1>2, <2>1, <2>2, <2>3 DEF Ends, Moves, Unsettled
<1>6. CASE Accept(a) \/ Fail(a, TRUE) \/ Fail(a, FALSE)
  <2>1. tracked' = tracked
    BY <1>6 DEF Accept, Fail, SettlesAlone, events
  <2>2. CASE sendLock = a
    BY <1>6, <2>2 DEF Accept, Fail, Draining, events, Moves, Unsettled
  <2>3. CASE sendLock # a
    <3>1. PICK how : fate' = Become(ToSet(act[a].batch), how)
      BY <1>6, <2>3 DEF Accept, Fail, Draining, SettlesAlone
    <3> QED
      BY <1>1, <2>1, <2>3, <3>1, AloneSettles DEF Moves, Unsettled
  <2> QED
    BY <2>2, <2>3
<1>7. ~Break(a)
  BY DEF Break
<1> QED
  BY <1>3, <1>4, <1>5, <1>6, <1>7 DEF FlushOf

(* What a crash loses is older than what storage keeps. *)
LEMMA CrashMoves ==
    ASSUME Exclusive, AccountInv, Upper, Undropped, Crash
    PROVE  Moves
<1> DEFINE S == Pending \ Kept
<1>1. /\ tracked' = tracked /\ TypeOK /\ boot # "off"
      /\ fate' = [e \in Events |-> CASE fate[e] = "pending" /\ e \notin Kept -> "lost"
                                     [] fate[e] = "dropped" /\ e \in Kept   -> "pending"
                                     [] OTHER                               -> fate[e]]
  BY DEF Crash, Kept, Exclusive
<1>2. \A e \in Events : fate'[e] = IF e \in S THEN "lost" ELSE fate[e]
  BY <1>1 DEF Undropped, Pending
<1>3. ASSUME NEW e \in S, NEW f \in Pending \ S PROVE e < f
  <2>1. f \in Kept /\ e \notin Kept /\ e \in Pending /\ f \in Pending
    BY <1>3
  <2>2. ~(f < e)
    BY <2>1 DEF Upper, Pending
  <2>3. e \in Nat /\ f \in Nat /\ e # f
    BY <2>1, PyInstanceAssumption DEF Pending, Events
  <2> QED
    BY <2>2, <2>3
<1>4. S \in SUBSET Events /\ S \subseteq Pending
  BY DEF Pending
<1> HIDE DEF S
<1>5. Settled(S, "lost")
  BY <1>1, <1>2, <1>3, <1>4 DEF Settled
<1> QED
  BY <1>4, <1>5 DEF Moves, Ends

LEMMA StepMoves ==
    ASSUME BatchSize > 1, ~BodiesBreak, Exclusive, Exclusive', OrderInv, AccountInv, DeliveryInv,
           [Next]_vars
    PROVE  Moves
<1>1. CASE Load
  BY <1>1 DEF Load, Moves, Unsettled
<1>2. ASSUME NEW t \in Threads, CallOf(t) PROVE Moves
  <2>1. CASE Track(t)
    BY <2>1, TrackMoves
  <2>2. ~TrackSingle(t)
    BY DEF TrackSingle
  <2>3. CASE (\E c \in Customs : Identify(t, c)) \/ Reset(t) \/ Flush(t) \/ Shutdown(t)
    BY <2>3 DEF Identify, Reset, Flush, Shutdown, Calls, events, Moves, Unsettled
  <2>4. CASE TrackSchedules(t) \/ Stops(t) \/ Remember(t) \/ RememberFlag(t) \/ StoreUser(t) \/ StoreFlag(t)
    BY <2>4 DEF TrackSchedules, Stops, Remember, RememberFlag, StoreUser, StoreFlag, events, Moves, Unsettled
  <2> QED
    BY <1>2, <2>1, <2>2, <2>3, <2>4 DEF CallOf
<1>3. ASSUME NEW i \in Timers, TimerFires(i) \/ TimerRuns(i) PROVE Moves
  BY <1>3 DEF TimerFires, TimerRuns, events, Moves, Unsettled
<1>4. ASSUME NEW a \in Actors, FlushOf(a) PROVE Moves
  BY <1>4, FlushMoves DEF DeliveryInv
<1>5. CASE Crash
  BY <1>5, CrashMoves DEF DeliveryInv
<1>6. CASE UNCHANGED vars
  BY <1>6 DEF vars, Moves, Unsettled
<1> QED
  BY <1>1, <1>2, <1>3, <1>4, <1>5, <1>6 DEF Next
(* Storage changes its queue only to the queue of the moment. *)
LEMMA StoreNext ==
    ASSUME TypeOK, [Next]_vars
    PROVE  store'.queue = store.queue \/ store' = Persisted(queue')
<1>1. CASE Load
  BY <1>1 DEF Load, TypeOK
<1>2. ASSUME NEW t \in Threads, CallOf(t) PROVE store'.queue = store.queue \/ store' = Persisted(queue')
  <2>1. CASE Track(t)
    BY <2>1 DEF Track
  <2>2. CASE StoreUser(t) \/ StoreFlag(t)
    BY <2>2 DEF StoreUser, StoreFlag, TypeOK
  <2>3. CASE \/ TrackSchedules(t) \/ TrackSingle(t) \/ (\E c \in Customs : Identify(t, c))
             \/ Reset(t) \/ Flush(t) \/ Shutdown(t) \/ Stops(t) \/ Remember(t) \/ RememberFlag(t)
    BY <2>3 DEF TrackSchedules, TrackSingle, Identify, Reset, Flush, Shutdown, Calls, Stops,
                Remember, RememberFlag
  <2> QED
    BY <1>2, <2>1, <2>2, <2>3 DEF CallOf
<1>3. ASSUME NEW i \in Timers, TimerFires(i) \/ TimerRuns(i) PROVE store' = store
  BY <1>3 DEF TimerFires, TimerRuns
<1>4. ASSUME NEW a \in Actors, FlushOf(a) PROVE store' = store \/ store' = Persisted(queue')
  <2>1. CASE FlushPersists(a) \/ FlushCatches(a)
    BY <2>1 DEF FlushPersists, FlushCatches
  <2>2. CASE ~(FlushPersists(a) \/ FlushCatches(a))
    BY <1>4, <2>2 DEF FlushOf, FlushCancels, FlushEnters, FlushTakes, FlushGivesUp, Retry, Accept,
                      Fail, Break, SettlesAlone
  <2> QED
    BY <2>1, <2>2
<1> QED
  BY <1>1, <1>2, <1>3, <1>4 DEF Next, Crash, vars

(* Where storage is up to date, or the client is off, it keeps the newest. *)
UpToDate ==
    \/ boot = "off" /\ EventsAccounted
    \/ Exclusive /\ OrderInv /\ AccountInv /\ Alone /\ boot # "off" /\ store.queue = queue
    \/ store.queue = <<>>

LEMMA StoredUpper == UpToDate => Upper
<1> SUFFICES ASSUME \/ boot = "off" /\ EventsAccounted
                    \/ Exclusive /\ OrderInv /\ AccountInv /\ Alone /\ boot # "off" /\ store.queue = queue
                    \/ store.queue = <<>>,
                    NEW e \in Kept, NEW f \in Events, fate[f] = "pending", e < f
             PROVE  f \in Kept
  BY DEF UpToDate, Upper
<1>1. CASE boot = "off" /\ EventsAccounted
  BY <1>1 DEF EventsAccounted, InHand, Kept
<1>2. CASE store.queue = <<>>
  <2>1. ToSet(Newest(<<>>)) \subseteq ToSet(<<>>) /\ ToSet(<<>>) = {}
    BY EmptySeq, MembersNewest, Members
  <2> QED
    BY <1>2, <2>1 DEF Kept
<1>3. CASE Exclusive /\ OrderInv /\ AccountInv /\ Alone /\ boot # "off" /\ store.queue = queue
  <2>1. /\ Taken \in Seq(Events) /\ queue \in Seq(Events) /\ Sorted(Taken \o queue)
        /\ e \in ToSet(queue)
    BY <1>3, TakenType, MembersNewest DEF Exclusive, OrderInv, Tidy, Kept
  <2>2. Sorted(queue) /\ \A i \in 1..Len(Taken), j \in 1..Len(queue) : Taken[i] < queue[j]
    BY <2>1, ConcatSorted
  <2>3. f \in ToSet(queue) \/ f \in ToSet(Taken)
    <3>1. Has(f)
      BY <1>3, HeldPending DEF Exclusive
    <3>2. ASSUME NEW a \in Actors PROVE Hand(a) = {} \/ Hand(a) = ToSet(Taken)
      <4>1. CASE act[a].batch = <<>>
        <5>1. ToSet(<<>>) = {}
          BY Members, EmptySeq
        <5> QED
          BY <4>1, <5>1 DEF Hand
      <4>2. CASE sendLock = a
        BY <4>2, Kinds DEF Hand, Taken
      <4> QED
        BY <1>3, <4>1, <4>2 DEF Alone
    <3> QED
      BY <3>1, <3>2 DEF Has
  <2>4. f \notin ToSet(Taken)
    <3> SUFFICES ASSUME f \in ToSet(Taken) PROVE FALSE
      OBVIOUS
    <3>1. PICK i \in 1..Len(Taken) : Taken[i] = f
      BY <2>1, Members
    <3>2. PICK j \in 1..Len(queue) : queue[j] = e
      BY <2>1, Members
    <3>3. f < e /\ e \in Nat /\ f \in Nat
      BY <2>1, <2>2, <3>1, <3>2, ElementOfSeq, PyInstanceAssumption DEF Events
    <3> QED
      BY <3>3
  <2> QED
    BY <1>3, <2>1, <2>2, <2>3, <2>4, NewestUpper DEF Kept
<1> QED
  BY <1>1, <1>2, <1>3

LEMMA StoredUpperNext == UpToDate' => Upper'
  BY StoredUpper, PTL

LEMMA InHandEvents == TypeOK => InHand \subseteq Events
  BY HandNow, Subsets

LEMMA InHandEventsNext == TypeOK' => (InHand \subseteq Events)'
  BY InHandEvents, PTL

LEMMA DeliveryNext ==
    ASSUME BatchSize > 1, ~BodiesBreak, Exclusive, Exclusive', OrderInv, OrderInv',
           AccountInv, AccountInv', DeliveryInv, [Next]_vars
    PROVE  DeliveryInv' /\ Moves
<1>1. Moves /\ Alone'
  BY StepMoves, AloneNext DEF DeliveryInv
<1>2. UpToDate' => Upper'
  BY StoredUpperNext
<1>3. Upper'
  <2>1. CASE boot' = "off" \/ store'.queue = <<>>
    BY <1>2, <2>1 DEF AccountInv, UpToDate
  <2>2. CASE boot' # "off" /\ store' = Persisted(queue')
    <3>1. store'.queue = queue' \/ store'.queue = <<>>
      BY <2>2 DEF Persisted, AccountInv, Backed, Exclusive, TypeOK
    <3> QED
      BY <1>1, <1>2, <2>2, <3>1 DEF UpToDate
  <2>3. CASE store'.queue = store.queue /\ store' # Persisted(queue')
    <3>1. \A f \in Events : fate'[f] = "pending" => fate[f] = "pending"
      BY <1>1, <2>3 DEF Moves, Unsettled, Born, Settled, Ends
    <3>2. Kept' = Kept
      BY <2>3 DEF Kept
    <3> QED
      BY <3>1, <3>2 DEF DeliveryInv, Upper
  <2> QED
    BY <2>1, <2>2, <2>3, StoreNext DEF Exclusive
<1>4. Undropped'
  BY <1>1 DEF DeliveryInv, Undropped, Moves, Unsettled, Born, Settled, Ends
<1> QED
  BY <1>1, <1>3, <1>4 DEF DeliveryInv

LEMMA MovesRefine ==
    ASSUME TypeOK, TypeOK', EventsAccounted, EventsAccounted', Fresh, Moves
    PROVE  Delivery!Next \/ UNCHANGED <<tracked, InHand, Accepted>>
<1>1. InHand = Pending
  BY InHandEvents DEF EventsAccounted, Pending
<1>2. InHand' = Pending'
  <2>1. InHand' \subseteq Events
    BY InHandEventsNext
  <2> QED
    BY <2>1 DEF EventsAccounted, Pending
<1>3. CASE Unsettled
  BY <1>1, <1>2, <1>3 DEF Unsettled, Pending, Accepted
<1>4. ASSUME NEW shed \in SUBSET Events, Born(shed) PROVE Delivery!Track
  <2>1. fate[tracked'] = "new"
    <3>1. tracked' > tracked /\ tracked' \in Events
      BY <1>4 DEF Born, TypeOK
    <3> QED
      BY <3>1 DEF Fresh
  <2>2. /\ tracked' = tracked + 1 /\ tracked' \in Events /\ shed \subseteq Pending
        /\ \A e \in Events : fate'[e] = IF e = tracked' THEN "pending"
                                        ELSE IF e \in shed THEN "trimmed" ELSE fate[e]
    BY <1>4 DEF Born
  <2>3. \A e \in Events : /\ e \in Pending' <=> e \in (Pending \ shed) \cup {tracked'}
                          /\ e \in Accepted' <=> e \in Accepted
    <3> TAKE e \in Events
    <3>1. CASE e = tracked'
      BY <2>1, <2>2, <3>1 DEF Pending, Accepted
    <3>2. CASE e # tracked'
      BY <2>2, <3>2 DEF Pending, Accepted
    <3> QED
      BY <3>1, <3>2
  <2>4. Pending' = (Pending \ shed) \cup {tracked'} /\ Accepted' = Accepted
    BY <2>2, <2>3 DEF Pending, Accepted
  <2> QED
    BY <1>1, <1>2, <2>2, <2>4 DEF Delivery!Track, Accepted
<1>5. ASSUME NEW S \in SUBSET Events, NEW how \in Ends, Settled(S, how)
      PROVE  Delivery!Deliver \/ Delivery!GiveUp \/ UNCHANGED <<tracked, InHand, Accepted>>
  <2>1. /\ S \subseteq Pending /\ tracked' = tracked /\ how # "pending"
        /\ \A e \in S, f \in Pending \ S : e < f
        /\ \A e \in Events : fate'[e] = IF e \in S THEN how ELSE fate[e]
    BY <1>5 DEF Settled, Ends
  <2>2. InHand' = InHand \ S
    BY <1>1, <1>2, <2>1 DEF Pending
  <2>3. Delivery!Oldest(S)
    BY <1>1, <2>1 DEF Delivery!Oldest
  <2>4. CASE S = {}
    BY <2>1, <2>2, <2>4 DEF Accepted
  <2>5. CASE S # {} /\ how = "accepted"
    <3>1. Accepted' = Accepted \cup S
      BY <2>1, <2>5 DEF Accepted
    <3> QED
      BY <1>1, <2>1, <2>2, <2>3, <2>5, <3>1 DEF Delivery!Deliver, Accepted
  <2>6. CASE S # {} /\ how # "accepted"
    <3>1. Accepted' = Accepted
      BY <2>1, <2>6 DEF Accepted, Pending
    <3> QED
      BY <1>1, <2>1, <2>2, <2>3, <2>6, <3>1 DEF Delivery!GiveUp, Accepted
  <2> QED
    BY <2>4, <2>5, <2>6
<1> QED
  BY <1>3, <1>4, <1>5 DEF Moves, Delivery!Next

(* With batching the threads together implement EventDelivery, for every   *)
(* number of threads, timers and events, with or without requeueing,       *)
(* persist_queue, raised errors and crashes: events are delivered or given *)
(* up oldest first and never come back.  An answer that breaks off is left *)
(* out, since what it drops from memory a restart finds in storage; and    *)
(* the history starts with an empty storage.                               *)
THEOREM DeliveryImplemented ==
    ASSUME BatchSize > 1, ~BodiesBreak, Leftover = 0
    PROVE  Spec => ImplementsDelivery
<1>1. Init => DeliveryInv /\ Delivery!Init
  <2> SUFFICES ASSUME Init PROVE DeliveryInv /\ Delivery!Init
    OBVIOUS
  <2>1. TypeOK /\ AccountInv /\ boot = "off" /\ tracked = 0
    BY TypeInit, AccountInit DEF Init
  <2>2. \A e \in Events : fate[e] = "new"
    BY PyInstanceAssumption DEF Init, Events
  <2>3. InHand = {} /\ Accepted = {}
    <3>1. InHand \subseteq Events
      BY <2>1, InHandEvents
    <3> QED
      BY <2>1, <2>2, <3>1 DEF AccountInv, EventsAccounted, Accepted
  <2>4. Alone /\ Upper /\ Undropped
    BY <2>2, NoCallType DEF Init, Alone, Upper, Undropped
  <2> QED
    BY <2>1, <2>3, <2>4 DEF DeliveryInv, Delivery!Init, Accepted
<1>2. Spec => [](Exclusive /\ OrderInv /\ AccountInv)
  <2>1. Init => OrderInv /\ AccountInv
    BY OrderInit, AccountInit
  <2>2. /\ Exclusive /\ Exclusive' /\ OrderInv /\ AccountInv /\ [Next]_vars
        => OrderInv' /\ AccountInv'
    BY OrderNext, AccountNext
  <2> QED
    BY <2>1, <2>2, ExclusiveInvariant, PTL DEF Spec
<1>3. /\ Exclusive /\ OrderInv /\ AccountInv /\ Exclusive' /\ OrderInv' /\ AccountInv'
      /\ DeliveryInv /\ [Next]_vars
      => DeliveryInv' /\ [Delivery!Next]_(Delivery!vars)
  <2> SUFFICES ASSUME Exclusive, OrderInv, AccountInv, Exclusive', OrderInv', AccountInv',
                      DeliveryInv, [Next]_vars
               PROVE  DeliveryInv' /\ [Delivery!Next]_(Delivery!vars)
    OBVIOUS
  <2>1. DeliveryInv' /\ Moves
    BY DeliveryNext
  <2>2. Delivery!Next \/ UNCHANGED <<tracked, InHand, Accepted>>
    BY <2>1, MovesRefine DEF Exclusive, AccountInv
  <2> QED
    BY <2>1, <2>2 DEF Delivery!vars, Accepted
<1> QED
  BY <1>1, <1>2, <1>3, PTL DEF Spec, ImplementsDelivery, Delivery!Spec
=============================================================================
