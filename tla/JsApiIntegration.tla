-------------------------- MODULE JsApiIntegration --------------------------
(***************************************************************************)
(* The first-party API integration of the JavaScript SDK,                  *)
(* js/packages/core/src/api-integration.ts: the event queue, its timer and *)
(* its serialised drains, the request with its retries, the identity of    *)
(* the visitor, and what of all this is kept in storage.                   *)
(*                                                                         *)
(* JavaScript runs one piece of code at a time and switches only at an     *)
(* `await`, so an action is the code between two awaits.  A storage write  *)
(* takes effect when it is called; the code after its await is a later     *)
(* action.  Two writes issued in an order resolve in that order.           *)
(***************************************************************************)
EXTENDS Naturals, SequencesExt

CONSTANTS
    MaxBatch,             \* MAX_BATCH, most events of one request
    BatchSize,            \* config.batchSize after the clamp of the constructor
    MaxQueueSize,         \* config.maxQueueSize
    MaxRetries,           \* config.maxRetries
    RequeueFailedEvents,  \* config.requeueFailedEvents
    ThrowOnError,         \* config.throwOnError
    PersistQueue,         \* config.persistQueue
    Customs,              \* custom ids the app passes to identify
    LegacyStorage,        \* may storage date from before anonymous_id existed?
    MayShutDown,          \* does the app call shutdown?
    MaxEvents,            \* bound on the calls of track and page
    MaxResets,            \* bound on the calls of reset
    MaxFlushes,           \* bound on the flushes waiting when the app calls flush
    MaxCrashes            \* bound on the process ending with work left

ASSUME ConfigAssumption ==
    /\ MaxBatch \in Nat \ {0}
    /\ BatchSize \in 1..MaxBatch
    /\ MaxQueueSize \in Nat \ {0}
    /\ MaxRetries \in Nat
    /\ {RequeueFailedEvents, ThrowOnError, PersistQueue} \subseteq BOOLEAN

ASSUME InstanceAssumption ==
    /\ Customs \cap Nat = {}
    /\ {LegacyStorage, MayShutDown} \subseteq BOOLEAN
    /\ MaxEvents \in Nat
    /\ MaxResets \in Nat
    /\ MaxFlushes \in Nat
    /\ MaxCrashes \in Nat

Events == 1..MaxEvents      \* an event is numbered by its call of track (below)
Resets == 1..MaxResets      \* the n-th call of reset
None   == 0                 \* no id: null in memory, no key in storage

(* Anonymous ids of this device: the first init generates 1 (or an earlier *)
(* version left it), the n-th reset n + 1.                                 *)
Anons == 1..(MaxResets + 1)
Ids   == Customs \cup Anons \cup {None}

(* Who runs `request`: the drain at the head of the inflight chain, the    *)
(* identify call of a custom id (a bound: no second identify of the same   *)
(* id while one is under way), or, without batching, the track call of an  *)
(* event.                                                                  *)
Drain      == 0
Singles    == IF BatchSize = 1 THEN Events ELSE {}
Requesters == {Drain} \cup Customs \cup Singles

(* Who waits for a drain: nobody here for the `void this.flush()` of track *)
(* and of the timer and for the app's flush, a reset, or shutdown.         *)
Void       == <<"void", 0>>
Closer     == <<"shutdown", 0>>
ResetOf(n) == <<"reset", n>>
Owners     == {Void, Closer} \cup {ResetOf(n) : n \in Resets}

VARIABLES
    boot,        \* where init stands; "on" from its end, "closed" after shutdown
    queue,       \* this.queue
    timer,       \* this.timer is set
    chain,       \* this.inflight: owners of the drains, the running one first
    batch,       \* events the running drain took out of the queue
    req,         \* the request each requester is making
    settling,    \* track calls awaiting persist
    userId, anonId, identified,
    flagWrites,  \* setUser calls that still have to store the identified flag,
                 \* each by its custom id, or by its reset
    reset,       \* where each call of reset stands
    store,       \* the Storage
    tracked,     \* events tracked so far
    crashes,
    (* History, read by no action: *)
    fate,        \* what became of each event
    merges,      \* <<custom id, anonymous id>> pairs the app's identify calls made
    loggedOut    \* a reset was called and no identify since

(* The state by what it serves, for UNCHANGED. *)
who      == <<userId, anonId, identified, flagWrites, merges, loggedOut>>
identity == <<who, reset>>
life     == <<boot, crashes>>
pipeline == <<queue, timer, chain, batch, req, settling, fate, tracked>>
vars     == <<boot, queue, timer, chain, batch, req, settling, userId, anonId, identified,
              flagWrites, reset, store, tracked, crashes, fate, merges, loggedOut>>

-----------------------------------------------------------------------------
(* Helpers *)

Smaller(m, n) == IF m < n THEN m ELSE n

(* splice(0, n) of a queue: what it removes, and what it leaves. *)
FirstN(s, n)  == SubSeq(s, 1, Smaller(n, Len(s)))
AfterN(s, n)  == SubSeq(s, Smaller(n, Len(s)) + 1, Len(s))

(* The trim of a queue to maxQueueSize: the newest events stay. *)
NewestUntrimmed(s) == s     \* slip: no trim
Newest(s) == AfterN(s, Len(s) - Smaller(MaxQueueSize, Len(s)))

(* persist() of a queue. *)
PersistedNonEmpty(s) ==     \* slip: an empty queue is not removed from storage
    IF PersistQueue /\ s # <<>> THEN [store EXCEPT !.queue = s] ELSE store
PersistedBetweenDrains(s) ==    \* slip: no write while a drain is running
    IF PersistQueue /\ chain = <<>> THEN [store EXCEPT !.queue = s] ELSE store
Persisted(s) == IF PersistQueue THEN [store EXCEPT !.queue = s] ELSE store

(* schedule() with a queue: whether the timer is set after it. *)
ScheduleSome(s) == timer \/ Len(s) > 1     \* slip: one event is not worth a timer
Schedule(s) == timer \/ s # <<>>

(* The timer after init took s from storage and memory. *)
LeaveLoaded(s) == timer     \* slip: a loaded queue waits for the next track
ScheduleLoaded(s) == IF PersistQueue /\ store.queue # <<>> THEN Schedule(s) ELSE timer

Become(S, how) == [e \in Events |-> IF e \in S THEN how ELSE fate[e]]

IdleRequest == [pc |-> "idle", attempt |-> 0, user |-> None, anon |-> None]
Calling(r)  == [req EXCEPT ![r] = [IdleRequest EXCEPT !.pc = "envelope"]]

EmptyStore   == [user |-> None, identified |-> FALSE, anon |-> None, queue |-> <<>>]
LegacyStores == {[EmptyStore EXCEPT !.user = 1]}
                  \cup {[EmptyStore EXCEPT !.user = c, !.identified = TRUE] : c \in Customs}

Init ==
    /\ boot = "off"
    /\ queue = <<>> /\ timer = FALSE /\ chain = <<>> /\ batch = <<>>
    /\ req = [r \in Requesters |-> IdleRequest]
    /\ settling = 0
    /\ userId = None /\ anonId = None /\ identified = FALSE
    /\ flagWrites = <<>> /\ reset = [n \in Resets |-> "new"]
    /\ store \in {EmptyStore} \cup (IF LegacyStorage THEN LegacyStores ELSE {})
    /\ tracked = 0 /\ crashes = 0
    /\ fate = [e \in Events |-> "new"]
    /\ merges = {} /\ loggedOut = FALSE

-----------------------------------------------------------------------------
(* init: the app starts it; the facade ignores track, page, identify and   *)
(* reset until it has ended.                                               *)

Load ==
    LET stored == store.user # None
        kept   == IF store.anon = None /\ stored /\ ~store.identified
                    THEN store.user ELSE store.anon
        anon   == IF kept = None THEN 1 ELSE kept
    IN  /\ boot = "off"
        /\ boot' = IF stored THEN "queue" ELSE "user"
        /\ userId' = store.user
        /\ identified' = (stored /\ store.identified)
        /\ anonId' = anon
        /\ store' = [store EXCEPT !.anon = anon]
        /\ merges' = IF kept = None /\ stored THEN merges \cup {<<store.user, anon>>} ELSE merges
        /\ UNCHANGED <<crashes, pipeline, flagWrites, reset, loggedOut>>

AdoptAnonymous ==
    /\ boot = "user"
    /\ boot' = "flag"
    /\ userId' = anonId
    /\ identified' = FALSE
    /\ store' = [store EXCEPT !.user = anonId]
    /\ UNCHANGED <<crashes, pipeline, anonId, flagWrites, reset, merges, loggedOut>>

AdoptFlag ==
    /\ boot = "flag"
    /\ boot' = "queue"
    /\ store' = [store EXCEPT !.identified = FALSE]
    /\ UNCHANGED <<crashes, pipeline, identity>>

LoadQueue ==
    /\ boot = "queue"
    /\ boot' = "on"
    /\ queue' = IF PersistQueue THEN Newest(store.queue \o queue) ELSE queue
    /\ timer' = ScheduleLoaded(queue')
    /\ UNCHANGED <<crashes, chain, batch, req, settling, store, fate, tracked, identity>>
-----------------------------------------------------------------------------
(* track (and page, which ends in track) with batching, and the timer *)

(* The call up to its await of persist.  The await of `super` before it    *)
(* (page has two, then calls track) is folded in: an event is numbered     *)
(* where its track goes on after it, so an event of page may get a later   *)
(* number than a track called just after page.                             *)
Track ==
    LET e == tracked + 1 IN
    /\ boot = "on" /\ BatchSize > 1 /\ tracked < MaxEvents
    /\ tracked' = e
    /\ queue' = Newest(Append(queue, e))
    /\ fate' = [Become(ToSet(queue) \ ToSet(queue'), "trimmed") EXCEPT ![e] = "pending"]
    /\ store' = Persisted(queue')
    /\ settling' = settling + 1
    /\ UNCHANGED <<life, timer, chain, batch, req, identity>>

(* flush() called by an owner: the pending timer goes, a drain joins the chain. *)
FlushByCoalesced(owner) ==  \* slip: a flush during a drain is not chained
    /\ timer' = FALSE
    /\ chain' = IF chain = <<>> THEN <<owner>> ELSE chain
FlushBy(owner) ==
    /\ timer' = FALSE
    /\ chain' = Append(chain, owner)

(* A call that flushes and does nothing else at once. *)
OnlyFlushBy(owner) ==
    /\ FlushBy(owner)
    /\ UNCHANGED <<life, queue, batch, req, settling, store, fate, tracked, identity>>

(* The rest of a track call, once its persist resolved. *)
TrackSettled ==
    /\ settling > 0
    /\ settling' = settling - 1
    /\ IF Len(queue) >= BatchSize
         THEN FlushBy(Void)
         ELSE timer' = Schedule(queue) /\ UNCHANGED chain
    /\ UNCHANGED <<life, queue, batch, req, store, fate, tracked, identity>>

TimerFires == timer /\ OnlyFlushBy(Void)

(* The app calls flush or shutdown. *)
Flush == boot # "off" /\ Len(chain) < MaxFlushes /\ OnlyFlushBy(Void)

Shutdown ==
    MayShutDown /\ boot = "on" /\ Closer \notin ToSet(chain) /\ OnlyFlushBy(Closer)

-----------------------------------------------------------------------------
(* drain: the loop of the head of the chain *)

(* The drain returns or throws to its owner: reset goes on or rejects, the *)
(* facade is closed when shutdown settles; its last clearTimeout runs only *)
(* if the drain returned.                                                  *)
DrainEnds(ok) ==
    LET owner == Head(chain) IN
    /\ chain' = Tail(chain)
    /\ reset' = [n \in Resets |-> IF owner # ResetOf(n) THEN reset[n]
                                  ELSE IF ok THEN "anonymous" ELSE "done"]
    /\ boot' = IF owner = Closer THEN "closed" ELSE boot
    /\ timer' = (timer /\ ~(owner = Closer /\ ok))

DrainDone ==
    /\ chain # <<>> /\ req[Drain].pc = "idle" /\ queue = <<>>
    /\ DrainEnds(TRUE)
    /\ UNCHANGED <<crashes, queue, batch, req, settling, store, fate, tracked, who>>

DrainTakes ==
    /\ chain # <<>> /\ req[Drain].pc = "idle" /\ queue # <<>>
    /\ batch' = FirstN(queue, MaxBatch)
    /\ queue' = AfterN(queue, MaxBatch)
    /\ req' = Calling(Drain)
    /\ UNCHANGED <<life, timer, chain, settling, store, fate, tracked, identity>>

(* After the persist of a failed drain: report it, throw it or return. *)
DrainFailed ==
    /\ req[Drain].pc = "failed"
    /\ req' = [req EXCEPT ![Drain] = IdleRequest]
    /\ DrainEnds(~ThrowOnError)
    /\ UNCHANGED <<crashes, queue, batch, settling, store, fate, tracked, who>>

-----------------------------------------------------------------------------
(* request, run by a requester r *)

(* The track call of an event when batching is off. *)
TrackSingle ==
    LET e == tracked + 1 IN
    /\ boot = "on" /\ BatchSize = 1 /\ tracked < MaxEvents
    /\ tracked' = e
    /\ fate' = [fate EXCEPT ![e] = "pending"]
    /\ req' = Calling(e)
    /\ UNCHANGED <<life, queue, timer, chain, batch, settling, store, identity>>

(* A request at one of the places `from` goes on, and nothing else changes. *)
GoOn(r, from, to) ==
    /\ req[r].pc \in from
    /\ req' = [req EXCEPT ![r] = to]
    /\ UNCHANGED <<life, queue, timer, chain, batch, settling, store, fate, tracked, identity>>

(* The event context is there: envelope reads the anonymous id; then       *)
(* request reads the user id for its headers, and posts.                   *)
Envelope(r) == GoOn(r, {"envelope"}, [req[r] EXCEPT !.pc = "ready", !.anon = anonId])
Post(r)     == GoOn(r, {"ready"}, [req[r] EXCEPT !.pc = "sent", !.user = userId])

(* The status line is there: fetch resolves, the timeout is cleared, and   *)
(* request awaits the body.                                                *)
Answered(r) == GoOn(r, {"sent"}, [req[r] EXCEPT !.pc = "body"])

(* A transient failure (no answer, the timeout, a broken body, 5xx, a rate *)
(* limit), and the next attempt after the pause.                           *)
InFlight == {"sent", "body"}
BackOffOnceMore(r) ==   \* slip: attempt <= maxRetries
    req[r].attempt <= MaxRetries /\ GoOn(r, InFlight, [req[r] EXCEPT !.pc = "pause"])
BackOff(r) ==
    req[r].attempt < MaxRetries /\ GoOn(r, InFlight, [req[r] EXCEPT !.pc = "pause"])
Retry(r) == GoOn(r, {"pause"}, [req[r] EXCEPT !.pc = "sent", !.attempt = @ + 1])

(* The events request r carries. *)
Carried(r) == IF r = Drain THEN ToSet(batch) ELSE {r} \cap Singles

(* A 2xx answer.  The drain also persists what is left in the queue. *)
Accept(r) ==
    /\ req[r].pc = "body"
    /\ req' = [req EXCEPT ![r] = IdleRequest]
    /\ fate' = Become(Carried(r), "accepted")
    /\ batch' = IF r = Drain THEN <<>> ELSE batch
    /\ store' = IF r = Drain THEN Persisted(queue) ELSE store
    /\ UNCHANGED <<life, queue, timer, chain, settling, tracked, identity>>

(* The queue after the catch of drain: the batch is put back in front, or *)
(* given up; a refusal drops everything.                                   *)
RequeuedBehind == queue \o batch     \* slip: push for unshift
Requeued == batch \o queue
KeptOnRefusal(retryable) ==     \* slip: a refusal drops the batch only
    IF retryable /\ RequeueFailedEvents THEN Requeued ELSE queue
KeptAfter(retryable) ==
    IF ~retryable THEN <<>> ELSE IF RequeueFailedEvents THEN Requeued ELSE queue

(* The catch of drain, up to its await of persist. *)
DrainCatches(retryable) ==
    /\ queue' = KeptAfter(retryable)
    /\ batch' = <<>>
    /\ timer' = IF retryable /\ RequeueFailedEvents THEN Schedule(queue') ELSE timer
    /\ store' = Persisted(queue')
    /\ req' = [req EXCEPT ![Drain] = [IdleRequest EXCEPT !.pc = "failed"]]
    /\ fate' = IF ~retryable THEN Become(ToSet(batch \o queue), "refused")
               ELSE IF RequeueFailedEvents THEN fate ELSE Become(ToSet(batch), "abandoned")
    /\ UNCHANGED <<life, chain, settling, tracked, identity>>

(* request throws: a refusal at once, a transient failure after the last   *)
(* attempt.  A single event is gone; identify has nothing to give back.    *)
Fail(r, retryable) ==
    /\ req[r].pc \in IF retryable THEN InFlight ELSE {"body"}
    /\ retryable => req[r].attempt = MaxRetries
    /\ \/ r = Drain /\ DrainCatches(retryable)
       \/ /\ r # Drain
          /\ req' = [req EXCEPT ![r] = IdleRequest]
          /\ fate' = Become(Carried(r), IF retryable THEN "abandoned" ELSE "refused")
          /\ UNCHANGED <<life, queue, timer, chain, batch, settling, store, tracked, identity>>

-----------------------------------------------------------------------------
(* identify and reset *)

(* setUser up to its first await; the identified flag is stored later. *)
SetUserInMemory(id, flag, call) ==   \* slip: the id is not stored
    /\ userId' = id
    /\ identified' = flag
    /\ flagWrites' = Append(flagWrites, call)
    /\ UNCHANGED store
SetUser(id, flag, call) ==
    /\ userId' = id
    /\ identified' = flag
    /\ store' = [store EXCEPT !.user = id]
    /\ flagWrites' = Append(flagWrites, call)

Identify(c) ==
    /\ boot = "on" /\ req[c].pc = "idle"
    /\ SetUser(c, TRUE, c)
    /\ req' = [req EXCEPT ![c].pc = "user"]
    /\ merges' = merges \cup {<<c, anonId>>}
    /\ loggedOut' = FALSE
    /\ UNCHANGED <<life, queue, timer, chain, batch, settling, fate, tracked, anonId, reset>>

(* The last await of a setUser: identify goes on to its request, reset is done. *)
NextFlagLatest == Len(flagWrites)   \* slip: the writes resolve latest first
NextFlag == 1
FlagWritten ==
    LET call == flagWrites[NextFlag] IN
    /\ flagWrites # <<>>
    /\ flagWrites' = RemoveAt(flagWrites, NextFlag)
    /\ store' = [store EXCEPT !.identified = (call \in Customs)]
    /\ reset' = [n \in Resets |-> IF n = call THEN "done" ELSE reset[n]]
    /\ req' = IF call \in Customs THEN Calling(call) ELSE req
    /\ UNCHANGED <<life, queue, timer, chain, batch, settling, fate, tracked, userId, anonId,
                   identified, merges, loggedOut>>

(* Calls of reset may overlap. *)
Reset(n) ==
    /\ boot = "on" /\ reset[n] = "new" /\ \A m \in 1..(n - 1) : reset[m] # "new"
    /\ reset' = [reset EXCEPT ![n] = "flush"]
    /\ FlushBy(ResetOf(n))
    /\ loggedOut' = TRUE
    /\ UNCHANGED <<life, queue, batch, req, settling, store, fate, tracked, userId, anonId,
                   identified, flagWrites, merges>>

(* What resets await resolves in the order of their calls. *)
FirstAt(place, n) == reset[n] = place /\ \A m \in 1..(n - 1) : reset[m] # place

ForgetAnonymous(n) ==
    /\ FirstAt("anonymous", n)
    /\ reset' = [reset EXCEPT ![n] = "user"]
    /\ anonId' = n + 1
    /\ store' = [store EXCEPT !.anon = n + 1]
    /\ UNCHANGED <<life, pipeline, userId, identified, flagWrites, merges, loggedOut>>

ForgetUser(n) ==
    /\ FirstAt("user", n)
    /\ reset' = [reset EXCEPT ![n] = "flag"]
    /\ SetUser(anonId, FALSE, n)
    /\ UNCHANGED <<life, pipeline, anonId, merges, loggedOut>>

(* No reset is under way. *)
ResetsSettled == \A n \in Resets : reset[n] \in {"new", "done"}

-----------------------------------------------------------------------------
(* The process ends (a crash, a closed page, an app swiped away): memory   *)
(* is gone, storage stays.  The next Load is the next start of the app.    *)
Crash ==
    /\ boot # "off" /\ crashes < MaxCrashes
    /\ crashes' = crashes + 1
    /\ boot' = "off"
    /\ queue' = <<>> /\ timer' = FALSE /\ chain' = <<>> /\ batch' = <<>>
    /\ req' = [r \in Requesters |-> IdleRequest]
    /\ settling' = 0
    /\ userId' = None /\ anonId' = None /\ identified' = FALSE
    /\ flagWrites' = <<>>
    /\ reset' = [n \in Resets |-> IF reset[n] = "new" THEN "new" ELSE "done"]
    /\ fate' = Become({e \in Events : fate[e] = "pending"} \ ToSet(Newest(store.queue)), "lost")
    /\ loggedOut' = (loggedOut /\ ResetsSettled)
    /\ UNCHANGED <<store, tracked, merges>>

Step(r) ==
    \/ Envelope(r) \/ Post(r) \/ Answered(r) \/ Retry(r)
    \/ Accept(r) \/ BackOff(r) \/ Fail(r, TRUE) \/ Fail(r, FALSE)

Next ==
    \/ Load \/ AdoptAnonymous \/ AdoptFlag \/ LoadQueue
    \/ Track \/ TrackSingle \/ TrackSettled \/ TimerFires \/ Flush \/ Shutdown
    \/ DrainDone \/ DrainTakes \/ DrainFailed
    \/ \E r \in Requesters : Step(r)
    \/ \E c \in Customs : Identify(c)
    \/ FlagWritten
    \/ \E n \in Resets : Reset(n) \/ ForgetAnonymous(n) \/ ForgetUser(n)
    \/ Crash

(* What the event loop guarantees: code whose await resolved runs, storage *)
(* answers, a set timer fires, a pause ends, and fetch settles, because    *)
(* its AbortController fires at config.timeout.  Nothing is assumed of the *)
(* app's calls, its restart after a crash, or the answers of the api.      *)
EventLoop ==
    /\ WF_vars(AdoptAnonymous \/ AdoptFlag \/ LoadQueue)
    /\ WF_vars(TrackSettled)
    /\ WF_vars(TimerFires)
    /\ WF_vars(DrainDone \/ DrainTakes \/ DrainFailed)
    /\ \A r \in Requesters : WF_vars(Step(r) /\ req[r].pc # "body")
    /\ WF_vars(FlagWritten)
    /\ WF_vars(\E n \in Resets : ForgetAnonymous(n) \/ ForgetUser(n))

(* The timeout is cleared before the body is read, so that the body ends   *)
(* is an assumption about the network.                                     *)
BodiesEnd == \A r \in Requesters : WF_vars(Step(r) /\ req[r].pc = "body")

Spec == Init /\ [][Next]_vars
FairSpec == Spec /\ EventLoop /\ BodiesEnd

-----------------------------------------------------------------------------
(* Invariants *)

Requests == [pc : {"idle", "user", "envelope", "ready", "sent", "body", "pause",
                   "failed"},
             attempt : 0..MaxRetries, user : Ids, anon : Anons \cup {None}]

Stores   == [user : Ids, identified : BOOLEAN, anon : Anons \cup {None}, queue : Seq(Events)]
Fates    == {"new", "pending", "accepted", "refused", "trimmed", "abandoned", "lost"}

(* Every variable has its type. *)
TypeOK ==
    /\ boot \in {"off", "user", "flag", "queue", "on", "closed"}
    /\ queue \in Seq(Events) /\ batch \in Seq(Events)
    /\ timer \in BOOLEAN
    /\ chain \in Seq(Owners)
    /\ req \in [Requesters -> Requests]
    /\ settling \in Nat
    /\ userId \in Ids /\ anonId \in Anons \cup {None} /\ identified \in BOOLEAN
    /\ flagWrites \in Seq(Customs \cup Resets)
    /\ reset \in [Resets -> {"new", "flush", "anonymous", "user", "flag", "done"}]
    /\ store \in Stores
    /\ tracked \in 0..MaxEvents /\ crashes \in 0..MaxCrashes
    /\ fate \in [Events -> Fates]
    /\ merges \subseteq Customs \X Anons
    /\ loggedOut \in BOOLEAN

(* Events in the hands of the SDK: the batch being sent, then the queue. *)
Held == batch \o queue

(* In order and without duplicates, whatever was requeued, trimmed, loaded *)
(* or tracked while a batch was being sent: what drain puts back in front  *)
(* is older than everything tracked meanwhile.                             *)
Sorted(s) == \A i, j \in 1..Len(s) : i < j => s[i] < s[j]
QueueOrder == Sorted(Held)

(* The requeue of drain does not trim, yet memory stays bounded: one batch *)
(* more than maxQueueSize at the most, however often it fails.             *)
HeldBounded == Len(Held) <= MaxQueueSize + MaxBatch

(* The stored queue may miss or repeat the batch being sent, but it never  *)
(* misses a waiting event: the queue in memory is a suffix of it.          *)
QueueStored == PersistQueue /\ boot \in {"on", "closed"} => IsSuffix(queue, store.queue)

(* The events that will be sent are exactly those that nobody accepted,    *)
(* refused or gave up: none is forgotten, none comes back from storage     *)
(* once settled, across failures, trims and restarts.                      *)
InHand ==
    IF boot \in {"on", "closed"} THEN ToSet(Held) \cup {e \in Singles : req[e].pc # "idle"}
                                ELSE ToSet(Newest(store.queue))
EventsAccounted == \A e \in Events : fate[e] = "pending" <=> e \in InHand

(* A waiting event always has something that will send it: the timer, a    *)
(* drain of the chain, or a track call that is about to start one of them. *)
NoStrandedQueue == boot = "on" /\ queue # <<>> => timer \/ chain # <<>> \/ settling > 0

(* Once no setUser is writing, storage holds the identity of memory, so a  *)
(* restart finds the visitor it left, whatever order identify and reset    *)
(* were called in.                                                         *)
IdentityStored ==
    boot = "on" /\ flagWrites = <<>> =>
        /\ store.user = userId /\ store.identified = identified /\ store.anon = anonId

(* After resets that have all settled, with no identify since, nobody is   *)
(* identified, in memory or after a restart.                               *)
LoggedOut ==
    loggedOut /\ ResetsSettled =>
        /\ ~identified /\ userId \notin Customs
        /\ ~store.identified /\ store.user \notin Customs

-----------------------------------------------------------------------------
(* What the invariants rest on *)

(* Storage without an anonymous id is what an earlier version left, or     *)
(* nothing, and only the first init sees it.                               *)
FirstStart ==
    /\ boot # "off" => store.anon # None /\ anonId # None
    /\ store.anon = None => \/ store.user = None
                           \/ (store.user = 1 /\ ~store.identified)
                           \/ (store.user \in Customs /\ store.identified)

(* Before init nothing runs, and a drain that sends is the head of the chain. *)
Quiet ==
    boot = "off" => chain = <<>> /\ ~timer /\ settling = 0 /\ ResetsSettled /\ flagWrites = <<>>
DrainHead == req[Drain].pc # "idle" => chain # <<>>

(* A reset waits for one drain, then for one flag write, and is where that *)
(* says it is.                                                             *)
OneReset ==
    \A n \in Resets :
        /\ \A i \in 1..Len(chain) : chain[i] = ResetOf(n) =>
               reset[n] = "flush" /\ \A j \in 1..Len(chain) : chain[j] = ResetOf(n) => i = j
        /\ \A i \in 1..Len(flagWrites) : flagWrites[i] = n =>
               reset[n] = "flag" /\ \A j \in 1..Len(flagWrites) : flagWrites[j] = n => i = j

(* A pause is always followed by an attempt that is allowed. *)
RetriesLeft == \A r \in Requesters : req[r].pc = "pause" => req[r].attempt < MaxRetries

(* The drain holds a batch only during its request, and no larger one than *)
(* MAX_BATCH; nothing is held before the queue was loaded; events are      *)
(* numbered as they are tracked.                                           *)
HeldSound ==
    /\ Len(batch) <= MaxBatch
    /\ req[Drain].pc \in {"idle", "failed"} => batch = <<>>
    /\ boot \notin {"on", "closed"} => queue = <<>> /\ batch = <<>>
    /\ \A i \in 1..Len(Held) : Held[i] <= tracked
    /\ \A i \in 1..Len(store.queue) : store.queue[i] <= tracked
    /\ Sorted(store.queue)

-----------------------------------------------------------------------------
(* Liveness and refinement *)

(* The oldest pending event is eventually offered to the api (or gone), as *)
(* long as the app runs: neither the timer nor the chain of drains leaves  *)
(* it behind, nor, once the app is started again after a crash, does the   *)
(* init that loads it, and a call of flush does not starve it.             *)
Running == boot \notin {"off", "closed"}
OldestOffered ==
    \A e \in Events :
        Running /\ fate[e] = "pending" /\ (\A f \in 1..(e - 1) : fate[f] # "pending")
          ~> fate[e] # "pending" \/ ~Running \/ (req[Drain].pc = "sent" /\ e \in ToSet(batch))

(* A reset returns while the app runs: the flush it awaits ends, whatever  *)
(* the api answers.                                                        *)
ResetReturns == \A n \in Resets : reset[n] # "new" ~> reset[n] = "done"

(* The integration implements what EventDelivery promises. *)
Delivery == INSTANCE EventDelivery WITH
    pending <- InHand,
    delivered <- {e \in Events : fate[e] = "accepted"}
ImplementsDelivery == Delivery!Spec

-----------------------------------------------------------------------------
(* What the documentation says and the code does not do *)

(* api-integration.ts:41, persistQueue: "so unsent events survive a restart". *)
UnsentEventsStored ==
    PersistQueue => \A e \in Events : fate[e] = "pending" => e \in ToSet(store.queue)

(* CONTRACT.md:105, anonymous_id lets a destination "merge the anonymous   *)
(* history into the person; `reset` replaces it with a fresh one": a       *)
(* request pairs a custom id only with an anonymous id of that person.     *)
PairsAsIdentified ==
    \A r \in Requesters :
        req[r].pc = "sent" /\ req[r].user \in Customs => <<req[r].user, req[r].anon>> \in merges
=============================================================================
