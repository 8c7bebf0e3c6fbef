-------------------------- MODULE PyApiIntegration --------------------------
(***************************************************************************)
(* The first-party API integration of the Python SDK,                      *)
(* python/iforevents/api.py, as the threads of a server use it: the        *)
(* reentrant lock of the queue, the send lock of the flushes, the timer    *)
(* threads, blocking requests with retries, and the stored identity.       *)
(*                                                                         *)
(* An action is a section under the queue's lock, or the code of a thread  *)
(* up to the next point where another thread can see or change what it     *)
(* uses.  The storage locks every call of it (storage.py).                 *)
(***************************************************************************)
EXTENDS Naturals, SequencesExt

Smaller(m, n) == IF m < n THEN m ELSE n

CONSTANTS
    MaxBatch,             \* MAX_BATCH
    BatchSize,            \* batch_size after the clamp of __init__
    MaxQueueSize,         \* max_queue_size
    MaxRetries,           \* max_retries
    RequeueFailedEvents,  \* requeue_failed_events
    ThrowOnError,         \* throw_on_error
    PersistQueue,         \* persist_queue
    BodiesBreak,          \* may an answer break off while it is read?
    Threads,              \* threads of the app
    Customs,              \* custom ids the app passes to identify
    Leftover,             \* events in the storage of an earlier process, which batched
    MaxTimers,            \* bound on the timer threads alive
    MaxEvents,            \* bound on the calls of track and page
    MaxAnons,             \* bound on the anonymous ids generated
    MaxCrashes            \* bound on the process ending with work left

ASSUME PyConfigAssumption ==
    /\ MaxBatch \in Nat \ {0}
    /\ BatchSize \in 1..MaxBatch
    /\ MaxQueueSize \in Nat \ {0}
    /\ MaxRetries \in Nat
    /\ {RequeueFailedEvents, ThrowOnError, PersistQueue} \subseteq BOOLEAN

ASSUME PyInstanceAssumption ==
    /\ Threads \cap Nat = {} /\ Customs \cap Nat = {}
    /\ BodiesBreak \in BOOLEAN
    /\ Leftover \in 0..Smaller(MaxEvents, MaxQueueSize)
    /\ MaxTimers \in Nat /\ MaxEvents \in Nat /\ MaxAnons \in Nat \ {0} /\ MaxCrashes \in Nat

Events == 1..MaxEvents
Timers == 1..MaxTimers
Anons  == 1..MaxAnons
None   == 0                 \* no timer, no thread, no id
Actors == Threads \cup Timers
Ids    == Customs \cup Anons \cup {None}

VARIABLES
    boot,       \* the facade: "off" before init, "on", "closed" after shutdown
    queue,      \* self._queue
    timer,      \* self._timer
    sendLock,   \* who holds self._send_lock
    act,        \* each thread: where it is, in which call, with which locals
    userId, identified,
    store,      \* the storage
    anons,      \* anonymous ids generated so far
    tracked,    \* events tracked so far
    crashes,
    fate        \* History: what became of each event; "accepted" once persisted

vars     == <<boot, queue, timer, sendLock, act, userId, identified, store, anons, tracked,
              crashes, fate>>
identity == <<userId, identified, anons>>
events   == <<queue, tracked, fate>>

NoCall == [pc |-> "idle", goal |-> "none", batch |-> <<>>, attempt |-> 0, id |-> None]
EmptyStore == [user |-> None, identified |-> FALSE, queue |-> <<>>]

At(a, where) == act[a].pc = where
Moved(a, where) == [act EXCEPT ![a].pc = where]

Init ==
    /\ boot = "off"
    /\ queue = <<>> /\ timer = None /\ sendLock = None
    /\ act = [a \in Actors |-> NoCall]
    /\ userId = None /\ identified = FALSE
    /\ store = [EmptyStore EXCEPT !.queue = [e \in 1..Leftover |-> e]]
    /\ anons = 0 /\ tracked = Leftover /\ crashes = 0
    /\ fate = [e \in Events |-> IF e <= Leftover THEN "pending" ELSE "new"]

-----------------------------------------------------------------------------
(* Helpers *)

FirstN(s, n) == SubSeq(s, 1, Smaller(n, Len(s)))
AfterN(s, n) == SubSeq(s, Smaller(n, Len(s)) + 1, Len(s))

Newest(s) == AfterN(s, Len(s) - Smaller(MaxQueueSize, Len(s)))

PersistedNonEmpty(s) ==     \* slip: an empty queue is not removed from storage
    IF PersistQueue /\ s # <<>> THEN [store EXCEPT !.queue = s] ELSE store
Persisted(s) == IF PersistQueue THEN [store EXCEPT !.queue = s] ELSE store

Become(S, how) == [e \in Events |-> IF e \in S THEN how ELSE fate[e]]

(* _schedule with a queue, in a step that leaves the threads as in acts. *)
NeedsTimerForMore(s) == timer = None /\ Len(s) > 1  \* slip: one event is not worth a timer
NeedsTimer(s) == timer = None /\ s # <<>>
FreeTimers(acts) == {i \in Timers : acts[i].pc = "idle"}
Schedule(s, acts) ==
    IF ~NeedsTimer(s)
      THEN timer' = timer /\ act' = acts
      ELSE /\ FreeTimers(acts) # {}
           /\ timer' = Min(FreeTimers(acts))
           /\ act' = [acts EXCEPT ![timer'].pc = "armed"]

(* _cancel_timer: a timer that has fired but not run yet runs all the same.*)
Cancelled(acts) ==
    IF timer # None /\ acts[timer].pc = "armed" THEN [acts EXCEPT ![timer] = NoCall] ELSE acts

-----------------------------------------------------------------------------
(* init, before the app's threads use the client *)
Load ==
    /\ boot = "off"
    /\ boot' = "on"
    /\ LET fresh == store.user = None
           user  == IF fresh THEN anons + 1 ELSE store.user
       IN  /\ user \in Customs \cup Anons
           /\ userId' = user
           /\ identified' = (~fresh /\ store.identified)
           /\ anons' = IF fresh THEN user ELSE anons
           /\ store' = [store EXCEPT !.user = user, !.identified = identified']
    /\ queue' = IF PersistQueue THEN Newest(store.queue \o queue) ELSE queue
    /\ IF PersistQueue /\ store.queue # <<>> THEN Schedule(queue', act)
                                             ELSE UNCHANGED <<timer, act>>
    /\ UNCHANGED <<sendLock, tracked, crashes, fate>>

-----------------------------------------------------------------------------
(* The calls of the app's threads *)

Starts(t) == boot = "on" /\ At(t, "idle")
In(t, goal, where) == [act EXCEPT ![t] = [NoCall EXCEPT !.pc = where, !.goal = goal]]

(* track and page with batching, the section under the lock. *)
Track(t) ==
    LET e == tracked + 1 IN
    /\ Starts(t) /\ BatchSize > 1 /\ tracked < MaxEvents
    /\ tracked' = e
    /\ queue' = Newest(Append(queue, e))
    /\ fate' = [Become(ToSet(queue) \ ToSet(queue'), "trimmed") EXCEPT ![e] = "pending"]
    /\ store' = Persisted(queue')
    /\ act' = In(t, "track", IF Len(queue') >= BatchSize THEN "cancel" ELSE "schedule")
    /\ UNCHANGED <<boot, timer, sendLock, identity, crashes>>

TrackSchedules(t) ==
    /\ At(t, "schedule")
    /\ Schedule(queue, [act EXCEPT ![t] = NoCall])
    /\ UNCHANGED <<boot, sendLock, identity, store, crashes, events>>

(* track without batching sends its event itself, without the send lock. *)
TrackSingle(t) ==
    LET e == tracked + 1 IN
    /\ Starts(t) /\ BatchSize = 1 /\ tracked < MaxEvents
    /\ tracked' = e
    /\ fate' = [fate EXCEPT ![e] = "pending"]
    /\ act' = [In(t, "track", "sent") EXCEPT ![t].batch = <<e>>]
    /\ UNCHANGED <<boot, queue, timer, sendLock, identity, store, crashes>>

Calls(t, goal, where, id) ==
    /\ act' = [In(t, goal, where) EXCEPT ![t].id = id]
    /\ UNCHANGED <<boot, timer, sendLock, identity, store, crashes, events>>

Identify(t, c) == Starts(t) /\ Calls(t, "identify", "remember", c)
Reset(t)       == Starts(t) /\ anons < MaxAnons /\ Calls(t, "reset", "cancel", None)
Flush(t)       == boot # "off" /\ At(t, "idle") /\ Calls(t, "flush", "cancel", None)
Shutdown(t)    == boot # "off" /\ At(t, "idle") /\ Calls(t, "shutdown", "cancel", None)

-----------------------------------------------------------------------------
(* The timer thread *)

TimerFires(i) ==
    /\ At(i, "armed")
    /\ act' = Moved(i, "fired")
    /\ UNCHANGED <<boot, timer, sendLock, identity, store, crashes, events>>

TimerRuns(i) ==
    /\ At(i, "fired")
    /\ timer' = None
    /\ act' = In(i, "timer", "cancel")
    /\ UNCHANGED <<boot, sendLock, identity, store, crashes, events>>

-----------------------------------------------------------------------------
(* flush, run by a thread or a timer *)

FlushCancels(a) ==
    /\ At(a, "cancel")
    /\ timer' = None
    /\ act' = Cancelled(Moved(a, "lock"))
    /\ UNCHANGED <<boot, sendLock, identity, store, crashes, events>>

FlushEntersUnlocked(a) ==   \* slip: no send lock
    /\ At(a, "lock")
    /\ sendLock' = a
    /\ act' = Moved(a, "take")
    /\ UNCHANGED <<boot, timer, identity, store, crashes, events>>
FlushEnters(a) ==
    /\ At(a, "lock") /\ sendLock = None
    /\ sendLock' = a
    /\ act' = Moved(a, "take")
    /\ UNCHANGED <<boot, timer, identity, store, crashes, events>>

(* flush returns or raises: the send lock is free, and the call goes on.   *)
(* After a shutdown, also one that raised, the facade takes no more calls. *)
AfterFlush(a, ok) ==
    LET goal == act[a].goal IN
    /\ act' = [act EXCEPT ![a] =
                 CASE goal = "reset" /\ ok    -> [NoCall EXCEPT !.pc = "remember", !.goal = goal]
                   [] goal = "shutdown" /\ ok -> [NoCall EXCEPT !.pc = "stop", !.goal = goal]
                   [] OTHER                   -> NoCall]
    /\ boot' = IF goal = "shutdown" /\ ~ok THEN "closed" ELSE boot
LeavesLocked(a, ok) ==      \* slip: the lock is released on returns only
    AfterFlush(a, ok) /\ sendLock' = IF ok THEN None ELSE sendLock
Leaves(a, ok) == AfterFlush(a, ok) /\ sendLock' = None

FlushTakes(a) ==
    /\ At(a, "take")
    /\ IF queue = <<>>
         THEN Leaves(a, TRUE) /\ UNCHANGED queue
         ELSE /\ queue' = AfterN(queue, MaxBatch)
              /\ act' = [act EXCEPT ![a].pc = "sent", ![a].batch = FirstN(queue, MaxBatch),
                                    ![a].attempt = 0]
              /\ UNCHANGED <<boot, sendLock>>
    /\ UNCHANGED <<timer, identity, store, tracked, crashes, fate>>

Stops(t) ==
    /\ At(t, "stop")
    /\ timer' = None
    /\ act' = Cancelled([act EXCEPT ![t] = NoCall])
    /\ boot' = "closed"
    /\ UNCHANGED <<sendLock, identity, store, crashes, events>>

-----------------------------------------------------------------------------
(* _request *)

(* A transient failure, the sleep and the next attempt. *)
RetryOnceMore(a) ==     \* slip: attempt > max_retries ends it
    /\ At(a, "sent") /\ act[a].attempt <= MaxRetries
    /\ act' = [act EXCEPT ![a].attempt = @ + 1]
    /\ UNCHANGED <<boot, timer, sendLock, identity, store, crashes, events>>
Retry(a) ==
    /\ At(a, "sent") /\ act[a].attempt < MaxRetries
    /\ act' = [act EXCEPT ![a].attempt = @ + 1]
    /\ UNCHANGED <<boot, timer, sendLock, identity, store, crashes, events>>

Draining(a) == sendLock = a

(* The outcome of a request outside flush: its event is settled. *)
SettlesAlone(a, how) ==
    /\ act' = [act EXCEPT ![a] = NoCall]
    /\ fate' = Become(ToSet(act[a].batch), how)
    /\ UNCHANGED <<boot, queue, timer, sendLock, identity, store, tracked, crashes>>

(* A 2xx answer. *)
Accept(a) ==
    /\ At(a, "sent")
    /\ IF Draining(a)
         THEN /\ act' = Moved(a, "persist")
              /\ UNCHANGED <<boot, timer, sendLock, identity, store, crashes, events>>
         ELSE SettlesAlone(a, "accepted")

FlushPersists(a) ==
    /\ At(a, "persist")
    /\ fate' = Become(ToSet(act[a].batch), "accepted")
    /\ store' = Persisted(queue)
    /\ act' = [act EXCEPT ![a].pc = "take", ![a].batch = <<>>]
    /\ UNCHANGED <<boot, queue, timer, sendLock, identity, tracked, crashes>>

(* _request raises an IForeventsAPIError. *)
Fail(a, retryable) ==
    /\ At(a, "sent")
    /\ retryable => act[a].attempt = MaxRetries
    /\ IF Draining(a)
         THEN /\ act' = Moved(a, IF retryable THEN "transient" ELSE "refused")
              /\ UNCHANGED <<boot, timer, sendLock, identity, store, crashes, events>>
         ELSE SettlesAlone(a, IF retryable THEN "abandoned" ELSE "refused")

(* The except clause of flush, under the lock. *)
RequeuedBehind(a) == queue \o act[a].batch   \* slip: extend for insert
Requeued(a) == act[a].batch \o queue
FlushCatches(a) ==
    LET failed == [act EXCEPT ![a].pc = "failed", ![a].batch = <<>>] IN
    /\ \/ At(a, "transient") /\ RequeueFailedEvents
          /\ queue' = Requeued(a)
          /\ Schedule(queue', failed)
          /\ UNCHANGED fate
       \/ At(a, "transient") /\ ~RequeueFailedEvents
          /\ fate' = Become(ToSet(act[a].batch), "abandoned")
          /\ act' = failed
          /\ UNCHANGED <<queue, timer>>
       \/ At(a, "refused")
          /\ queue' = <<>>
          /\ fate' = Become(ToSet(act[a].batch \o queue), "refused")
          /\ act' = failed
          /\ UNCHANGED timer
    /\ store' = Persisted(queue')
    /\ UNCHANGED <<boot, sendLock, identity, tracked, crashes>>

FlushGivesUp(a) ==
    /\ At(a, "failed")
    /\ Leaves(a, ~ThrowOnError)
    /\ UNCHANGED <<queue, timer, identity, store, tracked, crashes, fate>>

(* The answer breaks off: http.client.IncompleteRead is none of the        *)
(* exceptions _request and flush catch, so it ends the call, or the timer. *)
Break(a) ==
    /\ BodiesBreak /\ At(a, "sent")
    /\ IF Draining(a)
         THEN /\ Leaves(a, FALSE)
              /\ fate' = Become(ToSet(act[a].batch), "dropped")
              /\ UNCHANGED <<queue, timer, identity, store, tracked, crashes>>
         ELSE SettlesAlone(a, "dropped")

-----------------------------------------------------------------------------
(* _set_user of identify and of reset, which takes no lock: another thread *)
(* can run between any two of its four statements.                         *)

Remember(t) ==
    LET id == IF act[t].goal = "reset" THEN anons + 1 ELSE act[t].id IN
    /\ At(t, "remember") /\ id \in Ids
    /\ userId' = id
    /\ anons' = IF act[t].goal = "reset" THEN id ELSE anons
    /\ act' = [act EXCEPT ![t].pc = "rememberFlag", ![t].id = id]
    /\ UNCHANGED <<boot, timer, sendLock, identified, store, crashes, events>>

RememberFlag(t) ==
    /\ At(t, "rememberFlag")
    /\ identified' = (act[t].goal = "identify")
    /\ act' = Moved(t, "storeUser")
    /\ UNCHANGED <<boot, timer, sendLock, userId, anons, store, crashes, events>>

StoreUser(t) ==
    /\ At(t, "storeUser")
    /\ store' = [store EXCEPT !.user = act[t].id]
    /\ act' = Moved(t, "storeFlag")
    /\ UNCHANGED <<boot, timer, sendLock, identity, crashes, events>>

(* Then identify posts its request. *)
StoreFlag(t) ==
    /\ At(t, "storeFlag")
    /\ store' = [store EXCEPT !.identified = (act[t].goal = "identify")]
    /\ act' = IF act[t].goal = "identify" THEN Moved(t, "sent") ELSE [act EXCEPT ![t] = NoCall]
    /\ UNCHANGED <<boot, timer, sendLock, identity, crashes, events>>

-----------------------------------------------------------------------------
(* The process ends; the next Load is its next start.  Events a broken     *)
(* answer dropped from memory may still be in storage.                     *)
Crash ==
    /\ boot # "off" /\ crashes < MaxCrashes
    /\ crashes' = crashes + 1
    /\ boot' = "off"
    /\ queue' = <<>> /\ timer' = None /\ sendLock' = None
    /\ act' = [a \in Actors |-> NoCall]
    /\ userId' = None /\ identified' = FALSE
    /\ LET stored == ToSet(Newest(store.queue)) IN
         fate' = [e \in Events |-> CASE fate[e] = "pending" /\ e \notin stored -> "lost"
                                    [] fate[e] = "dropped" /\ e \in stored    -> "pending"
                                    [] OTHER                                  -> fate[e]]
    /\ UNCHANGED <<store, anons, tracked>>

CallOf(t) ==
    \/ Track(t) \/ TrackSchedules(t) \/ TrackSingle(t)
    \/ \E c \in Customs : Identify(t, c)
    \/ Reset(t) \/ Flush(t) \/ Shutdown(t) \/ Stops(t)
    \/ Remember(t) \/ RememberFlag(t) \/ StoreUser(t) \/ StoreFlag(t)
FlushOf(a) ==
    \/ FlushCancels(a) \/ FlushEnters(a) \/ FlushTakes(a) \/ FlushPersists(a)
    \/ FlushCatches(a) \/ FlushGivesUp(a)
    \/ Retry(a) \/ Accept(a) \/ Fail(a, TRUE) \/ Fail(a, FALSE) \/ Break(a)

Next ==
    \/ Load
    \/ \E t \in Threads : CallOf(t)
    \/ \E i \in Timers : TimerFires(i) \/ TimerRuns(i)
    \/ \E a \in Actors : FlushOf(a)
    \/ Crash

Spec == Init /\ [][Next]_vars

-----------------------------------------------------------------------------
(* Properties *)

Places == {"idle", "schedule", "cancel", "lock", "take", "sent", "persist", "transient",
           "refused", "failed", "stop", "remember", "rememberFlag", "storeUser", "storeFlag",
           "armed", "fired"}
Fates  == {"new", "pending", "accepted", "refused", "trimmed", "abandoned", "dropped", "lost"}
Locals == [pc : Places, goal : {"none", "track", "identify", "reset", "flush", "shutdown", "timer"},
           batch : Seq(Events), attempt : 0..MaxRetries, id : Ids]

(* Every variable has its type, and no thread makes more than max_retries  *)
(* retries of a request.                                                   *)
TypeOK ==
    /\ boot \in {"off", "on", "closed"}
    /\ queue \in Seq(Events)
    /\ timer \in Timers \cup {None} /\ sendLock \in Actors \cup {None}
    /\ act \in [Actors -> Locals]
    /\ userId \in Ids /\ identified \in BOOLEAN
    /\ store \in [user : Ids, identified : BOOLEAN, queue : Seq(Events)]
    /\ anons \in 0..MaxAnons /\ tracked \in 0..MaxEvents /\ crashes \in 0..MaxCrashes
    /\ fate \in [Events -> Fates]

(* The batch a flush has taken, then the queue. *)
Held == IF sendLock = None THEN queue ELSE act[sendLock].batch \o queue

(* In the order of the track calls and without duplicates, although other  *)
(* threads track, trim, flush and time out while a batch is being sent.    *)
Sorted(s) == \A i, j \in 1..Len(s) : i < j => s[i] < s[j]
QueueOrder == Sorted(Held)

(* Exactly the events nobody accepted, refused or gave up will be sent:    *)
(* those of the queue and of the threads, or after a crash of storage.     *)
InHand ==
    IF boot = "off" THEN ToSet(Newest(store.queue))
                    ELSE ToSet(queue) \cup UNION {ToSet(act[a].batch) : a \in Actors}
EventsAccounted == \A e \in Events : fate[e] = "pending" <=> e \in InHand

(* Flushes exclude each other on every path: the thread that has the send  *)
(* lock is draining, also when an answer broke off or an error is raised,  *)
(* and no other thread is.                                                 *)
DrainPlaces == {"take", "persist", "transient", "refused", "failed"}
OneDrain ==
    /\ sendLock # None => act[sendLock].pc \in DrainPlaces \cup {"sent"}
    /\ \A a \in Actors : act[a].pc \in DrainPlaces => sendLock = a

(* A waiting event has a timer, or a thread that is about to look at the   *)
(* queue again: no interleaving of track's two steps, of flushes and of    *)
(* timers that were cancelled too late leaves it alone.                    *)
NoStrandedQueue ==
    boot = "on" /\ queue # <<>> =>
        \/ \E i \in Timers : At(i, "armed") \/ At(i, "fired")
        \/ \E a \in Actors : act[a].pc \in {"schedule", "cancel", "lock", "take", "persist"}
        \/ sendLock # None /\ ~At(sendLock, "failed")

(* The threads together implement what EventDelivery promises. *)
Delivery == INSTANCE EventDelivery WITH
    pending <- InHand,
    delivered <- {e \in Events : fate[e] = "accepted"}
ImplementsDelivery == Delivery!Spec
=============================================================================
