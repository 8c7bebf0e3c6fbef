# IForevents SDKs: specifications, model checks and proofs

This directory specifies the client SDKs of the repository in TLA+. The SDKs exist in eight
languages and share one contract (`CONTRACT.md`): an app calls `init`, `identify`, `track`,
`page`, `reset`, `flush` and `shutdown`; events are queued, batched and posted to the api with
retries; the visitor's identity, and optionally the queue, live in a storage. What is hard in
them is not any single call but what happens between calls: drains that overlap with `track`,
retries that put events back, timers that are cancelled too late, storage that lags behind
memory, answers that arrive in any order, and a process that ends at any moment.

## 1. The system

| Component | State it keeps | Operations | Interacts with | Hard behaviour |
|---|---|---|---|---|
| JavaScript API integration (`js/packages/core/src/api-integration.ts`) | queue, timer, chain of drains (`inflight`), user id, anonymous id, identified flag, quota flag | init, identify, track/page, reset, flush, shutdown; internally drain, schedule, persist, request, noteOutcome, setUser | storage, the api over `fetch`, timers, callbacks of the app | every `await` lets other calls run; requeue while new events arrive; crash between writes; a callback that throws |
| Errors (`core/src/errors.ts`) | none | classify an answer, read `Retry-After` | API integration | which answers are retried, which discard the queue |
| Storage (`core/src/storage.ts`, AsyncStorage) | three or four keys | get, set, remove | API integration | asynchronous writes; lags memory by a write |
| JavaScript facade (`core/src/iforevents.ts`, `integration.ts`) | initialized, traits, context provider | init, fan-out of every call, flush, shutdown | all integrations, the context provider | awaits the context in `identify` only |
| Browser and React Native clients | the promises `ready` and `identifying`, `lastPath` | the same calls, before or after init; page views of navigations; the snippet's queue | facade, the page's history or navigator | the order of calls nobody awaits |
| React and Next packages | a client, the previous path | trackers in effects, the provider's shutdown | client | effects that skip or repeat |
| Node package | `stopped` | shutdown function, `beforeExit` | facade | a shutdown during unfinished calls |
| Vendor adapters (`mixpanel`, `amplitude`, `segment`, `posthog`, `ga4`; page and server) | a vendor's client, an id | the integration interface | facade, vendor libraries | microtasks of overlapping calls overtake each other |
| Python API integration (`python/iforevents/api.py`) | queue, timer, user id, two locks | the same, blocking, from any thread | storage, urllib, `threading.Timer` | two locks, sections that are not atomic together, exceptions out of a held lock |
| Go, Java/Android, .NET/Unity, Ruby, Swift, PHP integrations | as Python, with each language's own primitives | the same | the same | cancellation (.NET), concurrent drains (Swift), killed timer threads (Ruby), callbacks under a mutex (Go) |
| Flatten, context | none | flatten properties, collect a context | facade, integrations | none; pure conversions |

What makes each correct:

- *Queue* (every language): events stay in the order of the `track` calls and are not
  duplicated; memory stays bounded although a requeue does not trim; an event that was
  accepted, refused, trimmed or abandoned never comes back, also not from storage; one that
  still waits is never forgotten; a waiting event always has something that will send it.
- *Drains*: one at a time; a lock or chain is released on every path; `reset` and `shutdown`,
  which wait for drains, return.
- *Answers*: only a refusal discards events; a retry waits as long as the api asks; the quota
  callback runs once until the next success; refused events are not sent for ever.
- *Identity*: storage ends with the identity of memory; a reset is a logout, also after a
  restart; a request never mixes one person's custom id with another's anonymous id.
- *Client and facade*: an event tracked after `identify` carries that identity; events keep
  their order; page views fit together; every call returns.
- *Adapters*: an event reaches every vendor under the visitor it was fanned out for; one
  failing vendor keeps no other from it; a shutdown waits for what it flushes.

`PROJECT.json` lists every hazard at its line, with the properties that watch it.

## 2. The modules

| Module | Models | Shape |
|---|---|---|
| `EventDelivery` | what all SDKs promise about events | abstract: an event is tracked, waits, and is delivered or given up, oldest first, and never comes back |
| `JsApiIntegration` | `api-integration.ts` and the storage | an action is the code between two awaits |
| `JsOutcome` | `errors.ts`, and `request`, `noteOutcome` and the catch of `drain` as far as answers decide | an action is an answer to one attempt of one request, a tick of the clock or a retry |
| `JsClient` | `browser.ts` lines 82-123 (the React Native client awaits the same promises) in front of `iforevents.ts` | `jobs` is the queue of microtasks of the calls |
| `JsPage` | the trackers of `browser.ts`, `react`, `next`, `react-native`, the provider, and the snippet's queue of `static.ts`, composed with `JsClient` | extends `JsClient`; navigations and pushes make its calls |
| `JsAdapters` | the nine vendor adapters under the facade, and the shutdown of `node/src/index.ts` | an action is one microtask; vendors answer when they like |
| `PyApiIntegration` | `python/iforevents/api.py` and its storage | an action is a section under a lock, or a thread's code up to the next thing another thread can see |
| `MC...` | model values and small sets for TLC | |
| `JsApiIntegration_proofs`, `JsQueue_proofs`, `JsDelivery_proofs` | theorems about `JsApiIntegration`: types; what is stored; what becomes of the events | each extends the one before |
| `JsOutcome_proofs`, `JsClient_proofs`, `JsAdapters_proofs`, `PyApiIntegration_proofs` | theorems about the module they are named after | |
| `JsPage_proofs` | theorems about `JsPage` | extends `JsClient_proofs` and reuses its invariant |

### JsApiIntegration

| Variables | Code |
|---|---|
| `queue`, `timer`, `chain`, `batch` | `this.queue`, `this.timer`, `this.inflight` (as the owners of the drains chained so far), the `events` of the running drain |
| `req` | the locals of each running `request`: attempt, and the ids its headers and body were built from, in the order in which the code reads them |
| `settling` | track calls between their `await this.persist()` and the `schedule`/`flush` after it |
| `userId`, `anonId`, `identified`, `flagWrites`, `reset` | the identity, the second write of each `setUser` still to come, and where each call of reset stands |
| `store` | the keys in storage |
| `fate`, `merges`, `loggedOut` | history, read by no action |

`Load`, `AdoptAnonymous`, `AdoptFlag`, `LoadQueue` are `init` with its awaits; `Track` and
`TrackSettled` are `track` and `page` around the persist; `DrainTakes`, `Accept`, `Fail`,
`DrainFailed`, `DrainDone` are `drain`; `Envelope`, `Post`, `Answered`, `BackOff`, `Retry` are
`request`; `Reset`, `ForgetAnonymous`, `ForgetUser`, `FlagWritten` are `reset` and the end of
`setUser`; `Crash` is a process or a page that ends. Headers and body of an answer are two
steps because the timeout of the code covers only the first.

Calls of `reset` overlap as the code lets them: `reset[n]` is where the n-th stands, and what
resets await resolves in the order of the calls (`FirstAt`), because their flushes are chained
and each storage write resolves before those made after it. The awaits of `super`, where
the base class only runs the app's hooks, are folded into the action after them: those of `track`, `page` and
`identify`, and the one in front of the flush of `reset`. An event is numbered where its
`track` goes on after that await, and `page` calls `track` after awaits of its own, so a
`track` called right after a `page` may be numbered before it. The properties speak of events
in the order of these numbers, which is the order in which they enter the queue; a promise
about the order in which an app makes unawaited calls of `page` and `track` is not checked
here.

### JsOutcome

`JsApiIntegration` knows of an answer only whether it is retryable; `JsOutcome` models the
answer itself: its status, the number in its `Retry-After` header, whether the body's `error`
is `quota_exceeded`, and the body's `retry_after_seconds`. `Ok`, `QuotaError`, `RateLimited`,
`Retryable`, `RetryAfter` are the classes and accessors of `errors.ts`, `Pause` the backoff of
`request`, `Fires` is `noteOutcome`. The drain and the requests of `identify` and of unbatched
`track` are `Senders` that share `quotaExceeded`. The app's callback may throw inside
`request`; the catch of `drain` then takes the error for a transient one (`DrainCatches`).
`last`, `rested`, `accepted`, `fired`, `refusals` and `fate` are history.

### JsClient and JsPage

A call awaits `ready`, then (track, page) the `identifying` of that moment, then reaches the
facade, which ignores it or fans it out. `identify` in the facade awaits the context provider
first, which the app may have made asynchronous (`SlowContext`). A fan-out reaches all
integrations in one synchronous step, so what they see is one sequence, `reached`. How an
integration treats the call afterwards is the subject of `JsApiIntegration` and `JsAdapters`.

`JsPage` adds what makes calls. `host` is the kind of app: `"history"` is `autoTrack` of
`browser.ts`, where every navigation makes a view at once; `"effect"` is the trackers of the
other packages, where an effect or callback sees only the last route (`due`, `EffectRuns`) and
the provider's cleanup shuts the client down (`Unmount`); `"snippet"` is the script tag, where
calls are pushed (`Push`) and made one after the other (`MakesNext`). A view's route is read
when it is made, its url by the client's `page` after the awaits (`ClientStep`).

### JsAdapters

Every adapter method but `flush` and `shutdown` awaits `super` before it touches the vendor,
so two calls an app does not await interleave as microtasks; `jobs` holds the continuations
first in, first out. The nine adapters differ, for these properties, in three traits: how many
awaits stand between a page view and the vendor, whether a call waits for the vendor's answer,
and whether `flush` and `shutdown` wait for the vendor's flush. The records `MixpanelNode` to
`GA4` state them, each mapped to its file. What a vendor's library does is external: it
answers, late, or fails.

### PyApiIntegration

`act[a]` is where thread `a` stands: in which call (`goal`), at which point (`pc`), with which
locals. Threads of the app and timer threads run the same `flush`. `_lock` is held only inside
an action; `_send_lock` is `sendLock`. A timer that has fired can no longer be cancelled: it
runs `_timer_fired` although `_timer` is already another one. `FlushCancels`, `FlushEnters`,
`FlushTakes`, `FlushPersists`, `FlushCatches`, `FlushGivesUp` are `flush`; `Break` is an
exception `_request` does not catch; `Remember`, `RememberFlag`, `StoreUser`, `StoreFlag` are
the four statements of `_set_user`, which takes no lock, so other threads run between them.
`Leftover` gives the process the stored queue of an earlier one whose `batch_size` was larger.

### Slips

Operators marked `\* slip:` are deliberately wrong variants of the definition below them, as a
plausible mistake in the code would make them. No specification uses them. Put in place of the
definition, each makes the property `PROJECT.json` names for it fail, which shows that the
property can.

## 3. What is checked

| Run | Question | Result |
|---|---|---|
| `js_queue` | five events, batches of two, a queue of two, one retry, overlapping flushes, one crash: order, bound, accounting, stored queue, no stranded queue, refinement of `EventDelivery` | holds |
| `js_give_up` | the same accounting and refinement when failures are abandoned, errors are thrown and the app shuts down | holds |
| `js_identity` | two users' `identify` and two calls of `reset`, all overlapping, unbatched track, storage of an earlier version, one crash: storage ends as memory, resets that have settled stay a logout | holds |
| `js_liveness` | three events, one reset, one crash and restart: the oldest waiting event is offered to the api, also after a restart that loaded it from storage; `reset` returns | holds |
| `js_outcome` | a drain and a request beside it, every answer of CONTRACT.md section 4, callbacks that throw: the callback runs once per success, refusals end, pauses are long enough, only refusals discard events, chunks settle | holds |
| `js_client_calls` | four calls made without awaiting, before and after init, by an app, a tracker or the snippet: identity first, order kept, views fit together, pushed calls in order, every call returns | holds |
| `js_adapters` | three calls over pairs of adapters, vendors missing, failing or late: events under the right visitor, in order, to every vendor; shutdown waits for what it flushes; calls settle | holds, with the exceptions below |
| `py_queue` | two threads, two timers, three events, retries, refusals, one crash: order, accounting, no stranded queue, exclusion of flushes, refinement | holds |
| `py_give_up` | no batching, no requeueing, errors raised, answers that break off, stored events of an earlier process, two threads changing identity, one crash: the send lock is always freed, nothing settled comes back | holds |
| `js_unsent_stored` | is an unsent event always in storage, as `persistQueue` says? | no: a `track` during a drain overwrites the stored batch (`api-integration.ts:245`) |
| `js_pairs` | does a request pair a custom id only with an anonymous id of that person? | no: `reset` replaces the two ids in two steps (`:263`) |
| `js_client_logout` | is the person forgotten after `identify(); reset()`? | no: the reset overtakes the identify (`iforevents.ts:78`) |

The last three state what a document of the repository says; `PROJECT.json` quotes it and the
counterexample is the run's output.

The properties of `js_adapters` name two exceptions, because the code behaves so and no
document promises otherwise. The page views of two server adapters (Mixpanel, Amplitude) go
through the adapter's own `track` and await twice, so the `identify` or `reset` after them
overtakes them (`Attributed` and `VendorOrder` except them). And the server's Mixpanel adapter
without a client returns a promise nobody settles (`CallsSettle` excepts it;
`EveryVendorReached` shows that the other vendors still get the event). That exception is of
`identify`, `track` and `page` only: `reset` and `shutdown` settle there too.

**Bounds.** Batches hold two events and the queue two or three, so that three events reach
every case: a full batch, a queue that is trimmed while a batch is being sent, and a requeue
that exceeds the queue's limit. Five events (JavaScript) let a requeued batch be trimmed and
sent again. One retry distinguishes a first, a last and a forbidden attempt; `JsOutcome` has
two, so that the linear backoff can differ from a constant one. One crash is enough because a
restart begins from storage alone, and every storage a crash can leave is reached before it;
it is followed by a complete second life. Two threads and two timers give every pairwise race,
including a cancelled timer that runs next to its successor. `FreeTimers` in the Python model
disables scheduling when both timers are alive: a bound, not a guard of the code. Calls of
`reset` in JavaScript, anonymous ids in Python, flushes waiting in the chain and calls of the
client are bounded by `MaxResets`, `MaxAnons`, `MaxFlushes` and `MaxCalls`. Overlapping resets
are checked in `js_identity`, with two; `js_liveness`, `js_pairs` have one, the runs about the
queue none. A person is identified again only when the earlier `identify` with that custom id
has ended, since requests are told apart by it: `identify` calls of different people overlap,
two of one person do not, although the code lets them. `js_liveness` begins with an empty
store; the queue that its restart loads is what the crash before it left. Two chunks show what a refusal does to a queue behind the one
refused, and one request beside the drain reaches the flag before, between and after its
answers. `ContractAnswers` has one answer of every class and, of rate limits, one with a
header, one with a body only, one with a header of zero and one without any number. Two routes give a new and an
unchanged path. The pairs of adapters cover every trait and every value of it; three calls are
needed for an event between two changes of identity, the fourth of `JsPage` for two views
around an `identify`. Runs switch deadlock checking off because an app may simply stop
calling. Symmetry is used between users and between threads, in runs without liveness
properties.

**Fairness.** `JsApiIntegration` assumes that the event loop runs what is ready: timers fire,
continuations run, a request gets an answer, an error or its timeout (`EventLoop`). That a
body ends once its headers arrived is the separate assumption `BodiesEnd`, because no line of
the code enforces it: the timeout is cleared when the headers arrive (`:391`), and without the
assumption neither liveness property of that module holds. Nothing is assumed of the app, of
the outcome of a request, or of crashes. `JsOutcome` assumes that the drain starts when
something waits, that attempts are answered and that the clock and its timers go on;
`ChunksSettle` allows a drain that fails for ever. `JsClient` and `JsPage` assume that
microtasks run, that init ends, and that contexts and integrations settle (`WF(ClientStep)`);
the last is a vendor's matter and is listed as a hazard. `JsAdapters` assumes that init ends,
that microtasks run and that vendors answer what they were asked, be it with a failure. No
liveness is claimed of the Python model: its lock is not a fair one.

## 4. What is proved

The theorems hold for every value of the constants (batch and queue size, retries, users,
events, threads, calls, adapters, answers, ...), from the assumptions the modules name
(`ConfigAssumption`, `InstanceAssumption`, `OutcomeAssumption`, `ClientAssumption`,
`PageAssumption`, `AdapterAssumption`, `PyConfigAssumption`, `PyInstanceAssumption`). Six need
a condition more, which the theorem states and this section explains: `DeliveryImplemented`,
`NothingStranded` and `ResetForgets` of JavaScript, and `Accounted`, `NobodyStrandsTheQueue`
and `DeliveryImplemented` of Python. Every invariant and every action property of a passing run,
and both refinements, are stated by a theorem; the runs' other properties are liveness.

### JsApiIntegration

- `TypeCorrect`: `Spec => []TypeOK`. Not a formality: that `attempt` stays within
  `0..MaxRetries`, and that a reset is always at one of its places, need facts about other
  variables. `TypeInv` adds them: a paused request has an attempt left (`RetriesLeft`); each
  reset waits for at most one drain or one flag write, and stands where that says
  (`OneReset`); before init nothing runs (`Quiet`);
  storage lacks an anonymous id only before the first start (`FirstStart`); a drain that sends
  has an entry in the chain (`DrainHead`).
- `OrderKept`: `Spec => []QueueOrder`, and `MemoryBounded`: `Spec => []HeldBounded`. Neither
  is inductive. That a requeue is sorted needs that everything in `queue` is newer than
  `batch`; that a reload from storage is sorted needs that the stored queue is; that an append
  is sorted needs that every event held or stored is at most `tracked`; and the bound needs
  that no batch is larger than `MaxBatch`, because a trim leaves `MaxQueueSize` events behind
  the batch being sent. `QueueInv` says this element by element, lemma `QueueInvMeans` shows
  that it is the conjunction the runs check, and `QueueNext` has one lemma per action. TLC
  checked the supporting invariants before they were proved.
- `QueueIsStored`: `Spec => []QueueStored`. The queue is the end of the stored queue, although
  storage is not written when a drain takes a batch: taking and trimming both leave an end of
  what there was (`EndAfter`), and every other change of the queue is followed by a persist in
  the same step. The one further invariant it needs, `ShutsLoaded`, is that only a client
  whose queue was loaded is ever shut down.
- `Accounted`: `Spec => []EventsAccounted`. Every step either leaves the events in hand as
  they are, adds the one just tracked and sheds others, or settles the oldest of them
  (`Moves`), and `fate` records just that. `DeliveryInv` adds to `QueueInv`: the drain sends
  something, without batching nothing is queued (`Unbatched`), what a restart will find is
  among the newest of what is held (`KeptNewest`), and events not yet tracked have no fate
  (`Fresh`).
- `DeliveryImplemented`: with `BatchSize > 1`, `Spec => ImplementsDelivery`, by mapping each
  kind of `Moves` to `Track`, `Deliver`, `GiveUp` or a stutter of `EventDelivery`. Without
  batching the requests of single events overlap and are answered in any order, so they are
  not delivered oldest first, and the refinement is not claimed.
- `NothingStranded`: with `RequeueFailedEvents`, `Spec => []NoStrandedQueue`. The invariant
  `Woken` is stronger: a drain that has failed is still the head of the chain but sends
  nothing more, so it must not count as what will send the queue.
- `RestartFindsVisitor`: `Spec => []IdentityStored`. `Mirror` relates memory to the flag
  writes under way: `identified` is what the last of them will write, or, when none waits,
  what is stored. `Booted` says what each await of `init` has established.
- `ResetForgets`: with `~ThrowOnError`, `Spec => []LoggedOut`, for every number of resets that
  overlap. `OutInv` adds the moments in which resets still write their flags. With `throwOnError` the flush inside `reset` may
  reject before anything is forgotten, and the property does not hold.

### JsOutcome

- `TypeCorrect`: `Spec => []TypeOK`, with the bound on attempts (`AttemptLeft`, `SentOnce`).
- `CallbackOnce`: `Spec => []OncePerSuccess`, an induction of its own over the flag, the
  successes and the calls.
- `RefusalsBounded`: `Spec => []RefusalsEnd`. `RefusedInv` bounds how often a chunk that waits
  or is being sent can have been refused: it was put back only by a callback that threw, and
  `CallbackOnce` bounds those.
- `AlwaysPatient`: `Spec => []Patience`. `PauseInv` says of a paused request that the ticks
  rested and the ticks to wait add up to at least the pause its last answer asks for, or the
  linear backoff when it asks for none.
- `OnlyRefusedDropped`: `Spec => DropsAreRefusals`, an action property, from the type
  invariant.

### PyApiIntegration

- `TypeCorrect` and `FlushesExclude`: `Spec => []TypeOK` and `Spec => []OneDrain`, from one
  invariant `Exclusive`, which adds that a thread that is between two batches has an empty
  one. Every step is either outside of the send lock (`Outside`: no thread moves into or out
  of a place inside a flush) or one of the lock's holder (`InsideKeeps`), also when an
  exception leaves the flush.
- `OrderKept`: `Spec => []QueueOrder`. `OrderInv` speaks of the batch of the lock's holder
  followed by the queue, of the stored queue, and of `tracked` above both; it needs
  `Exclusive`, because it is the exclusion that makes "the batch" well defined while other
  threads track and trim.
- `Accounted`: with `PersistQueue`, or with `Leftover = 0`, `Spec => []EventsAccounted`.
  `AccountInv` adds that a thread that is not sending or settling a request holds nothing
  (`Handless`), that no two threads and no thread and the queue hold the same event (`Apart`),
  that what storage holds is pending or was dropped from memory only (`Backed`), and that
  events not yet tracked have no outcome (`Fresh`). That the events a flush takes are not
  also among those it leaves comes from `OrderInv`. The condition is there because without
  `persist_queue` the code never reads a queue that an earlier process stored.

- `NobodyStrandsTheQueue`: with `RequeueFailedEvents` and `~BodiesBreak`,
  `Spec => []NoStrandedQueue`. `Minded` is stronger than the property: somebody is at a place
  from which it will look at the queue, where a holder of the send lock that has already failed
  does not count. `Timed` is what makes it inductive: the timer in the field `_timer` is one
  that still runs, so that a thread which cancels it, or finds it set and schedules none, knows
  what it relies on. Without requeueing a failure leaves the rest of a long queue without a
  timer, and an answer that breaks off leaves `flush` before it schedules; both are hazards.
- `DeliveryImplemented`: with `BatchSize > 1`, `~BodiesBreak` and `Leftover = 0`,
  `Spec => ImplementsDelivery`. Each step is one of the kinds of `Moves` and each kind is
  `Track`, `Deliver`, `GiveUp` or a stutter of `EventDelivery`. `DeliveryInv` says that only
  the lock's holder has a batch (`Alone`), so that what is delivered is the oldest of what is
  held; that what a restart will find is the newest of what is pending (`Upper`), so that a
  crash gives up the oldest; and that nothing is dropped from memory only (`Undropped`). The
  last is false once a body breaks off: memory loses a batch that storage still has, and a
  restart brings it back. `Leftover = 0` because the abstract history starts with nothing
  tracked. Without batching requests of single events overlap, as in JavaScript.

### JsClient

- `TypeCorrect`, `IdentityComesFirst`: `Spec => []IdentifiedFirst`, and `OrderKept`:
  `Spec => []SameVisitorOrder`, from one invariant `ClientInv`.
  - `CallInv`: calls leave `ready` in the order in which they were made. This is what makes the
    `identifying` a call finds there the right one.
  - `WaitInv`: what a track found is the latest identify made before it (`IsLatest`), and a
    track that is beyond the promise leaves that identify settled.
  - `JobsInv`: the microtasks are exactly the calls that can run, and among those that wait for
    the same promise they are in the order of the calls (`Fair`). One cannot ask that of
    all: a track that waits for a slow identify is overtaken by a reset made after it.
  - `ReachedInv` carries the order of the queue over to the order of `reached`.
- The step that needs most care is a promise that settles and releases all its waiters at once
  (`InOrder`): they are appended behind jobs of other kinds, and the order among equals has to
  survive.

### JsPage

- `PageTypeCorrect`; `JourneysFit`: `PageSpec => []JourneyUnbroken`; `ScreenIsShown`:
  `PageSpec => []LastViewIsCurrent`; `PushesInOrder`: `PageSpec => []SnippetInOrder`.
  `JourneyInv` relates the tracker's memory to the last view it made, so that the next one
  starts where it ended; `ScreenInv` says that this memory is the screen shown except between a
  navigation and its effect. The url of a view is read after the awaits of `page`, so `ScreenInv`
  speaks of it only once the last view is `Over` (past them): a navigation in between would
  have made a later view.
- `PageImplementsClient`: `PageSpec => Spec`. Every step of a page is one of the client or a
  stutter. `PageIdentityFirst` and `PageKeepsOrder` follow from it and the theorems about the
  client, with nothing proved twice.

### JsAdapters

- `TypeCorrect`; `InTheirOrder`: `Spec => []VendorOrder`; `RightVisitor`:
  `Spec => []Attributed`. `BaseInv` says that a call has at most one continuation or question
  per adapter and that it is open meanwhile. `OrderInv` then rests on one observation: all
  calls but the forwarded page views (those not `Plain`) await equally often, so each
  adapter takes them up in the order of the fan-outs (`InTurn`, `UpTo`). Hence the visitor an
  adapter holds is the last change of identity it has taken up (`Visitors`), and when it takes
  up an event, that is the last one fanned out before the event. The two exceptions of section
  3 are exactly the calls that are not `Plain`.
- `ShutdownFlushes`: `Spec => []FlushedOnReturn`. `FlushInv` accounts for each event at each
  vendor: it is still a continuation, or with the vendor's client (`GivenInv`), or answered or
  failed (`AnsweredInv`); and the first shutdown has asked each vendor for a flush of all it
  was given by the calls that were settled at that time (`StopInv`).

The proofs use lemmas about the helpers (`FirstN`, `AfterN`, `Newest`, `InOrder`,
concatenation: what they return, that they preserve order, how long the result is). That a set
of numbers has a least or greatest element is taken from the well-foundedness of `Nat` or from
finiteness, since the library's induction theorems cannot be instantiated by these provers.

Only model-checked is liveness, which is outside of what the prover handles: `OldestOffered`,
`ResetReturns`, `ChunksSettle`, `CallsReturn`, `EveryVendorReached` and `CallsSettle`.

## 5. What is not modelled, and why

- The Go, Java, Android, .NET, Unity, Ruby, Swift and PHP SDKs. Each has the queue of the
  Python model under its own primitives; `PROJECT.json` lists those of their hazards that
  differ.
- Payloads, properties, flattening, contexts, log lines, time stamps and header values other
  than the two ids and `Retry-After`: no property depends on them.
- The hooks of an integration, the callbacks `onError` and `onResult`, and Python's callbacks and quota flag.
- A storage whose writes fail, two tabs or processes that share a storage, and a second
  `init`.
- The identity an event was tracked under: events do not carry it in the code either (see the
  hazards).
- Of the packages for React and Next: StrictMode's double effects, a client that is replaced
  while mounted, the singleton of `next/server`. Of the script tag: its options.
- The insides of the vendors' libraries.

## 6. What is left

1. The other languages, in the order of what differs: Swift (no send lock, so drains overlap
   and order can break), .NET (cancellation between taking and requeueing), Go (contexts, and
   callbacks under the mutex), Ruby (a timer thread killed by its cancellation), Java (an
   executor), PHP (a request's life, no timer). Each becomes a module with the actions of its
   own file, checked against `EventDelivery`.
2. A composition of two `JsApiIntegration`s over one storage (two tabs).
3. Proofs for the modules of items 1 and 2 as they are written: the same invariants, with what
   takes the place of the send lock.
