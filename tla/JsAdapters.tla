----------------------------- MODULE JsAdapters -----------------------------
(***************************************************************************)
(* The vendor adapters of js/packages/{mixpanel,amplitude,segment,posthog, *)
(* ga4} under the facade, in a server process (js/packages/node) or a page *)
(* whose app calls the facade without awaiting.                            *)
(*                                                                         *)
(* Every adapter method but flush and shutdown awaits `super` before it    *)
(* touches the vendor, and microtasks run first in, first out: `jobs` is   *)
(* the queue of the continuations.  An app's own code may run between any  *)
(* two of them.  What the vendors' libraries do is external: they answer   *)
(* when they like, or report a failure.                                    *)
(***************************************************************************)
EXTENDS Naturals, SequencesExt

CONSTANTS
    Setups,      \* sequences of adapters an app may hand to the facade
    MaxCalls     \* bound on the calls of the app

Calls == 1..MaxCalls
None  == 0
Kinds == {"identify", "track", "page", "reset", "flush", "stop"}
Events == {"track", "page"}

-----------------------------------------------------------------------------
(* What tells the adapters apart:                                          *)
(*   pageAwaits awaits before a page view reaches the vendor               *)
(*   waits      whether a call waits for the vendor's answer: "never",     *)
(*              "client" (if there is a client), "always"                  *)
(*   flushes    flush and shutdown wait for the vendor's own flush         *)
MixpanelNode  == [pageAwaits |-> 2, waits |-> "always", flushes |-> FALSE]
AmplitudeNode == [pageAwaits |-> 2, waits |-> "never",  flushes |-> TRUE]
SegmentNode   == [pageAwaits |-> 1, waits |-> "never",  flushes |-> TRUE]
PostHogNode   == [pageAwaits |-> 1, waits |-> "never",  flushes |-> TRUE]
MixpanelWeb   == [pageAwaits |-> 1, waits |-> "never",  flushes |-> FALSE]
AmplitudeWeb  == [pageAwaits |-> 1, waits |-> "never",  flushes |-> FALSE]
SegmentWeb    == [pageAwaits |-> 1, waits |-> "client", flushes |-> FALSE]
PostHogWeb    == [pageAwaits |-> 1, waits |-> "never",  flushes |-> FALSE]
GA4           == [pageAwaits |-> 1, waits |-> "never",  flushes |-> FALSE]

Adapter ==
    [MixpanelNode |-> MixpanelNode, AmplitudeNode |-> AmplitudeNode,
     SegmentNode  |-> SegmentNode,  PostHogNode   |-> PostHogNode,
     MixpanelWeb  |-> MixpanelWeb,  AmplitudeWeb  |-> AmplitudeWeb,
     SegmentWeb   |-> SegmentWeb,   PostHogWeb    |-> PostHogWeb, GA4 |-> GA4]

Vendors == DOMAIN Adapter

ASSUME AdapterAssumption ==
    /\ Setups # {} /\ \A s \in Setups : s \in Seq(Vendors) /\ IsInjective(s)
    /\ MaxCalls \in Nat

VARIABLES
    setup,        \* the adapters of this app, in order
    initialized,  \* the facade's flag
    closed,       \* a shutdown of the facade has settled
    client,       \* whether the adapter has a vendor's client to call
    stopped,      \* the flag of the server's shutdown function
    called, kind, \* the calls of the app
    pc,           \* of each call: "none", "context", "out" (fanned out), "settled"
    pending,      \* adapters whose promise for the call is not settled
    jobs,         \* continuations ready to run: a call, an adapter, further awaits
    asking,       \* <<k, v, S>>: vendor v owes call k an answer, about the events S
    id,           \* who the adapter, or the vendor for it, takes the visitor to be
    log,          \* what a vendor was given: the call, and the visitor
    sent,         \* the calls whose event has left the process for the vendor
    failed,       \* adapters whose result for a call is a failure
    reached,      \* History: the calls in the order of their fan-outs
    known         \* History: of each stop, the calls settled when it was made

vars == <<setup, initialized, closed, client, stopped, called, kind, pc, pending, jobs, asking,
          id, log, sent, failed, reached, known>>
app    == <<setup, client, called, kind>>
facade == <<initialized, closed>>

Using == ToSet(setup)

Init ==
    /\ setup \in Setups
    /\ initialized = FALSE /\ closed = FALSE /\ stopped = FALSE
    /\ client = [v \in Using |-> FALSE]
    /\ called = 0
    /\ kind = [k \in Calls |-> "track"]
    /\ pc = [k \in Calls |-> "none"]
    /\ pending = [k \in Calls |-> {}]
    /\ jobs = <<>> /\ asking = {}
    /\ id = [v \in Using |-> None]
    /\ log = [v \in Using |-> <<>>]
    /\ sent = [v \in Using |-> {}] /\ failed = [k \in Calls |-> {}]
    /\ reached = <<>>
    /\ known = [k \in Calls |-> {}]

(* Without a client: a vendor that could not be loaded, or failed before   *)
(* the adapter kept it.  (The web adapters and Amplitude's keep a client   *)
(* whose own init failed, which is called like any other.)                 *)
InitEnds ==
    /\ ~initialized /\ ~closed
    /\ initialized' = TRUE
    /\ \E broken \in SUBSET (Using \ {"GA4"}) : client' = [v \in Using |-> v \notin broken]
    /\ UNCHANGED <<setup, closed, stopped, called, kind, pc, pending, jobs, asking, id, log, sent,
                   failed, reached, known>>

-----------------------------------------------------------------------------
(* The facade *)

AwaitsForEvents(v, how) ==    \* slip: track awaits a helper too
    IF how \in Events THEN Adapter[v].pageAwaits ELSE 1
AwaitsForPages(v, how) ==     \* slip: every adapter forwards page views to its track
    IF how = "page" THEN 2 ELSE 1
AwaitsMore(v, how) ==         \* slip: one await more than needed
    IF how = "page" THEN Adapter[v].pageAwaits + 1 ELSE 2
Awaits(v, how) == IF how = "page" THEN Adapter[v].pageAwaits ELSE 1

(* The facade calls every adapter in one go; each runs up to its await.    *)
FanOutToReady(k) ==       \* slip: an adapter without a client ends the loop
    LET n == CHOOSE m \in 0..Len(setup) :
               /\ \A i \in 1..m : client[setup[i]]
               /\ m = Len(setup) \/ ~client[setup[m + 1]]
    IN  SubSeq(setup, 1, n)
Takers(k) == setup

FanOut(k, how, queue) ==
    /\ pc' = [pc EXCEPT ![k] = IF Using = {} THEN "settled" ELSE "out"]
    /\ pending' = [pending EXCEPT ![k] = Using]
    /\ jobs' = queue \o [i \in 1..Len(Takers(k)) |-> <<k, Takers(k)[i], Awaits(Takers(k)[i], how) - 1>>]
    /\ reached' = Append(reached, k)

New(how) ==
    /\ called < MaxCalls
    /\ called' = called + 1
    /\ kind' = [kind EXCEPT ![called + 1] = how]
    /\ UNCHANGED <<setup, client, facade, id, log, sent, failed>>

(* A call before init has ended, or after a shutdown, returns at once.     *)
Ignored(how) ==
    /\ New(how) /\ ~initialized
    /\ how \in {"identify", "track", "page", "reset"}
    /\ pc' = [pc EXCEPT ![called + 1] = "settled"]
    /\ UNCHANGED <<stopped, pending, jobs, asking, reached, known>>

CallOut(how) ==
    /\ New(how) /\ initialized
    /\ how \in {"track", "page", "reset"}
    /\ FanOut(called + 1, how, jobs)
    /\ UNCHANGED <<stopped, asking, known>>

(* identify awaits its context twice before the fan-out. *)
CallIdentify ==
    /\ New("identify") /\ initialized
    /\ pc' = [pc EXCEPT ![called + 1] = "context"]
    /\ jobs' = Append(jobs, <<called + 1, "facade", 1>>)
    /\ UNCHANGED <<stopped, pending, asking, reached, known>>

(* flush and shutdown ask the vendors at once, without an await before it. *)
Given(v)  == {log[v][i].call : i \in DOMAIN log[v]}
Flushing  == {v \in Using : client[v] /\ Adapter[v].flushes}
AsksUnawaited(k) ==     \* slip: the promise of the vendor's flush is dropped
    /\ pc' = [pc EXCEPT ![k] = "settled"]
    /\ UNCHANGED <<pending, asking>>
Asks(k) ==
    /\ pending' = [pending EXCEPT ![k] = Flushing]
    /\ asking' = asking \cup {<<k, v, Given(v)>> : v \in Flushing}
    /\ pc' = [pc EXCEPT ![k] = IF Flushing = {} THEN "settled" ELSE "out"]

CallFlush ==
    /\ New("flush")
    /\ Asks(called + 1)
    /\ UNCHANGED <<stopped, jobs, reached, known>>

(* The shutdown function that createIforevents returns, which beforeExit   *)
(* calls too: only its first call does anything.                           *)
CallStop ==
    /\ called < MaxCalls /\ (initialized \/ stopped)
    /\ called' = called + 1
    /\ kind' = [kind EXCEPT ![called + 1] = "stop"]
    /\ stopped' = TRUE
    /\ known' = [known EXCEPT ![called + 1] = {k \in Calls : pc[k] = "settled"}]
    /\ IF stopped
         THEN pc' = [pc EXCEPT ![called + 1] = "settled"] /\ UNCHANGED <<pending, asking, facade>>
         ELSE /\ Asks(called + 1)
              /\ initialized' = (Flushing # {}) /\ closed' = (Flushing = {})
    /\ UNCHANGED <<setup, client, jobs, id, log, sent, failed, reached>>

-----------------------------------------------------------------------------
(* An adapter *)

Settle(k, v) ==
    LET left == pending[k] \ {v} IN
    /\ pending' = [pending EXCEPT ![k] = left]
    /\ pc' = [pc EXCEPT ![k] = IF left = {} THEN "settled" ELSE @]

(* The first job resumes; if it has awaits left it queues up again. *)
Resumes(k, v) == jobs # <<>> /\ Head(jobs) = <<k, v, 0>>

AwaitsAgain ==
    /\ jobs # <<>> /\ Head(jobs)[3] > 0
    /\ jobs' = Append(Tail(jobs), [Head(jobs) EXCEPT ![3] = @ - 1])
    /\ UNCHANGED <<app, facade, stopped, pc, pending, asking, id, log, sent, failed, reached, known>>

ContextThere(k) ==
    /\ Resumes(k, "facade")
    /\ FanOut(k, "identify", Tail(jobs))
    /\ UNCHANGED <<app, facade, stopped, asking, id, log, sent, failed, known>>

(* Whether the adapter's promise stays open after its call of the vendor.  *)
WaitsWithoutClient(k, v) ==   \* slip: every adapter that waits does so without a client
    kind[k] # "reset" /\ Adapter[v].waits # "never"
WaitsForVendor(k, v) ==
    \/ Adapter[v].waits = "always" /\ kind[k] # "reset"
    \/ Adapter[v].waits = "client" /\ client[v]

Forwards(k, v) ==
    LET event == kind[k] \in Events /\ client[v] IN
    /\ Resumes(k, v)
    /\ jobs' = Tail(jobs)
    /\ id' = [id EXCEPT ![v] = CASE kind[k] = "identify" -> k
                                 [] kind[k] = "reset"    -> None
                                 [] OTHER                -> @]
    /\ log' = IF event THEN [log EXCEPT ![v] = Append(@, [call |-> k, id |-> id[v]])] ELSE log
    /\ IF WaitsForVendor(k, v)
         THEN /\ asking' = IF client[v] THEN asking \cup {<<k, v, IF event THEN {k} ELSE {}>>} ELSE asking
              /\ UNCHANGED <<pc, pending>>
         ELSE Settle(k, v) /\ UNCHANGED asking
    /\ UNCHANGED <<app, facade, stopped, sent, failed, reached, known>>

(* The vendor answers a call, or fails it. *)
Answers(k, v, S) ==
    /\ <<k, v, S>> \in asking
    /\ asking' = asking \ {<<k, v, S>>}
    /\ \/ sent' = [sent EXCEPT ![v] = @ \cup S] /\ UNCHANGED failed
       \/ failed' = [failed EXCEPT ![k] = @ \cup {v}] /\ UNCHANGED sent
    /\ Settle(k, v)
    /\ IF kind[k] = "stop" /\ pending'[k] = {}
         THEN initialized' = FALSE /\ closed' = TRUE
         ELSE UNCHANGED facade
    /\ UNCHANGED <<app, stopped, jobs, id, log, reached, known>>

Runs ==
    \/ AwaitsAgain
    \/ \E k \in Calls : ContextThere(k)
    \/ \E k \in Calls, v \in Using : Forwards(k, v)

VendorAnswers == \E ask \in asking : Answers(ask[1], ask[2], ask[3])

Next ==
    \/ InitEnds
    \/ \E how \in Kinds : Ignored(how) \/ CallOut(how)
    \/ CallIdentify \/ CallFlush \/ CallStop
    \/ Runs
    \/ VendorAnswers

Spec == Init /\ [][Next]_vars

(* Init ends, microtasks run, and vendors answer what they were asked;     *)
(* nothing is assumed of the app.                                          *)
FairSpec == Spec /\ WF_vars(InitEnds) /\ WF_vars(Runs) /\ WF_vars(VendorAnswers)

-----------------------------------------------------------------------------
(* Properties *)

(* Every variable has its type. *)
TypeOK ==
    /\ setup \in Setups
    /\ {initialized, closed, stopped} \subseteq BOOLEAN /\ client \in [Using -> BOOLEAN]
    /\ called \in 0..MaxCalls /\ kind \in [Calls -> Kinds]
    /\ pc \in [Calls -> {"none", "context", "out", "settled"}]
    /\ pending \in [Calls -> SUBSET Using] /\ failed \in [Calls -> SUBSET Using]
    /\ jobs \in Seq(Calls \X (Using \cup {"facade"}) \X {0, 1})
    /\ asking \subseteq Calls \X Using \X SUBSET Calls
    /\ id \in [Using -> Calls \cup {None}]
    /\ log \in [Using -> Seq([call : Calls, id : Calls \cup {None}])]
    /\ sent \in [Using -> SUBSET Calls] /\ known \in [Calls -> SUBSET Calls]
    /\ reached \in Seq(Calls)

Position(k) == CHOOSE i \in DOMAIN reached : reached[i] = k

(* Who the visitor was when call k was fanned out.                         *)
VisitorAt(k) ==
    LET changes == {i \in 1..(Position(k) - 1) : kind[reached[i]] \in {"identify", "reset"}}
        last    == reached[Max(changes)]
    IN  IF changes = {} \/ kind[last] = "reset" THEN None ELSE last

Direct(k, v) == kind[k] = "track" \/ Adapter[v].pageAwaits = 1

(* However calls overlap, a vendor gets an event under the visitor of the  *)
(* moment it was fanned out; only page views that an adapter forwards to   *)
(* its own track can be overtaken by the next identify or reset.           *)
Attributed ==
    \A v \in Using : \A e \in ToSet(log[v]) : Direct(e.call, v) => e.id = VisitorAt(e.call)

(* With the same exception, every vendor gets the events in the order of   *)
(* their fan-outs, and each at most once.                                  *)
VendorOrder ==
    \A v \in Using : \A i, j \in DOMAIN log[v] :
        i < j /\ Direct(log[v][i].call, v) /\ Direct(log[v][j].call, v)
          => Position(log[v][i].call) < Position(log[v][j].call)

(* An event whose call had returned when the server began its shutdown is  *)
(* with the vendors that flush or confirm, once that shutdown has returned *)
(* and neither call reported a failure.                                    *)
FlushedOnReturn ==
    \A s \in Calls : kind[s] = "stop" /\ pc[s] = "settled" /\ (\A t \in 1..(s-1) : kind[t] # "stop") =>
        \A k \in known[s], v \in Using :
            /\ k \in ToSet(reached) /\ kind[k] \in Events /\ client[v]
            /\ Adapter[v].flushes \/ Adapter[v].waits # "never"
            /\ v \notin failed[s] \cup failed[k]
            => k \in sent[v]

(* One failing adapter never keeps a call from the others: an event that   *)
(* was fanned out reaches every vendor whose client there is.              *)
EveryVendorReached ==
    \A k \in Calls :
        (k \in ToSet(reached) /\ kind[k] \in Events) ~> \A v \in Using : client[v] => k \in Given(v)

(* Every call returns, except an event or an identify at the one adapter   *)
(* that waits for an answer without having anybody to ask; a reset and a   *)
(* shutdown return there too.                                              *)
Forsaken(k) == kind[k] \in Events \cup {"identify"} /\ \E v \in pending[k] : Adapter[v].waits = "always" /\ ~client[v]
CallsSettle == \A k \in Calls : pc[k] # "none" ~> pc[k] = "settled" \/ Forsaken(k)
=============================================================================
