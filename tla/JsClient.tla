------------------------------ MODULE JsClient ------------------------------
(***************************************************************************)
(* The client an app holds: the browser client of                          *)
(* js/packages/browser/src/browser.ts in front of the facade of            *)
(* js/packages/core/src/iforevents.ts, which fans every call out to the    *)
(* integrations.                                                           *)
(*                                                                         *)
(* The app calls without awaiting.  Continuations whose promise is settled *)
(* run one by one in the order in which they became ready: `jobs` is the   *)
(* queue of the microtasks of the calls.  fanOut reaches all integrations  *)
(* in one synchronous step, so what they see is one sequence of calls.     *)
(***************************************************************************)
EXTENDS Naturals, FiniteSets, SequencesExt

CONSTANTS
    SlowContext,    \* may the context provider be slow (it may be async)?
    MaxCalls        \* bound on the calls of the app

ASSUME ClientAssumption ==
    /\ SlowContext \in BOOLEAN
    /\ MaxCalls \in Nat

Calls == 1..MaxCalls
None  == 0      \* no call
Kinds == {"track", "identify", "reset", "flush", "shutdown"}    \* a page view waits as a track does

VARIABLES
    ready,        \* the promise of init is resolved
    initialized,  \* the facade's flag
    called,       \* number of calls made
    kind,         \* of each call
    pc,           \* where each call stands
    waitsFor,     \* the identify call a track call awaits
    identifying,  \* the call whose promise the client's `identifying` is
    jobs,         \* calls whose continuation is ready to run
    traits,       \* the identify call whose traits the facade remembers
    reached       \* History: the calls in the order they reached the integrations

vars == <<ready, initialized, called, kind, pc, waitsFor, identifying, jobs, traits, reached>>
app  == <<called, kind>>

Init ==
    /\ ready = FALSE /\ initialized = FALSE
    /\ called = 0
    /\ kind = [k \in Calls |-> "track"]
    /\ pc = [k \in Calls |-> "none"]
    /\ waitsFor = [k \in Calls |-> None]
    /\ identifying = None
    /\ jobs = <<>>
    /\ traits = None
    /\ reached = <<>>

(* Calls of S in the order they were made. *)
InOrder(S) ==
    LET n == Cardinality(S) IN
    CHOOSE s \in [1..n -> S] : \A i, j \in 1..n : i < j => s[i] < s[j]

-----------------------------------------------------------------------------
(* The app calls; every method of the client first awaits ready. *)
Call(how) ==
    LET k == called + 1 IN
    /\ called < MaxCalls
    /\ called' = k
    /\ kind' = [kind EXCEPT ![k] = how]
    /\ pc' = [pc EXCEPT ![k] = "ready"]
    /\ jobs' = IF ready THEN Append(jobs, k) ELSE jobs
    /\ UNCHANGED <<ready, initialized, waitsFor, identifying, traits, reached>>

(* init has settled in every integration: all that await it may run. *)
InitEnds ==
    /\ ~ready
    /\ ready' = TRUE /\ initialized' = TRUE
    /\ jobs' = InOrder({k \in Calls : pc[k] = "ready"})
    /\ UNCHANGED <<app, pc, waitsFor, identifying, traits, reached>>

(* A continuation at `from` runs. *)
Runs(k, from) == jobs # <<>> /\ Head(jobs) = k /\ pc[k] = from

(* A call arrives at every integration, or is ignored by the facade. *)
FanOut(k) ==
    /\ pc' = [pc EXCEPT ![k] = "integrations"]
    /\ reached' = Append(reached, k)
IgnoredUnsettled(k) ==   \* slip: the promise of an ignored call never settles
    /\ pc' = [pc EXCEPT ![k] = "ignored"]
    /\ UNCHANGED reached
Ignored(k) ==
    /\ pc' = [pc EXCEPT ![k] = "settled"]
    /\ UNCHANGED reached
FacadeTakes(k) == IF initialized \/ kind[k] \in {"flush", "shutdown"} THEN FanOut(k) ELSE Ignored(k)

(* track awaits the identify call that is the latest one by now. *)
NoIdentify == None     \* slip: track awaits ready only
LatestIdentify == identifying

TrackReady(k) ==
    /\ Runs(k, "ready") /\ kind[k] = "track"
    /\ LET i == LatestIdentify IN
         /\ waitsFor' = [waitsFor EXCEPT ![k] = i]
         /\ jobs' = IF i = None \/ pc[i] = "settled" THEN Append(Tail(jobs), k) ELSE Tail(jobs)
    /\ pc' = [pc EXCEPT ![k] = "identifying"]
    /\ UNCHANGED <<ready, initialized, app, identifying, traits, reached>>

TrackGoes(k) ==
    /\ Runs(k, "identifying")
    /\ jobs' = Tail(jobs)
    /\ FacadeTakes(k)
    /\ UNCHANGED <<ready, initialized, app, waitsFor, identifying, traits>>

(* The facade's identify awaits the context provider before the fan-out. *)
IdentifyReady(k) ==
    /\ Runs(k, "ready") /\ kind[k] = "identify"
    /\ identifying' = k
    /\ IF initialized
         THEN pc' = [pc EXCEPT ![k] = "context"] /\ UNCHANGED reached
         ELSE Ignored(k)
    /\ jobs' = IF initialized /\ ~SlowContext THEN Append(Tail(jobs), k) ELSE Tail(jobs)
    /\ UNCHANGED <<ready, initialized, app, waitsFor, traits>>

ContextThere(k) ==
    /\ IF SlowContext THEN pc[k] = "context" /\ UNCHANGED jobs
                      ELSE Runs(k, "context") /\ jobs' = Tail(jobs)
    /\ FanOut(k)
    /\ UNCHANGED <<ready, initialized, app, waitsFor, identifying, traits>>

OtherReady(k) ==
    /\ Runs(k, "ready") /\ kind[k] \in {"reset", "flush", "shutdown"}
    /\ jobs' = Tail(jobs)
    /\ FacadeTakes(k)
    /\ UNCHANGED <<ready, initialized, app, waitsFor, identifying, traits>>

(* Every integration has settled (safeExecute turns failures into results).*)
(* The tracks that awaited an identify run in the order they began to.     *)
ReleasedLatest(k) ==    \* slip: only the latest track is released
    LET S == {t \in Calls : pc[t] = "identifying" /\ waitsFor[t] = k}
    IN  IF S = {} THEN <<>> ELSE <<Max(S)>>
ReleasedReversed(k) ==  \* slip: a stack of waiting tracks
    Reverse(InOrder({t \in Calls : pc[t] = "identifying" /\ waitsFor[t] = k}))
Released(k) == InOrder({t \in Calls : pc[t] = "identifying" /\ waitsFor[t] = k})
Settles(k) ==
    /\ pc[k] = "integrations"
    /\ pc' = [pc EXCEPT ![k] = "settled"]
    /\ traits' = CASE kind[k] = "identify" -> k
                   [] kind[k] = "reset"    -> None
                   [] OTHER                -> traits
    /\ initialized' = (initialized /\ kind[k] # "shutdown")
    /\ jobs' = jobs \o Released(k)
    /\ UNCHANGED <<ready, app, waitsFor, identifying, reached>>

CallStep(k) ==
    \/ TrackReady(k) \/ TrackGoes(k) \/ IdentifyReady(k) \/ ContextThere(k) \/ OtherReady(k)
    \/ Settles(k)

Next ==
    \/ \E how \in Kinds : Call(how)
    \/ InitEnds
    \/ \E k \in Calls : CallStep(k)

Spec == Init /\ [][Next]_vars

(* Microtasks run, init ends, the context provider answers, and the        *)
(* integrations settle every call; nothing is assumed of the app.          *)
FairSpec == Spec /\ WF_vars(InitEnds) /\ \A k \in Calls : WF_vars(CallStep(k))

-----------------------------------------------------------------------------
(* Properties *)

(* Every variable has its type. *)
TypeOK ==
    /\ ready \in BOOLEAN /\ initialized \in BOOLEAN
    /\ called \in 0..MaxCalls
    /\ kind \in [Calls -> Kinds]
    /\ pc \in [Calls -> {"none", "ready", "identifying", "context", "integrations", "settled"}]
    /\ waitsFor \in [Calls -> Calls \cup {None}] /\ identifying \in Calls \cup {None}
    /\ jobs \in Seq(Calls) /\ reached \in Seq(Calls)
    /\ traits \in Calls \cup {None}

Identifies(k) == {i \in 1..(k - 1) : kind[i] = "identify"}
Before(i, k)  == \E m, n \in 1..Len(reached) : m < n /\ reached[m] = i /\ reached[n] = k

(* An event tracked after an identify call, before or after init has       *)
(* ended, reaches the integrations only when the latest such call is over, *)
(* so that it is sent with the id of that call and not the one before it.  *)
IdentifiedFirst ==
    \A t \in ToSet(reached) :
        kind[t] = "track" /\ Identifies(t) # {} => pc[Max(Identifies(t))] = "settled"

(* Events reach the integrations in the order of the track calls, as long  *)
(* as no identify call was made between them.                              *)
SameVisitorOrder ==
    \A s, t \in ToSet(reached) :
        kind[s] = "track" /\ kind[t] = "track" /\ s < t /\ Identifies(s) = Identifies(t)
          => Before(s, t)

(* Every call returns, whatever the order in which init, the contexts and  *)
(* the integrations settle.                                                *)
CallsReturn == \A k \in Calls : pc[k] # "none" ~> pc[k] = "settled"

-----------------------------------------------------------------------------
(* What the documentation says and the code does not do *)

Identities(S) == {k \in S : kind[k] \in {"identify", "reset"}}
AllSettled == \A k \in 1..called : pc[k] = "settled"

(* iforevents.ts:103, reset: "Forgets the user in every integration        *)
(* (logout)": once all is settled and the app's last identity call was a   *)
(* reset, no integration saw an identify after it and no traits are left.  *)
LogoutIsLast ==
    LET made == Identities(ToSet(reached)) IN
    AllSettled /\ made # {} /\ kind[Max(made)] = "reset" =>
        /\ \A k \in made \ {Max(made)} : Before(k, Max(made))
        /\ traits = None
=============================================================================
