---------------------------- MODULE JsPage_proofs ----------------------------
(***************************************************************************)
(* What the trackers and the snippet add to the client: the views of a     *)
(* visitor's journey fit together, the last one is of the screen shown,    *)
(* and pushed calls keep their order.                                      *)
(***************************************************************************)
EXTENDS JsPage, JsClient_proofs

LastView(k)    == IsView(k) /\ \A j \in Calls : IsView(j) => j <= k
NextView(s, t) == IsView(s) /\ IsView(t) /\ s < t /\ \A j \in Calls : IsView(j) /\ j < t => j <= s

(* The tracker's memory is the end of the journey so far, and the screen   *)
(* the visitor sees unless an effect is due.                               *)
JourneyInv ==
    /\ \A k \in Calls : IsView(k) => k <= called /\ kind[k] = "track"
    /\ \A k \in Calls : LastView(k) => view[k].to = previous
    /\ \A s, t \in Calls : NextView(s, t) => view[t].from = view[s].to

ScreenInv ==
    /\ mounted = "on" => host \in {"history", "effect"}
    /\ due => mounted = "on" /\ host = "effect"
    /\ mounted = "on" /\ ~due => previous = route
    /\ host = "history" => previous = route
    /\ \A k \in Calls : LastView(k) /\ host = "history" /\ Over(k) => url[k] = route

PushedInv == (\A k \in pushed : k <= called) /\ SnippetInOrder

PageInv == PageTypeOK /\ ClientInv /\ JourneyInv /\ ScreenInv /\ PushedInv
-----------------------------------------------------------------------------
(* Steps of the client *)

LEMMA CallProps ==
    ASSUME TypeOK, CallInv, NEW how \in Kinds, Call(how)
    PROVE  /\ called + 1 \in Calls /\ called' = called + 1
           /\ pc[called + 1] = "none" /\ pc' = [pc EXCEPT ![called + 1] = "ready"]
           /\ kind' = [kind EXCEPT ![called + 1] = how] /\ reached' = reached
           /\ \A k \in Calls : k <= called => pc'[k] = pc[k] /\ kind'[k] = kind[k]
           /\ \A k \in Calls : k <= called' <=> k <= called \/ k = called + 1
           /\ \A k \in Calls : k <= called => k < called + 1 /\ k # called + 1
<1>1. called + 1 \in Calls /\ called \in Nat /\ called + 1 > called
  BY ClientAssumption DEF Call, TypeOK, Calls
<1>2. /\ called' = called + 1 /\ pc' = [pc EXCEPT ![called + 1] = "ready"]
      /\ kind' = [kind EXCEPT ![called + 1] = how] /\ reached' = reached
  BY DEF Call
<1>3. \A k \in Calls : /\ k <= called => k < called + 1 /\ k # called + 1
                       /\ k <= called + 1 <=> k <= called \/ k = called + 1
  BY <1>1 DEF Calls
<1>4. \A k \in Calls : k # called + 1 => pc'[k] = pc[k] /\ kind'[k] = kind[k]
  BY <1>1, <1>2 DEF TypeOK
<1>5. pc[called + 1] = "none"
  BY <1>1 DEF CallInv
<1> QED
  BY <1>1, <1>2, <1>3, <1>4, <1>5

(* What a step of the client, other than a new call, does to the calls.    *)
LEMMA StepProps ==
    ASSUME ClientInv, InitEnds \/ \E k \in Calls : CallStep(k)
    PROVE  /\ UNCHANGED <<called, kind>>
           /\ \A k \in Calls : kind[k] = "track" /\ (Over(k))' => Over(k) \/ pc[k] = "identifying"
           /\ \A k \in Calls : pc[k] = "settled" => pc'[k] = "settled"
           /\ \/ reached' = reached
              \/ \E j \in Calls : pc[j] # "settled" /\ reached' = Append(reached, j)
<1> DEFINE Props ==
      /\ UNCHANGED <<called, kind>>
      /\ \A k \in Calls : kind[k] = "track" /\ (Over(k))' => Over(k) \/ pc[k] = "identifying"
      /\ \A k \in Calls : pc[k] = "settled" => pc'[k] = "settled"
      /\ \/ reached' = reached
         \/ \E j \in Calls : pc[j] # "settled" /\ reached' = Append(reached, j)
<1>1. pc \in [Calls -> {"none", "ready", "identifying", "context", "integrations", "settled"}]
  BY DEF ClientInv, TypeOK
<1>2. ASSUME InitEnds PROVE Props
  BY <1>2 DEF InitEnds, app, Over
<1>3. ASSUME NEW k \in Calls, CallStep(k) PROVE Props
  <2>1. UNCHANGED <<called, kind>>
    BY <1>3 DEF CallStep, TrackReady, TrackGoes, IdentifyReady, ContextThere, OtherReady, Settles, app
  <2>2. PICK to \in {"identifying", "context", "integrations", "settled"} :
           pc' = [pc EXCEPT ![k] = to]
    BY <1>3 DEF CallStep, TrackReady, TrackGoes, IdentifyReady, ContextThere, OtherReady, Settles,
       FacadeTakes, FanOut, Ignored
  <2>3. pc[k] # "settled"
    BY <1>3 DEF CallStep, TrackReady, TrackGoes, IdentifyReady, ContextThere, OtherReady, Settles, Runs
  <2>4. reached' = reached \/ reached' = Append(reached, k)
    BY <1>3 DEF CallStep, TrackReady, TrackGoes, IdentifyReady, ContextThere, OtherReady, Settles,
       FacadeTakes, FanOut, Ignored
  <2>5. kind[k] = "track" => to = "identifying" \/ pc[k] = "identifying" \/ Over(k)
    <3>1. pc[k] = "context" => kind[k] = "identify"
      BY DEF ClientInv, CallInv
    <3>2. CASE TrackReady(k)
      BY <3>2, <2>2, <1>1 DEF TrackReady
    <3>3. CASE TrackGoes(k)
      BY <3>3 DEF TrackGoes, Runs
    <3>4. CASE IdentifyReady(k) \/ OtherReady(k)
      BY <3>4 DEF IdentifyReady, OtherReady
    <3>5. CASE ContextThere(k)
      BY <3>1, <3>5 DEF ContextThere, Runs
    <3>6. CASE Settles(k)
      BY <3>6 DEF Settles, Over
    <3> QED
      BY <1>3, <3>2, <3>3, <3>4, <3>5, <3>6 DEF CallStep
  <2>6. \A j \in Calls : pc'[j] = IF j = k THEN to ELSE pc[j]
    BY <2>2, <1>1
  <2>7. \A j \in Calls : kind[j] = "track" /\ (Over(j))' => Over(j) \/ pc[j] = "identifying"
    BY <2>5, <2>6 DEF Over
  <2> QED
    BY <2>1, <2>3, <2>4, <2>6, <2>7
<1> QED
  BY <1>2, <1>3

-----------------------------------------------------------------------------
(* The steps of the page, by what they do to the client and the tracker *)

ViewStep(r) == Views(r) /\ r \in Routes /\ UNCHANGED <<url, pushed>>
CallOnly    == (\E how \in Kinds : Call(how)) /\ UNCHANGED <<previous, view, url>>
ClientOnly  == UNCHANGED <<vars, previous, view, url, pushed>>

LEMMA RouteIsNotNone == None \notin Routes /\ Home \in Routes
  BY PageAssumption

LEMMA PageSteps ==
    ASSUME PageTypeOK, [PageNext]_pageVars
    PROVE  \/ \E r \in Routes : ViewStep(r)
           \/ CallOnly
           \/ ClientOnly
           \/ ClientStep
<1>1. route \in Routes
  BY DEF PageTypeOK
<1>2. CASE Mount
  <2>1. CASE host = "history"
    BY <1>1, <1>2, <2>1 DEF Mount, ViewStep, snippet
  <2>2. CASE host # "history"
    BY <1>2, <2>2 DEF Mount, ClientOnly, snippet
  <2> QED
    BY <2>1, <2>2
<1>3. CASE EffectRuns
  <2>1. CASE SeesNew
    BY <1>1, <1>3, <2>1 DEF EffectRuns, ViewStep, snippet
  <2>2. CASE ~SeesNew
    BY <1>3, <2>2 DEF EffectRuns, ClientOnly, snippet
  <2> QED
    BY <2>1, <2>2
<1>4. CASE Unmount
  BY <1>4 DEF Unmount, CallOnly, Kinds
<1>5. CASE Push
  BY <1>5 DEF Push, ClientOnly, tracking
<1>6. CASE MakesNext
  BY <1>6 DEF MakesNext, CallOnly, tracking
<1>7. CASE AppCalls
  <2>1. Direct[host] \subseteq Kinds
    BY PageAssumption DEF PageTypeOK
  <2> QED
    BY <1>7, <2>1 DEF AppCalls, CallOnly, tracking
<1>8. ASSUME NEW r \in Routes, Navigate(r)
      PROVE  (\E x \in Routes : ViewStep(x)) \/ ClientOnly
  <2>1. CASE host = "history"
    BY <1>8, <2>1 DEF Navigate, ViewStep, snippet
  <2>2. CASE host # "history"
    BY <1>8, <2>2 DEF Navigate, ClientOnly, snippet
  <2> QED
    BY <2>1, <2>2
<1>9. CASE UNCHANGED pageVars
  BY <1>9 DEF pageVars, ClientOnly, tracking, snippet
<1> QED
  BY <1>2, <1>3, <1>4, <1>5, <1>6, <1>7, <1>8, <1>9 DEF PageNext

(* Every step of the page is one of the client, or leaves it alone. *)
LEMMA PageIsClient == ASSUME PageTypeOK, [PageNext]_pageVars PROVE [Next]_vars
<1>1. ASSUME NEW r \in Routes, ViewStep(r) PROVE Next
  BY <1>1 DEF ViewStep, Views, Next, Kinds
<1>2. ASSUME CallOnly PROVE Next
  BY <1>2 DEF CallOnly, Next
<1>3. ASSUME ClientStep PROVE Next
  BY <1>3 DEF ClientStep, Next
<1>4. ASSUME ClientOnly PROVE UNCHANGED vars
  BY <1>4 DEF ClientOnly
<1> QED
  BY <1>1, <1>2, <1>3, <1>4, PageSteps

-----------------------------------------------------------------------------
(* Types *)

LEMMA PageTypeInit == PageInit => PageTypeOK
<1> SUFFICES ASSUME PageInit PROVE PageTypeOK
  OBVIOUS
<1>1. TypeOK
  BY TypeInit DEF PageInit
<1>2. view \in [Calls -> [to : Routes \cup {None}, from : Routes \cup {None}]]
  BY DEF PageInit, NoView
<1>3. url \in [Calls -> Routes \cup {None}]
  BY DEF PageInit
<1>4. line \in 0..MaxPushes /\ pushed \subseteq Calls
  BY PageAssumption DEF PageInit
<1>5. route \in Routes /\ previous \in Routes \cup {None}
  BY PageAssumption DEF PageInit
<1> QED
  BY <1>1, <1>2, <1>3, <1>4, <1>5 DEF PageInit, PageTypeOK

LEMMA PageTypeNext == ASSUME PageTypeOK, CallInv, [PageNext]_pageVars PROVE PageTypeOK'
<1>1. TypeOK'
  BY PageIsClient, TypeNext DEF PageTypeOK
<1>2. host' = host
  BY DEF PageNext, Mount, EffectRuns, Unmount, Push, MakesNext, ClientStep, AppCalls, Navigate,
     pageVars, tracking
<1>3. mounted' \in {"before", "on", "gone"} /\ due' \in BOOLEAN /\ route' \in Routes
  BY DEF PageTypeOK, PageNext, Mount, EffectRuns, Unmount, Push, MakesNext, ClientStep, AppCalls,
     Navigate, pageVars, tracking
<1>4. previous' \in Routes \cup {None}
      /\ view' \in [Calls -> [to : Routes \cup {None}, from : Routes \cup {None}]]
      /\ url' \in [Calls -> Routes \cup {None}]
  <2>1. ASSUME NEW r \in Routes, ViewStep(r)
        PROVE  /\ previous' \in Routes \cup {None}
               /\ view' \in [Calls -> [to : Routes \cup {None}, from : Routes \cup {None}]]
               /\ url' \in [Calls -> Routes \cup {None}]
    <3>1. [to |-> r, from |-> previous] \in [to : Routes \cup {None}, from : Routes \cup {None}]
      BY DEF PageTypeOK
    <3> QED
      BY <2>1, <3>1 DEF ViewStep, Views, Remembered, PageTypeOK
  <2>2. ASSUME ClientStep
        PROVE  /\ UNCHANGED <<previous, view>> /\ url' \in [Calls -> Routes \cup {None}]
    BY <2>2 DEF ClientStep, tracking, PageTypeOK
  <2>3. ASSUME CallOnly \/ ClientOnly PROVE UNCHANGED <<previous, view, url>>
    BY <2>3 DEF CallOnly, ClientOnly
  <2> QED
    BY <2>1, <2>2, <2>3, PageSteps DEF PageTypeOK
<1>5. line' \in 0..MaxPushes /\ pushed' \subseteq Calls
  <2>1. CASE Push
    <3>1. Cardinality(pushed) \in Nat
      <4>1. IsFiniteSet(Calls)
        BY ClientAssumption, FS_Interval DEF Calls
      <4>2. IsFiniteSet(pushed)
        BY <4>1, FS_Subset DEF PageTypeOK
      <4> QED
        BY <4>2, FS_CardinalityType
    <3> QED
      BY <2>1, <3>1, PageAssumption DEF Push, PageTypeOK
  <2>2. CASE MakesNext
    <3>1. called + 1 \in Calls
      BY <2>2, CallProps DEF MakesNext, PageTypeOK
    <3> QED
      BY <2>2, <3>1, PageAssumption DEF MakesNext, PageTypeOK
  <2>3. CASE UNCHANGED snippet
    BY <2>3 DEF snippet, PageTypeOK
  <2> QED
    BY <2>1, <2>2, <2>3 DEF PageNext, Mount, EffectRuns, Unmount, ClientStep, AppCalls, Navigate, pageVars
<1> QED
  BY <1>1, <1>2, <1>3, <1>4, <1>5 DEF PageTypeOK
-----------------------------------------------------------------------------
(* The journey *)

(* A new view is the end of the journey. *)
LEMMA ViewStepProps ==
    ASSUME PageInv, NEW r \in Routes, ViewStep(r)
    PROVE  /\ called + 1 \in Calls /\ called' = called + 1 /\ pc'[called + 1] = "ready"
           /\ previous' = r /\ view'[called + 1] = [to |-> r, from |-> previous]
           /\ \A k \in Calls : k <= called => k < called + 1 /\ k # called + 1 /\ kind'[k] = kind[k]
           /\ kind'[called + 1] = "track"
           /\ \A k \in Calls : k # called + 1 => view'[k] = view[k]
           /\ \A k \in Calls : (IsView(k))' <=> IsView(k) \/ k = called + 1
           /\ ~IsView(called + 1)
<1>1. /\ Call("track") /\ previous' = r /\ "track" \in Kinds
      /\ view' = [view EXCEPT ![called + 1] = [to |-> r, from |-> previous]]
  BY DEF ViewStep, Views, Remembered, Kinds
<1>2. /\ called + 1 \in Calls /\ called' = called + 1
      /\ pc' = [pc EXCEPT ![called + 1] = "ready"] /\ kind' = [kind EXCEPT ![called + 1] = "track"]
      /\ \A k \in Calls : k <= called => k < called + 1 /\ k # called + 1 /\ kind'[k] = kind[k]
  BY <1>1, CallProps DEF PageInv, PageTypeOK, ClientInv
<1>3. /\ pc'[called + 1] = "ready" /\ kind'[called + 1] = "track"
      /\ view'[called + 1] = [to |-> r, from |-> previous]
      /\ \A k \in Calls : k # called + 1 => view'[k] = view[k]
  BY <1>1, <1>2 DEF PageInv, PageTypeOK, TypeOK
<1>4. [to |-> r, from |-> previous] # NoView
  BY RouteIsNotNone DEF NoView
<1>5. \A k \in Calls : (IsView(k))' <=> IsView(k) \/ k = called + 1
  BY <1>3, <1>4 DEF IsView
<1>6. ~IsView(called + 1)
  BY <1>2 DEF PageInv, JourneyInv
<1> QED
  BY <1>1, <1>2, <1>3, <1>5, <1>6

LEMMA JourneyNext == ASSUME PageInv, [PageNext]_pageVars PROVE JourneyInv'
<1>1. ASSUME NEW r \in Routes, ViewStep(r) PROVE JourneyInv'
  <2> DEFINE c == called + 1
  <2>1. /\ c \in Calls /\ called' = c /\ previous' = r
        /\ view'[c] = [to |-> r, from |-> previous] /\ kind'[c] = "track"
        /\ \A k \in Calls : k <= called => k < c /\ k # c /\ kind'[k] = kind[k]
        /\ \A k \in Calls : k # c => view'[k] = view[k]
        /\ \A k \in Calls : (IsView(k))' <=> IsView(k) \/ k = c
        /\ ~IsView(c)
    BY <1>1, ViewStepProps
  <2> HIDE DEF c
  <2>2. \A k \in Calls : IsView(k) => k <= called /\ k < c /\ k # c /\ kind[k] = "track"
    BY <2>1 DEF PageInv, JourneyInv
  <2>3. \A k \in Calls : k < c => k <= c
    BY <2>1 DEF Calls
  <2>4. c <= c
    BY <2>1 DEF Calls
  <2>5. \A k \in Calls : (IsView(k))' => k <= called' /\ kind'[k] = "track"
    BY <2>1, <2>2, <2>3, <2>4
  <2>6. \A k \in Calls : k < c => ~(c <= k) /\ ~(c < k)
    BY <2>1 DEF Calls
  <2>7. ASSUME NEW k \in Calls, (LastView(k))' PROVE view'[k].to = previous'
    <3>1. k = c
      BY <2>7, <2>1, <2>2, <2>6 DEF LastView
    <3> QED
      BY <3>1, <2>1
  <2>8. ASSUME NEW s \in Calls, NEW t \in Calls, (NextView(s, t))'
        PROVE  view'[t].from = view'[s].to
    <3>1. CASE t = c
      <4>1. s # c /\ IsView(s)
        BY <2>1, <2>8, <3>1 DEF NextView, Calls
      <4>2. \A j \in Calls : IsView(j) => j <= s
        BY <2>1, <2>2, <2>8, <3>1 DEF NextView
      <4>3. view[s].to = previous
        BY <4>1, <4>2 DEF LastView, PageInv, JourneyInv
      <4> QED
        BY <4>1, <4>3, <3>1, <2>1
    <3>2. CASE t # c
      <4>1. s < t /\ IsView(t) /\ t < c
        BY <2>1, <2>2, <2>8, <3>2 DEF NextView
      <4>2. s # c /\ IsView(s)
        BY <4>1, <2>1, <2>6, <2>8 DEF NextView
      <4>3. \A j \in Calls : IsView(j) /\ j < t => j <= s
        BY <2>1, <2>8 DEF NextView
      <4>4. NextView(s, t)
        BY <4>1, <4>2, <4>3 DEF NextView
      <4> QED
        BY <4>2, <4>4, <3>2, <2>1 DEF PageInv, JourneyInv
    <3> QED
      BY <3>1, <3>2
  <2> QED
    BY <2>5, <2>7, <2>8 DEF JourneyInv
<1>2. ASSUME UNCHANGED <<previous, view>>,
             \A k \in Calls : k <= called => k <= called' /\ kind'[k] = kind[k]
      PROVE  JourneyInv'
  <2>1. \A k \in Calls : (IsView(k))' <=> IsView(k)
    BY <1>2 DEF IsView
  <2>2. /\ \A k \in Calls : (LastView(k))' <=> LastView(k)
        /\ \A s, t \in Calls : (NextView(s, t))' <=> NextView(s, t)
    BY <2>1 DEF LastView, NextView
  <2> QED
    BY <1>2, <2>1, <2>2 DEF PageInv, JourneyInv
<1>3. ASSUME CallOnly PROVE JourneyInv'
  <2>1. PICK how \in Kinds : Call(how)
    BY <1>3 DEF CallOnly
  <2>2. \A k \in Calls : k <= called => k <= called' /\ kind'[k] = kind[k]
    BY <2>1, CallProps DEF PageInv, PageTypeOK, ClientInv
  <2> QED
    BY <2>2, <1>2, <1>3 DEF CallOnly
<1>4. ASSUME ClientOnly PROVE JourneyInv'
  BY <1>2, <1>4 DEF ClientOnly, vars
<1>5. ASSUME ClientStep PROVE JourneyInv'
  BY <1>2, <1>5, StepProps DEF ClientStep, tracking, PageInv
<1> QED
  BY <1>1, <1>3, <1>4, <1>5, PageSteps DEF PageInv

-----------------------------------------------------------------------------
(* The screen *)

(* The tracker follows the visitor: the conjuncts about the present. *)
LEMMA FollowsNext ==
    ASSUME PageInv, [PageNext]_pageVars
    PROVE  /\ mounted' = "on" => host' \in {"history", "effect"}
           /\ due' => mounted' = "on" /\ host' = "effect"
           /\ mounted' = "on" /\ ~due' => previous' = route'
           /\ host' = "history" => previous' = route'
<1> DEFINE Follows ==
      /\ mounted' = "on" => host' \in {"history", "effect"}
      /\ due' => mounted' = "on" /\ host' = "effect"
      /\ mounted' = "on" /\ ~due' => previous' = route'
      /\ host' = "history" => previous' = route'
<1> USE DEF PageInv, ScreenInv
<1>1. CASE Mount
  <2>1. mounted' = "on" /\ host' = host /\ route' = route /\ host \in {"history", "effect"}
    BY <1>1 DEF Mount
  <2>2. CASE host = "history"
    BY <2>1, <2>2, <1>1 DEF Mount, Views, Remembered
  <2>3. CASE host # "history"
    BY <2>1, <2>3, <1>1 DEF Mount
  <2> QED
    BY <2>2, <2>3
<1>2. ASSUME NEW r \in Routes, Navigate(r) PROVE Follows
  <2>1. CASE host = "history"
    BY <2>1, <1>2 DEF Navigate, Views, Remembered
  <2>2. CASE host # "history"
    BY <2>2, <1>2 DEF Navigate
  <2> QED
    BY <2>1, <2>2
<1>3. CASE EffectRuns
  <2>1. CASE SeesNew
    BY <2>1, <1>3 DEF EffectRuns, Views, Remembered
  <2>2. CASE ~SeesNew
    BY <2>2, <1>3 DEF EffectRuns, SeesNew
  <2> QED
    BY <2>1, <2>2
<1>4. CASE Unmount
  BY <1>4 DEF Unmount
<1>5. CASE UNCHANGED <<host, mounted, route, due, previous>>
  BY <1>5
<1> QED
  BY <1>1, <1>2, <1>3, <1>4, <1>5
  DEF PageNext, Push, MakesNext, ClientStep, AppCalls, pageVars, tracking

LEMMA ScreenNext == ASSUME PageInv, [PageNext]_pageVars PROVE ScreenInv'
<1> DEFINE Shown == \A k \in Calls : LastView(k) /\ host = "history" /\ Over(k) => url[k] = route
<1>1. host' = host
  BY DEF PageNext, Mount, EffectRuns, Unmount, Push, MakesNext, ClientStep, AppCalls, Navigate,
     pageVars, tracking
<1>2. ASSUME NEW r \in Routes, ViewStep(r) PROVE Shown'
  <2> DEFINE c == called + 1
  <2>1. /\ c \in Calls /\ pc'[c] = "ready"
        /\ \A k \in Calls : k <= called => k < c
        /\ \A k \in Calls : (IsView(k))' <=> IsView(k) \/ k = c
    BY <1>2, ViewStepProps
  <2> HIDE DEF c
  <2>2. \A k \in Calls : (LastView(k))' => k = c
    <3>1. \A k \in Calls : k < c => ~(c <= k)
      BY <2>1 DEF Calls
    <3> QED
      BY <2>1, <3>1 DEF LastView, PageInv, JourneyInv
  <2> QED
    BY <2>1, <2>2 DEF Over
<1>3. ASSUME ~\E r \in Routes : ViewStep(r), host = "history" PROVE route' = route
  BY <1>3 DEF PageNext, Mount, EffectRuns, Unmount, Push, MakesNext, ClientStep, AppCalls, Navigate,
     pageVars, tracking, ViewStep, snippet
<1>4. ASSUME ~\E r \in Routes : ViewStep(r), view' = view,
             \A k \in Calls : IsView(k) /\ (Over(k))' =>
                                (Over(k) /\ url'[k] = url[k]) \/ url'[k] = route
      PROVE  Shown'
  <2>1. \A k \in Calls : (LastView(k))' <=> LastView(k)
    BY <1>4 DEF LastView, IsView
  <2> QED
    BY <2>1, <1>1, <1>3, <1>4 DEF PageInv, ScreenInv, LastView
<1>5. ASSUME ~\E r \in Routes : ViewStep(r), CallOnly PROVE Shown'
  <2>1. PICK how \in Kinds : Call(how)
    BY <1>5 DEF CallOnly
  <2>2. \A k \in Calls : k <= called => pc'[k] = pc[k]
    BY <2>1, CallProps DEF PageInv, PageTypeOK, ClientInv
  <2>3. \A k \in Calls : IsView(k) /\ (Over(k))' => Over(k) /\ url'[k] = url[k]
    BY <2>2, <1>5 DEF CallOnly, PageInv, JourneyInv, Over
  <2> QED
    BY <2>3, <1>4, <1>5 DEF CallOnly
<1>6. ASSUME ~\E r \in Routes : ViewStep(r), ClientOnly PROVE Shown'
  <2>1. \A k \in Calls : (Over(k))' => Over(k) /\ url'[k] = url[k]
    BY <1>6 DEF ClientOnly, vars, Over
  <2> QED
    BY <2>1, <1>4, <1>6 DEF ClientOnly
<1>7. ASSUME ~\E r \in Routes : ViewStep(r), ClientStep PROVE Shown'
  <2>1. \A k \in Calls : kind[k] = "track" /\ (Over(k))' => Over(k) \/ pc[k] = "identifying"
    BY <1>7, StepProps DEF ClientStep, PageInv
  <2>2. \A k \in Calls : url'[k] = IF view[k] # NoView /\ pc[k] = "identifying" /\ pc'[k] # "identifying"
                                     THEN route ELSE url[k]
    BY <1>7 DEF ClientStep
  <2>3. ASSUME NEW k \in Calls, IsView(k), (Over(k))'
        PROVE  (Over(k) /\ url'[k] = url[k]) \/ url'[k] = route
    BY <2>1, <2>2, <2>3 DEF IsView, PageInv, JourneyInv, Over
  <2> QED
    BY <2>3, <1>4, <1>7 DEF ClientStep, tracking
<1>8. Shown'
  BY <1>2, <1>5, <1>6, <1>7, PageSteps DEF PageInv
<1> QED
  BY <1>8, FollowsNext DEF ScreenInv
-----------------------------------------------------------------------------
(* The snippet *)

(* One pair of pushed calls, whatever the client does. *)
LEMMA PairKept ==
    ASSUME PageInv, NEW k \in Calls, NEW n \in Calls, pc[k] = "settled",
           n \in ToSet(reached) /\ k \in ToSet(reached) => Before(k, n),
           InitEnds \/ \E j \in Calls : CallStep(j)
    PROVE  /\ pc'[k] = "settled"
           /\ n \in ToSet(reached') /\ k \in ToSet(reached') => (Before(k, n))'
<1>1. /\ pc'[k] = "settled"
      /\ \/ reached' = reached
         \/ \E j \in Calls : pc[j] # "settled" /\ reached' = Append(reached, j)
  BY StepProps DEF PageInv
<1>2. CASE reached' = reached
  BY <1>1, <1>2 DEF Before
<1>3. ASSUME NEW j \in Calls, pc[j] # "settled", reached' = Append(reached, j),
             n \in ToSet(reached'), k \in ToSet(reached')
      PROVE  (Before(k, n))'
  <2>1. /\ ToSet(reached') = ToSet(reached) \cup {j}
        /\ Before(k, n) => (Before(k, n))'
        /\ \A i \in ToSet(reached) : (Before(i, j))'
    BY <1>3, BeforeAppend DEF PageInv, PageTypeOK, Reached
  <2>2. k \in ToSet(reached)
    BY <1>3, <2>1
  <2> QED
    BY <1>3, <2>1, <2>2
<1> QED
  BY <1>1, <1>2, <1>3

LEMMA PushedNext == ASSUME PageInv, [PageNext]_pageVars PROVE PushedInv'
<1>1. /\ pushed \subseteq Calls /\ \A k \in pushed : k <= called
      /\ \A k, n \in pushed : k < n =>
           /\ pc[k] = "settled"
           /\ n \in ToSet(reached) /\ k \in ToSet(reached) => Before(k, n)
  BY DEF PageInv, PageTypeOK, PushedInv, SnippetInOrder
<1>2. ASSUME NEW how \in Kinds, Call(how), pushed' = pushed PROVE PushedInv'
  <2>1. \A k \in Calls : k <= called => pc'[k] = pc[k] /\ k <= called'
    BY <1>2, CallProps DEF PageInv, PageTypeOK, ClientInv
  <2>2. reached' = reached
    BY <1>2 DEF Call
  <2> QED
    BY <2>1, <2>2, <1>1, <1>2 DEF PushedInv, SnippetInOrder, Before
<1>3. CASE MakesNext
  <2>1. PICK how \in Kinds : Call(how)
    BY <1>3 DEF MakesNext
  <2> DEFINE c == called + 1
  <2>2. /\ c \in Calls /\ called' = c /\ pc[c] = "none" /\ reached' = reached
        /\ \A k \in Calls : k <= called => pc'[k] = pc[k] /\ k < c /\ k <= called'
    BY <2>1, CallProps DEF PageInv, PageTypeOK, ClientInv
  <2>3. pushed' = pushed \cup {c} /\ \A k \in pushed : pc[k] = "settled"
    BY <1>3 DEF MakesNext, Free
  <2> HIDE DEF c
  <2>4. c \notin ToSet(reached')
    BY <2>2 DEF PageInv, ClientInv, ReachedInv, Reached, Over
  <2>5. \A k \in pushed : k \in Calls /\ k < c /\ k <= called' /\ pc'[k] = "settled"
    BY <1>1, <2>2, <2>3
  <2>6. \A k \in pushed' : k <= called'
    BY <2>2, <2>3, <2>5 DEF Calls
  <2>7. ASSUME NEW k \in pushed', NEW n \in pushed', k < n
        PROVE  /\ pc'[k] = "settled"
               /\ n \in ToSet(reached') /\ k \in ToSet(reached') => (Before(k, n))'
    <3>1. k # c
      BY <2>2, <2>3, <2>5, <2>7 DEF Calls
    <3>2. k \in pushed /\ pc'[k] = "settled"
      BY <3>1, <2>3, <2>5
    <3>3. CASE n \in pushed
      BY <3>2, <3>3, <1>1, <2>2, <2>7 DEF Before
    <3>4. CASE n = c
      BY <3>2, <3>4, <2>4
    <3> QED
      BY <3>3, <3>4, <2>3
  <2> QED
    BY <2>6, <2>7 DEF PushedInv, SnippetInOrder
<1>4. ASSUME ClientStep PROVE PushedInv'
  <2>1. /\ InitEnds \/ \E k \in Calls : CallStep(k)
        /\ pushed' = pushed
    BY <1>4 DEF ClientStep, snippet
  <2>2. called' = called
    BY <2>1, StepProps DEF PageInv
  <2>3. ASSUME NEW k \in pushed, NEW n \in pushed, k < n
        PROVE  /\ pc'[k] = "settled"
               /\ n \in ToSet(reached') /\ k \in ToSet(reached') => (Before(k, n))'
    BY <1>1, <2>1, <2>3, PairKept
  <2> QED
    BY <1>1, <2>1, <2>2, <2>3 DEF PushedInv, SnippetInOrder
<1>5. ASSUME UNCHANGED <<vars, pushed>> PROVE PushedInv'
  BY <1>1, <1>5 DEF vars, PushedInv, SnippetInOrder, Before
<1>6. CASE \E r \in Routes : ViewStep(r)
  BY <1>2, <1>6 DEF ViewStep, Views, Kinds
<1>7. CASE CallOnly
  <2>1. CASE MakesNext
    BY <1>3, <2>1
  <2>2. CASE pushed' = pushed
    BY <1>2, <1>7, <2>2 DEF CallOnly
  <2> QED
    BY <2>1, <2>2 DEF PageNext, Mount, EffectRuns, Unmount, Push, ClientStep, AppCalls, Navigate,
       pageVars, snippet
<1>8. CASE ClientOnly
  BY <1>5, <1>8 DEF ClientOnly
<1> QED
  BY <1>4, <1>6, <1>7, <1>8, PageSteps DEF PageInv

-----------------------------------------------------------------------------
(* The theorems *)

LEMMA PageInitHolds == PageInit => PageInv
<1> SUFFICES ASSUME PageInit PROVE PageInv
  OBVIOUS
<1>1. PageTypeOK /\ ClientInv
  BY PageTypeInit, ClientInit DEF PageInit
<1>2. \A k \in Calls : ~IsView(k)
  BY DEF PageInit, IsView
<1>3. JourneyInv
  BY <1>2 DEF JourneyInv, LastView, NextView
<1>4. ScreenInv
  BY <1>2 DEF ScreenInv, LastView, PageInit
<1>5. PushedInv
  BY DEF PushedInv, SnippetInOrder, PageInit
<1> QED
  BY <1>1, <1>3, <1>4, <1>5 DEF PageInv

LEMMA PageInvariant == PageSpec => []PageInv
<1>1. PageInv /\ [PageNext]_pageVars => PageInv'
  <2> SUFFICES ASSUME PageInv, [PageNext]_pageVars PROVE PageInv'
    OBVIOUS
  <2>1. PageTypeOK'
    BY PageTypeNext DEF PageInv, ClientInv
  <2>2. ClientInv'
    BY PageIsClient, ClientNext DEF PageInv
  <2> QED
    BY <2>1, <2>2, JourneyNext, ScreenNext, PushedNext DEF PageInv
<1> QED
  BY <1>1, PageInitHolds, PTL DEF PageSpec

(* A set of calls has a last one. *)
LEMMA LastCall ==
    ASSUME NEW S, S \subseteq Calls, S # {}
    PROVE  Max(S) \in S /\ \A k \in S : k <= Max(S)
<1> DEFINE R == {MaxCalls - k : k \in S}
<1>1. MaxCalls \in Nat /\ \A k \in S : k \in 1..MaxCalls
  BY ClientAssumption DEF Calls
<1>2. R \subseteq Nat /\ R # {}
  BY <1>1
<1>3. PICK x \in R : \A y \in R : x <= y
  <2> HIDE DEF R
  <2> QED
    BY <1>2, LeastNat
<1>4. PICK k \in S : x = MaxCalls - k
  BY <1>3
<1>5. ASSUME NEW j \in S PROVE k >= j
  <2>1. x <= MaxCalls - j
    BY <1>3
  <2> QED
    BY <2>1, <1>1, <1>4
<1>6. Max(S) \in S /\ \A j \in S : Max(S) >= j
  BY <1>5 DEF Max
<1> QED
  BY <1>1, <1>6

LEMMA JourneyMeans == ASSUME PageInv PROVE JourneyUnbroken
<1> SUFFICES ASSUME NEW t \in ToSet(reached), IsView(t), ViewsBefore(t) # {},
                    NEW s, s = Max(ViewsBefore(t)), Identifies(s) = Identifies(t)
             PROVE  Before(s, t) /\ view[t].from = view[s].to
  BY DEF JourneyUnbroken
<1>1. t \in Calls /\ Over(t) /\ Left(t) /\ kind[t] = "track"
  BY ReachedCalls DEF PageInv, ClientInv, ReachedInv, Reached, Over, Left, JourneyInv
<1>2. ViewsBefore(t) \subseteq Calls
  BY <1>1, ClientAssumption DEF ViewsBefore, Calls
<1>3. s \in ViewsBefore(t) /\ \A j \in ViewsBefore(t) : j <= s
  BY <1>2, LastCall
<1>4. s \in Calls /\ IsView(s) /\ s < t
  BY <1>1, <1>2, <1>3, ClientAssumption DEF ViewsBefore, Calls
<1>5. \A j \in Calls : IsView(j) /\ j < t => j <= s
  <2>1. \A j \in Calls : j < t => j \in 1..(t - 1)
    BY <1>1, ClientAssumption DEF Calls
  <2> QED
    BY <1>3, <2>1 DEF ViewsBefore
<1>6. view[t].from = view[s].to
  BY <1>1, <1>4, <1>5 DEF NextView, PageInv, JourneyInv
<1>7. kind[s] = "track" /\ Left(s)
  BY <1>1, <1>4 DEF PageInv, JourneyInv, ClientInv, CallInv
<1>8. waitsFor[s] = waitsFor[t]
  BY <1>1, <1>4, <1>7, WaitsAlike DEF PageInv
<1>9. Before(s, t)
  BY <1>1, <1>4, <1>7, <1>8 DEF PageInv, ClientInv, ReachedInv, SameVisitor, Reached
<1> QED
  BY <1>6, <1>9

LEMMA ScreenMeans == ASSUME PageInv PROVE LastViewIsCurrent
<1> DEFINE shown == ViewsBefore(called + 1)
<1> SUFFICES ASSUME mounted = "on", ~due, AllSettled, shown # {}
             PROVE  /\ view[Max(shown)].to = route
                    /\ host = "history" => url[Max(shown)] = route
  BY DEF LastViewIsCurrent
<1>1. called \in 0..MaxCalls /\ MaxCalls \in Nat
  BY ClientAssumption DEF PageInv, PageTypeOK, TypeOK
<1>2. shown \subseteq Calls /\ \A k \in shown : k \in 1..called /\ IsView(k)
  BY <1>1 DEF ViewsBefore, Calls
<1>3. \A k \in Calls : IsView(k) => k \in shown
  <2>1. \A k \in Calls : k <= called => k \in 1..((called + 1) - 1)
    BY <1>1 DEF Calls
  <2> QED
    BY <2>1 DEF PageInv, JourneyInv, ViewsBefore
<1> DEFINE m == Max(shown)
<1> HIDE DEF shown
<1>4. m \in shown /\ \A k \in shown : k <= m
  BY <1>2, LastCall
<1> HIDE DEF m
<1>5. m \in Calls /\ LastView(m) /\ pc[m] = "settled"
  BY <1>2, <1>3, <1>4 DEF LastView, AllSettled
<1>6. view[m].to = previous /\ previous = route
  BY <1>5 DEF PageInv, JourneyInv, ScreenInv
<1>7. host = "history" => url[m] = route
  BY <1>5 DEF PageInv, ScreenInv, Over
<1> QED
  BY <1>6, <1>7 DEF m

(* Every variable of the page keeps its type, for every set of routes and  *)
(* every number of calls.                                                  *)
THEOREM PageTypeCorrect == PageSpec => []PageTypeOK
<1>1. PageInv => PageTypeOK
  BY DEF PageInv
<1> QED
  BY <1>1, PageInvariant, PTL

(* The page views of a visitor's journey arrive one after the other, and   *)
(* each names as its previous route the one before it (lastPath, previous  *)
(* of the trackers), as long as no identify call came between.             *)
THEOREM JourneysFit == PageSpec => []JourneyUnbroken
  BY PageInvariant, JourneyMeans, PTL

(* When all is quiet, the last page view is of the screen the visitor      *)
(* sees; and where every navigation makes a view, its url is that screen's.*)
THEOREM ScreenIsShown == PageSpec => []LastViewIsCurrent
  BY PageInvariant, ScreenMeans, PTL

(* What is pushed to the snippet's queue (static.ts) takes effect in the   *)
(* order of the pushes, a call only when the one before has returned.      *)
THEOREM PushesInOrder == PageSpec => []SnippetInOrder
<1>1. PageInv => SnippetInOrder
  BY DEF PageInv, PushedInv
<1> QED
  BY <1>1, PageInvariant, PTL

(* Every behaviour of a page is one of the client: what is proved of the   *)
(* client for any app holds for the trackers, the provider and the snippet.*)
THEOREM PageImplementsClient == PageSpec => Spec
<1>1. PageInv /\ [PageNext]_pageVars => [Next]_vars
  BY PageIsClient DEF PageInv
<1>2. PageInit => Init
  BY DEF PageInit
<1> QED
  BY <1>1, <1>2, PageInvariant, PTL DEF PageSpec, Spec

(* In a page too the identity comes first, ...                             *)
THEOREM PageIdentityFirst == PageSpec => []IdentifiedFirst
  BY PageImplementsClient, IdentityComesFirst, PTL

(* ... and the events of one visitor keep their order.                     *)
THEOREM PageKeepsOrder == PageSpec => []SameVisitorOrder
  BY PageImplementsClient, OrderKept, PTL
=============================================================================
