------------------------------- MODULE JsPage -------------------------------
(***************************************************************************)
(* What runs around the client of JsClient in a page or a mobile app: the  *)
(* trackers that make a page view of a navigation (browser.ts, react,      *)
(* next, react-native), the provider that shuts the client down, and the   *)
(* queue of calls of the script tag's snippet (static.ts).  A page view    *)
(* awaits what a track does: it is a "track" of the client with a view.    *)
(***************************************************************************)
EXTENDS JsClient

CONSTANTS
    Hosts,        \* kinds of apps
    Direct,       \* the calls an app of each kind makes itself
    Routes, Home, \* where the visitor may go, and begins
    MaxPushes     \* bound on the calls pushed to the snippet's queue

ASSUME PageAssumption ==
    /\ Hosts \subseteq {"app", "history", "effect", "snippet"} /\ Hosts # {}
    /\ Hosts \subseteq DOMAIN Direct /\ \A h \in Hosts : Direct[h] \subseteq Kinds
    /\ Home \in Routes /\ None \notin Routes /\ MaxPushes \in Nat

VARIABLES
    host,       \* "history": autoTrack of browser.ts; "effect": the trackers of the other
                \* packages; "snippet": a script tag; "app": calls of an app alone
    mounted,    \* the tracker and its provider: "before", "on" and "gone"
    route,      \* window.location, or the current screen
    due,        \* an effect or a callback of the navigator is due
    previous,   \* the tracker's lastPath, previous.current or previous
    view,       \* of each call: toRoute and previousRoute, None if it is no view
    url,        \* of each view: the location its properties name, None before
    line,       \* number of calls pushed and not made yet
    pushed      \* calls the snippet made

tracking == <<host, mounted, route, due, previous, view>>
snippet  == <<line, pushed>>
pageVars == <<vars, tracking, url, snippet>>

NoView == [to |-> None, from |-> None]

PageInit ==
    /\ Init
    /\ host \in Hosts
    /\ mounted = "before" /\ due = FALSE
    /\ route = Home
    /\ previous = IF host = "history" THEN route ELSE None
    /\ view = [k \in Calls |-> NoView]
    /\ url = [k \in Calls |-> None]
    /\ line = 0 /\ pushed = {}

-----------------------------------------------------------------------------
(* Navigation *)

PreviousAtFirst(r) == IF previous = None THEN r ELSE previous   \* slip: only set once
Remembered(r) == r

(* A tracker makes a page view of route r. *)
Views(r) ==
    /\ Call("track")
    /\ view' = [view EXCEPT ![called + 1] = [to |-> r, from |-> previous]]
    /\ previous' = Remembered(r)

SeesFirst == previous = None  \* slip: the effect runs once
SeesNew == route # previous

Mount ==
    /\ host \in {"history", "effect"}
    /\ mounted = "before" /\ mounted' = "on"
    /\ IF host = "history"
         THEN Views(route) /\ UNCHANGED due
         ELSE due' = TRUE /\ UNCHANGED <<vars, previous, view>>
    /\ UNCHANGED <<host, route, url, snippet>>

(* pushState, replaceState (perhaps to the same path) and popstate; or the *)
(* router renders, or the navigator's state changes.                       *)
Navigate(r) ==
    /\ mounted = "on" /\ called < MaxCalls
    /\ route' = r
    /\ IF host = "history"
         THEN Views(r) /\ UNCHANGED due
         ELSE due' = TRUE /\ UNCHANGED <<vars, previous, view>>
    /\ UNCHANGED <<host, mounted, url, snippet>>

(* An effect sees the last route rendered: earlier ones may be skipped.    *)
EffectRuns ==
    /\ due /\ due' = FALSE
    /\ IF SeesNew THEN Views(route) ELSE UNCHANGED <<vars, previous, view>>
    /\ UNCHANGED <<host, mounted, route, url, snippet>>

(* The provider goes: its cleanup shuts the client down. *)
Unmount ==
    /\ mounted = "on" /\ host = "effect"
    /\ mounted' = "gone" /\ due' = FALSE
    /\ Call("shutdown")
    /\ UNCHANGED <<host, route, previous, view, url, snippet>>

-----------------------------------------------------------------------------
(* The snippet's queue *)

(* Which method is pushed shows when the chain gets to it. *)
Push ==
    /\ host = "snippet"
    /\ line + Cardinality(pushed) < MaxPushes
    /\ line' = line + 1
    /\ UNCHANGED <<vars, tracking, url, pushed>>

FreeAtOnce == TRUE           \* slip: the chain does not await the calls it makes
Free == \A k \in pushed : pc[k] = "settled"

(* The chain makes the next call when the one before it has returned.      *)
MakesNext ==
    /\ line > 0 /\ Free
    /\ \E how \in Kinds \ {"shutdown"} : Call(how)
    /\ line' = line - 1
    /\ pushed' = pushed \cup {called + 1}
    /\ UNCHANGED <<tracking, url>>

-----------------------------------------------------------------------------
(* The client, whose page method reads the location after its awaits.      *)
ClientStep ==
    /\ InitEnds \/ \E k \in Calls : CallStep(k)
    /\ url' = [k \in Calls |->
                 IF view[k] # NoView /\ pc[k] = "identifying" /\ pc'[k] # "identifying"
                   THEN route ELSE url[k]]
    /\ UNCHANGED <<tracking, snippet>>

AppCalls == \E how \in Direct[host] : Call(how) /\ UNCHANGED <<tracking, url, snippet>>

PageNext ==
    \/ Mount \/ EffectRuns \/ Unmount \/ Push \/ MakesNext \/ ClientStep \/ AppCalls
    \/ \E r \in Routes : Navigate(r)

(* As in JsClient: a client has a finite number of steps to make, so one   *)
(* condition does for all.                                                 *)
PageSpec == PageInit /\ [][PageNext]_pageVars /\ WF_pageVars(ClientStep)

-----------------------------------------------------------------------------
(* Properties *)

(* Every variable has its type. *)
PageTypeOK ==
    /\ TypeOK
    /\ host \in Hosts /\ mounted \in {"before", "on", "gone"} /\ due \in BOOLEAN
    /\ route \in Routes /\ previous \in Routes \cup {None}
    /\ view \in [Calls -> [to : Routes \cup {None}, from : Routes \cup {None}]]
    /\ url \in [Calls -> Routes \cup {None}]
    /\ line \in 0..MaxPushes /\ pushed \subseteq Calls

IsView(k) == view[k] # NoView
ViewsBefore(t) == {s \in 1..(t - 1) : IsView(s)}

(* The views the integrations get of a visitor's journey fit together: the *)
(* view before has arrived when its successor does, and ends where that    *)
(* one starts, as long as no identify call was made between them.          *)
JourneyUnbroken ==
    \A t \in ToSet(reached) : IsView(t) /\ ViewsBefore(t) # {} =>
        LET s == Max(ViewsBefore(t)) IN
        Identifies(s) = Identifies(t) => Before(s, t) /\ view[t].from = view[s].to

(* When all is quiet in a mounted app, the last view was of the screen the *)
(* visitor sees; and where every navigation makes a view, its url, which   *)
(* is read after the awaits, is no other screen's.  (An effect that never  *)
(* saw a screen that was left at once can have made a view with its url.)  *)
LastViewIsCurrent ==
    LET shown == ViewsBefore(called + 1) IN
    mounted = "on" /\ ~due /\ AllSettled /\ shown # {} =>
        /\ view[Max(shown)].to = route
        /\ host = "history" => url[Max(shown)] = route

(* What is pushed to the snippet reaches the integrations in the order of  *)
(* the pushes, identify and reset included, and a call of it only after    *)
(* the one before has returned; direct calls may come between.             *)
SnippetInOrder ==
    \A k, n \in pushed : k < n =>
        /\ pc[k] = "settled"
        /\ n \in ToSet(reached) /\ k \in ToSet(reached) => Before(k, n)
=============================================================================
