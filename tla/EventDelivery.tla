--------------------------- MODULE EventDelivery ---------------------------
(***************************************************************************)
(* What every SDK of the repository promises about events, whatever its    *)
(* language, threads, batches and retries: an event is numbered by the     *)
(* call of `track` that made it; it waits until it is delivered or given   *)
(* up; events are delivered oldest first; and an event that was delivered  *)
(* or given up never comes back, not even through the stored queue.        *)
(***************************************************************************)
EXTENDS Naturals

VARIABLES
    tracked,    \* number of events tracked so far
    pending,    \* events the SDK still has to deliver
    delivered   \* events the api accepted

vars == <<tracked, pending, delivered>>

Init == tracked = 0 /\ pending = {} /\ delivered = {}

(* S holds the oldest pending events. *)
Oldest(S) == S \subseteq pending /\ \A e \in S, f \in pending \ S : e < f

(* A new event waits behind the others; a full queue sheds some of them. *)
Track ==
    /\ tracked' = tracked + 1
    /\ \E shed \in SUBSET pending : pending' = (pending \ shed) \cup {tracked'}
    /\ UNCHANGED delivered

(* The api accepted a batch. *)
Deliver ==
    \E S \in SUBSET pending :
        /\ S # {} /\ Oldest(S)
        /\ pending' = pending \ S
        /\ delivered' = delivered \cup S
        /\ UNCHANGED tracked

(* Events are dropped oldest first: the api refused them, or requeueing is *)
(* off; with a crash the events that were not stored, again the oldest.    *)
GiveUp ==
    \E S \in SUBSET pending :
        /\ S # {} /\ Oldest(S)
        /\ pending' = pending \ S
        /\ UNCHANGED <<tracked, delivered>>

Next == Track \/ Deliver \/ GiveUp

Spec == Init /\ [][Next]_vars
=============================================================================
