----------------------------- MODULE JsOutcome ------------------------------
(***************************************************************************)
(* What the answers of the api do: errors.ts of js/packages/core and the   *)
(* requests of api-integration.ts, as far as answers decide about retries, *)
(* pauses, the queue and the callback onQuotaExceeded.                     *)
(*                                                                         *)
(* The drain sends the chunks of the queue one at a time.  Calls of        *)
(* identify, and of track without batching, send a request of their own    *)
(* beside it, so answers of several requests reach the shared flag         *)
(* quotaExceeded in any order.  The app's callback may throw.              *)
(***************************************************************************)
EXTENDS Integers, Sequences

CONSTANTS
    Singles,               \* calls that send a request of their own
    Chunks,                \* bound on the chunks (of MAX_BATCH events) tracked
    MaxRetries,            \* config.maxRetries
    RetryDelay,            \* config.retryDelay, in ticks of the clock
    RequeueFailedEvents,   \* config.requeueFailedEvents
    Answers,               \* the answers of the api to an attempt
    Throws,                \* whether a call of onQuotaExceeded throws
    Drain                  \* the drain, as a sender of requests

Absent   == -1                     \* no number in the header, or in the body
NoStatus == 0                      \* fetch or the body rejected, or the timeout aborted it
Senders  == Singles \cup {Drain}
Chunk    == 1..Chunks

ASSUME OutcomeAssumption ==
    /\ Drain \notin Singles
    /\ {Chunks, MaxRetries, RetryDelay} \subseteq Nat
    /\ RequeueFailedEvents \in BOOLEAN
    /\ Throws \subseteq BOOLEAN /\ Throws # {}
    /\ Answers # {}
    /\ Answers \subseteq [status : {NoStatus} \cup 200..599, quota : BOOLEAN,
                          header : Nat \cup {Absent}, seconds : Nat \cup {Absent}]

-----------------------------------------------------------------------------
(* The classes of errors.ts.  An answer has a status, the number its       *)
(* Retry-After header parses to, whether the body's `error` is             *)
(* "quota_exceeded", and the body's retry_after_seconds.                   *)

Ok(a)          == a.status \in 200..299
QuotaError(a)  == a.status = 429 /\ a.quota
RateLimited(a) == a.status = 429 /\ ~a.quota

Retryable(a) == a.status = NoStatus \/ a.status >= 500 \/ RateLimited(a)

RetryAfterOfBody(a) == IF RateLimited(a) THEN a.seconds ELSE Absent     \* slip: the header is not read
RetryAfter(a) ==
    IF ~RateLimited(a) THEN Absent
    ELSE IF a.header # Absent THEN a.header ELSE a.seconds

Pause(a, attempt) == IF RetryAfter(a) > 0 THEN RetryAfter(a) ELSE RetryDelay * attempt

-----------------------------------------------------------------------------
VARIABLES
    tracked,        \* number of chunks tracked
    queue,          \* this.queue, in chunks
    out,            \* the chunk the drain took, 0 if none
    pc,             \* of each sender: "idle", "sent", "paused", "done" (singles)
    tries,          \* attempts of the sender's request, this one included
    wait,           \* ticks until the pause ends
    quotaExceeded,  \* the flag
    fate,           \* History: "held", "accepted", "refused", "abandoned"
    last,           \* History: the last answer to the sender's request
    rested,         \* History: ticks since that answer
    accepted,       \* History: number of accepted requests
    fired,          \* History: calls of onQuotaExceeded
    refusals        \* History: how often a chunk met quota_exceeded

vars == <<tracked, queue, out, pc, tries, wait, quotaExceeded, fate, last, rested, accepted,
          fired, refusals>>
events   == <<queue, out, fate, refusals>>
outcome  == <<quotaExceeded, accepted, fired>>
requests == <<pc, tries, wait, last, rested>>

Init ==
    /\ tracked = 0 /\ queue = <<>> /\ out = 0
    /\ pc = [s \in Senders |-> "idle"]
    /\ tries = [s \in Senders |-> 0]
    /\ wait = [s \in Senders |-> 0]
    /\ quotaExceeded = FALSE
    /\ fate = [b \in Chunk |-> "held"]
    /\ last = [s \in Senders |-> CHOOSE a \in Answers : TRUE]
    /\ rested = [s \in Senders |-> 0]
    /\ accepted = 0 /\ fired = 0
    /\ refusals = [b \in Chunk |-> 0]

Track ==
    /\ tracked < Chunks
    /\ tracked' = tracked + 1
    /\ queue' = Append(queue, tracked + 1)
    /\ UNCHANGED <<out, fate, refusals, outcome, requests>>

Starts(s) ==
    /\ pc[s] = "idle"
    /\ pc' = [pc EXCEPT ![s] = "sent"]
    /\ tries' = [tries EXCEPT ![s] = 1]
    /\ UNCHANGED <<tracked, wait, last, rested, fate, refusals, outcome>>

Call(s) == s # Drain /\ Starts(s) /\ UNCHANGED <<queue, out>>

DueUnrefused == queue # <<>> /\ ~quotaExceeded    \* slip: a drain waits for the quota
Due == queue # <<>>

Flush ==
    /\ Starts(Drain) /\ Due
    /\ out' = Head(queue) /\ queue' = Tail(queue)

-----------------------------------------------------------------------------
(* Answers *)

Ends(s) == pc' = [pc EXCEPT ![s] = IF s = Drain THEN "idle" ELSE "done"]

Hears(s, a) ==
    /\ last' = [last EXCEPT ![s] = a]
    /\ rested' = [rested EXCEPT ![s] = 0]
    /\ UNCHANGED tracked

Accept(s, a) ==
    /\ pc[s] = "sent" /\ Ok(a)
    /\ Hears(s, a) /\ Ends(s)
    /\ quotaExceeded' = FALSE
    /\ accepted' = accepted + 1
    /\ IF s = Drain THEN fate' = [fate EXCEPT ![out] = "accepted"] /\ out' = 0
                    ELSE UNCHANGED <<fate, out>>
    /\ UNCHANGED <<tries, wait, queue, fired, refusals>>

GoesOnOnceMore(s, a) == ~Ok(a) /\ Retryable(a) /\ tries[s] <= MaxRetries + 1   \* slip: one too many
GoesOn(s, a) == ~Ok(a) /\ Retryable(a) /\ tries[s] <= MaxRetries

BackOff(s, a) ==
    /\ pc[s] = "sent" /\ GoesOn(s, a)
    /\ Hears(s, a)
    /\ pc' = [pc EXCEPT ![s] = "paused"]
    /\ wait' = [wait EXCEPT ![s] = Pause(a, tries[s])]
    /\ UNCHANGED <<tries, events, outcome>>

(* noteOutcome: whether the callback runs. *)
FiresAlways(a) == QuotaError(a)       \* slip: on every refusal
Fires(a) == QuotaError(a) /\ ~quotaExceeded

(* The drain's catch.  An error of the app's callback is no api error and  *)
(* counts as one without a status.                                         *)
KeepsAll(a, thrown) == TRUE                             \* slip: a refused batch is put back
KeepsUnlimited(a, thrown) == (a.status # 429 /\ Retryable(a)) \/ thrown   \* slip: 429 is a refusal
Keeps(a, thrown) == Retryable(a) \/ thrown

DrainCatches(a, thrown) ==
    /\ out' = 0
    /\ refusals' = IF QuotaError(a) THEN [refusals EXCEPT ![out] = @ + 1] ELSE refusals
    /\ IF Keeps(a, thrown)
         THEN IF RequeueFailedEvents
                THEN queue' = <<out>> \o queue /\ UNCHANGED fate
                ELSE fate' = [fate EXCEPT ![out] = "abandoned"] /\ UNCHANGED queue
         ELSE /\ queue' = <<>>
              /\ fate' = [b \in Chunk |-> IF b = out \/ \E i \in 1..Len(queue) : queue[i] = b
                                            THEN "refused" ELSE fate[b]]

Fail(s, a) ==
    /\ pc[s] = "sent" /\ ~Ok(a) /\ ~GoesOn(s, a)
    /\ Hears(s, a) /\ Ends(s)
    /\ quotaExceeded' = (quotaExceeded \/ QuotaError(a))
    /\ fired' = IF Fires(a) THEN fired + 1 ELSE fired
    /\ \E throws \in Throws :
         IF s = Drain THEN DrainCatches(a, Fires(a) /\ throws) ELSE UNCHANGED events
    /\ UNCHANGED <<tries, wait, accepted>>

(* A tick of the clock, for every pause at once; timers may be late.       *)
Tick ==
    /\ \E s \in Senders : pc[s] = "paused" /\ wait[s] > 0
    /\ wait' = [s \in Senders |-> IF wait[s] > 0 THEN wait[s] - 1 ELSE 0]
    /\ rested' = [s \in Senders |-> IF wait[s] > 0 THEN rested[s] + 1 ELSE rested[s]]
    /\ UNCHANGED <<tracked, events, pc, tries, last, outcome>>

Retry(s) ==
    /\ pc[s] = "paused" /\ wait[s] = 0
    /\ pc' = [pc EXCEPT ![s] = "sent"]
    /\ tries' = [tries EXCEPT ![s] = @ + 1]
    /\ UNCHANGED <<tracked, events, wait, last, rested, outcome>>

Answered(s) == \E a \in Answers : Accept(s, a) \/ BackOff(s, a) \/ Fail(s, a)

Next ==
    \/ Track \/ Flush \/ Tick
    \/ \E s \in Singles : Call(s)
    \/ \E s \in Senders : Answered(s) \/ Retry(s)

Spec == Init /\ [][Next]_vars

(* The event loop: every attempt is answered, if only by the timeout, the  *)
(* clock goes on and timers fire.  Nothing is assumed of the app.          *)
FairSpec ==
    /\ Spec /\ WF_vars(Flush) /\ WF_vars(Tick)
    /\ \A s \in Senders : WF_vars(Answered(s)) /\ WF_vars(Retry(s))

-----------------------------------------------------------------------------
(* Properties *)

(* Every variable has its type; no request is tried more than              *)
(* maxRetries + 1 times.                                                   *)
TypeOK ==
    /\ tracked \in 0..Chunks /\ queue \in Seq(Chunk) /\ out \in Chunk \cup {0}
    /\ pc \in [Senders -> {"idle", "sent", "paused", "done"}]
    /\ tries \in [Senders -> 0..(MaxRetries + 1)]
    /\ wait \in [Senders -> Nat] /\ rested \in [Senders -> Nat]
    /\ quotaExceeded \in BOOLEAN
    /\ fate \in [Chunk -> {"held", "accepted", "refused", "abandoned"}]
    /\ last \in [Senders -> Answers]
    /\ accepted \in Nat /\ fired \in Nat /\ refusals \in [Chunk -> Nat]

(* However requests overlap, onQuotaExceeded has run for at most one more  *)
(* than the requests that were accepted: once until the next success.      *)
OncePerSuccess == fired <= accepted + (IF quotaExceeded THEN 1 ELSE 0)

(* A chunk refused for the quota is sent again only after the callback     *)
(* threw: even an app whose callback always throws does not make the drain *)
(* send it again and again.                                                *)
RefusalsEnd == \A b \in Chunk : refusals[b] <= accepted + 2

(* A rate limit with a time in its header or, without a number there, body.*)
AsksForTime(a) == a.status = 429 /\ (a.header > 0 \/ (a.header = Absent /\ a.seconds > 0))

(* An attempt is repeated only after an answer that may change, and not    *)
(* before the time the api asked for in the header or, without a number    *)
(* there, in the body; or the linear backoff when the server failed or the *)
(* api asked for no time.                                                  *)
Patience ==
    \A s \in Senders : pc[s] = "sent" /\ tries[s] > 1 =>
        LET a == last[s] IN
        /\ a.status = NoStatus \/ a.status >= 500 \/ (a.status = 429 /\ ~a.quota)
        /\ a.status = 429 /\ a.header > 0 => rested[s] >= a.header
        /\ a.status = 429 /\ a.header = Absent /\ a.seconds > 0 => rested[s] >= a.seconds
        /\ ~AsksForTime(a) => rested[s] >= RetryDelay * (tries[s] - 1)

(* A chunk goes unaccepted only by a refusal: never by an answer that is   *)
(* to be retried, nor by what other requests are told.                     *)
DropsAreRefusals ==
    [][\A b \in Chunk : fate'[b] = "refused" /\ fate[b] # "refused" =>
         /\ last'[Drain].status \in 300..499
         /\ last'[Drain].status = 429 => last'[Drain].quota]_vars

(* A chunk waits for ever only if the drain keeps failing: no pause, no    *)
(* flag and no other request holds it up.                                  *)
ChunksSettle ==
    \/ []<><<\E a \in Answers : Fail(Drain, a)>>_vars
    \/ \A b \in Chunk : tracked >= b ~> fate[b] # "held"
=============================================================================
