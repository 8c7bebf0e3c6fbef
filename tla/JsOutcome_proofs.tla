-------------------------- MODULE JsOutcome_proofs --------------------------
(***************************************************************************)
(* Theorems about JsOutcome: however the requests of the drain and of      *)
(* single calls overlap, attempts, pauses, refusals and the callback       *)
(* onQuotaExceeded stay within what errors.ts and api-integration.ts allow.*)
(***************************************************************************)
EXTENDS JsOutcome, SequenceTheorems, TLAPS

Answer == [status : {NoStatus} \cup 200..599, quota : BOOLEAN,
           header : Nat \cup {Absent}, seconds : Nat \cup {Absent}]

LEMMA AnswerType ==
    ASSUME NEW a \in Answers
    PROVE  a \in Answer
  BY OutcomeAssumption DEF Answer

LEMMA PauseType ==
    ASSUME NEW a \in Answers, NEW n \in Nat
    PROVE  /\ RetryDelay * n \in Nat
           /\ Pause(a, n) \in Nat
           /\ RetryAfter(a) \in Nat \cup {Absent}
<1>1. RetryDelay \in Nat /\ RetryDelay * n \in Nat
  BY OutcomeAssumption
<1>2. RetryAfter(a) \in Nat \cup {Absent}
  BY AnswerType DEF Answer, RetryAfter
<1> QED
  BY <1>1, <1>2 DEF Pause, Absent

(* What a pause is, by the case of the answer. *)
LEMMA PauseIs ==
    ASSUME NEW a \in Answers, NEW n \in Nat
    PROVE  /\ a.status = 429 /\ ~a.quota /\ a.header > 0 => Pause(a, n) = a.header
           /\ a.status = 429 /\ ~a.quota /\ a.header = Absent /\ a.seconds > 0
                => Pause(a, n) = a.seconds
           /\ ~AsksForTime(a) => Pause(a, n) = RetryDelay * n
<1>1. a \in Answer
  BY AnswerType
<1> QED
  BY <1>1, PauseType DEF Answer, Pause, RetryAfter, RateLimited, Absent, AsksForTime

-----------------------------------------------------------------------------
(* Types, with the two facts about attempts they need. *)

(* The drain has a chunk as long as its request runs.                      *)
OutWhileSending == pc[Drain] \in {"sent", "paused"} => out # 0

(* A request that pauses has an attempt left.                              *)
AttemptLeft == \A s \in Senders : pc[s] = "paused" => tries[s] \in 1..MaxRetries

(* A request on its way has been tried.                                    *)
SentOnce == \A s \in Senders : pc[s] = "sent" => tries[s] \in 1..(MaxRetries + 1)

TypeInv == TypeOK /\ OutWhileSending /\ AttemptLeft /\ SentOnce

LEMMA Consts ==
    /\ Drain \in Senders /\ Singles \subseteq Senders
    /\ Chunks \in Nat /\ MaxRetries \in Nat /\ RetryDelay \in Nat
  BY OutcomeAssumption DEF Senders

LEMMA TypeInit == Init => TypeInv
<1> SUFFICES ASSUME Init PROVE TypeInv
  OBVIOUS
<1>1. (CHOOSE a \in Answers : TRUE) \in Answers
  BY OutcomeAssumption
<1>2. queue \in Seq(Chunk)
  BY EmptySeq DEF Init
<1>3. TypeOK
  <2>1. last \in [Senders -> Answers]
    BY <1>1 DEF Init
  <2>2. tracked \in 0..Chunks /\ tries \in [Senders -> 0..(MaxRetries + 1)]
    BY Consts DEF Init
  <2>3. /\ pc \in [Senders -> {"idle", "sent", "paused", "done"}]
        /\ wait \in [Senders -> Nat] /\ rested \in [Senders -> Nat]
    BY DEF Init
  <2>4. /\ fate \in [Chunk -> {"held", "accepted", "refused", "abandoned"}]
        /\ refusals \in [Chunk -> Nat]
    BY DEF Init
  <2>5. out \in Chunk \cup {0} /\ quotaExceeded \in BOOLEAN /\ accepted \in Nat /\ fired \in Nat
    BY DEF Init
  <2> QED
    BY <1>2, <2>1, <2>2, <2>3, <2>4, <2>5 DEF TypeOK
<1>4. OutWhileSending /\ AttemptLeft /\ SentOnce
  BY Consts DEF Init, OutWhileSending, AttemptLeft, SentOnce
<1> QED
  BY <1>3, <1>4 DEF TypeInv

LEMMA TypeNext == TypeInv /\ [Next]_vars => TypeInv'
<1> SUFFICES ASSUME TypeInv, [Next]_vars PROVE TypeInv'
  OBVIOUS
<1> USE Consts DEF TypeInv
<1>1. CASE Track
  <2>1. tracked + 1 \in Chunk /\ tracked' \in 0..Chunks
    BY <1>1 DEF Track, TypeOK, Chunk
  <2>2. queue' \in Seq(Chunk)
    BY <1>1, <2>1, AppendProperties DEF Track, TypeOK
  <2> QED
    BY <1>1, <2>1, <2>2
       DEF Track, TypeOK, OutWhileSending, AttemptLeft, SentOnce, events, outcome, requests
<1>2. CASE Flush
  <2>1. Head(queue) \in Chunk /\ Tail(queue) \in Seq(Chunk)
    BY <1>2, HeadTailProperties DEF Flush, Due, TypeOK
  <2>2. Head(queue) # 0
    BY <2>1 DEF Chunk
  <2>3. TypeOK'
    BY <1>2, <2>1 DEF Flush, Starts, TypeOK, outcome
  <2>4. OutWhileSending' /\ AttemptLeft' /\ SentOnce'
    BY <1>2, <2>2 DEF Flush, Starts, TypeOK, OutWhileSending, AttemptLeft, SentOnce
  <2> QED
    BY <2>3, <2>4
<1>3. ASSUME NEW s \in Singles, Call(s) PROVE TypeInv'
  <2>1. TypeOK'
    BY <1>3 DEF Call, Starts, TypeOK, outcome
  <2>2. OutWhileSending' /\ AttemptLeft' /\ SentOnce'
    BY <1>3 DEF Call, Starts, TypeOK, OutWhileSending, AttemptLeft, SentOnce
  <2> QED
    BY <2>1, <2>2
<1>4. ASSUME NEW s \in Senders, NEW a \in Answers, Accept(s, a) PROVE TypeInv'
  <2>1. TypeOK'
    <3>1. /\ out' \in Chunk \cup {0}
          /\ fate' \in [Chunk -> {"held", "accepted", "refused", "abandoned"}]
      BY <1>4 DEF Accept, TypeOK
    <3>2. UNCHANGED <<tracked, queue, tries, wait, fired, refusals>>
      BY <1>4 DEF Accept, Hears
    <3>3. pc' \in [Senders -> {"idle", "sent", "paused", "done"}]
      <4>1. \E v \in {"idle", "done"} : pc' = [pc EXCEPT ![s] = v]
        BY <1>4 DEF Accept, Ends
      <4> QED
        BY <4>1 DEF TypeOK
    <3>4. /\ last' \in [Senders -> Answers] /\ rested' \in [Senders -> Nat]
          /\ quotaExceeded' \in BOOLEAN /\ accepted' \in Nat
      <4>1. Hears(s, a) /\ quotaExceeded' = FALSE /\ accepted' = accepted + 1
        BY <1>4 DEF Accept
      <4>2. last' = [last EXCEPT ![s] = a] /\ rested' = [rested EXCEPT ![s] = 0]
        BY <4>1 DEF Hears
      <4>3. last' \in [Senders -> Answers]
        BY <4>2 DEF TypeOK
      <4>4. rested' \in [Senders -> Nat]
        BY <4>2 DEF TypeOK
      <4>5. quotaExceeded' \in BOOLEAN
        BY <4>1
      <4>6. accepted' \in Nat
        BY <4>1 DEF TypeOK
      <4> QED
        BY <4>3, <4>4, <4>5, <4>6
    <3> QED
      BY <3>1, <3>2, <3>3, <3>4 DEF TypeOK
  <2>2. OutWhileSending' /\ AttemptLeft' /\ SentOnce'
    BY <1>4 DEF Accept, Hears, Ends, TypeOK, OutWhileSending, AttemptLeft, SentOnce
  <2> QED
    BY <2>1, <2>2
<1>5. ASSUME NEW s \in Senders, NEW a \in Answers, BackOff(s, a) PROVE TypeInv'
  <2>1. tries[s] \in Nat /\ Pause(a, tries[s]) \in Nat
    BY PauseType DEF TypeOK
  <2>2. TypeOK'
    <3>1. pc' \in [Senders -> {"idle", "sent", "paused", "done"}] /\ wait' \in [Senders -> Nat]
      BY <1>5, <2>1 DEF BackOff, TypeOK
    <3>2. last' \in [Senders -> Answers] /\ rested' \in [Senders -> Nat]
      BY <1>5 DEF BackOff, Hears, TypeOK
    <3>3. UNCHANGED <<tracked, tries, events, outcome>>
      BY <1>5 DEF BackOff, Hears
    <3> QED
      BY <3>1, <3>2, <3>3 DEF TypeOK, events, outcome
  <2>3. tries[s] \in 0..MaxRetries
    BY <1>5 DEF BackOff, GoesOn, TypeOK
  <2>4. OutWhileSending' /\ AttemptLeft' /\ SentOnce'
    <3>1. /\ pc[s] = "sent" /\ tries[s] \in 1..MaxRetries
          /\ pc' = [pc EXCEPT ![s] = "paused"] /\ UNCHANGED <<tries, out>>
      BY <1>5, <2>3 DEF BackOff, events, SentOnce
    <3>2. OutWhileSending'
      BY <3>1 DEF TypeOK, OutWhileSending
    <3>3. AttemptLeft'
      BY <3>1 DEF TypeOK, AttemptLeft
    <3>4. SentOnce'
      BY <3>1 DEF TypeOK, SentOnce
    <3> QED
      BY <3>2, <3>3, <3>4
  <2> QED
    BY <2>2, <2>4
<1>6. ASSUME NEW s \in Senders, NEW a \in Answers, Fail(s, a) PROVE TypeInv'
  <2>1. PICK thrown \in BOOLEAN :
           IF s = Drain THEN DrainCatches(a, thrown) ELSE UNCHANGED events
    <3>1. PICK throws \in Throws :
             IF s = Drain THEN DrainCatches(a, Fires(a) /\ throws) ELSE UNCHANGED events
      BY <1>6 DEF Fail
    <3>2. (Fires(a) /\ throws) \in BOOLEAN
      OBVIOUS
    <3> QED
      BY <3>1, <3>2
  <2>2. UNCHANGED <<tracked, tries, wait, accepted>>
    BY <1>6 DEF Fail, Hears
  <2>3. \E v \in {"idle", "done"} : pc' = [pc EXCEPT ![s] = v] /\ (s = Drain => v = "idle")
    BY <1>6 DEF Fail, Ends
  <2>4. pc' \in [Senders -> {"idle", "sent", "paused", "done"}]
    BY <2>3 DEF TypeOK
  <2>5. /\ last' \in [Senders -> Answers] /\ rested' \in [Senders -> Nat]
        /\ quotaExceeded' \in BOOLEAN /\ fired' \in Nat
    BY <1>6 DEF Fail, Hears, TypeOK
  <2>6. /\ queue' \in Seq(Chunk) /\ out' \in Chunk \cup {0}
        /\ fate' \in [Chunk -> {"held", "accepted", "refused", "abandoned"}]
        /\ refusals' \in [Chunk -> Nat]
    <3>1. CASE s # Drain
      BY <3>1, <2>1 DEF events, TypeOK
    <3>2. CASE s = Drain
      <4>1. DrainCatches(a, thrown)
        BY <3>2, <2>1
      <4>2. out \in Chunk
        BY <1>6, <3>2 DEF Fail, TypeOK, OutWhileSending
      <4>3. <<out>> \o queue \in Seq(Chunk) /\ <<>> \in Seq(Chunk)
        BY <4>2, ConcatProperties, EmptySeq DEF TypeOK
      <4>4. queue' \in {<<out>> \o queue, queue, <<>>}
        BY <4>1 DEF DrainCatches
      <4>5. fate' \in [Chunk -> {"held", "accepted", "refused", "abandoned"}]
        BY <4>1 DEF DrainCatches, TypeOK
      <4>6. refusals' \in [Chunk -> Nat] /\ out' = 0
        BY <4>1, <4>2 DEF DrainCatches, TypeOK
      <4> QED
        BY <4>3, <4>4, <4>5, <4>6 DEF TypeOK
    <3> QED
      BY <3>1, <3>2
  <2>7. TypeOK'
    BY <2>2, <2>4, <2>5, <2>6 DEF TypeOK
  <2>8. OutWhileSending'
    <3>1. CASE s = Drain
      BY <3>1, <2>3 DEF OutWhileSending, TypeOK
    <3>2. CASE s # Drain
      BY <3>2, <2>1, <2>3 DEF OutWhileSending, TypeOK, events
    <3> QED
      BY <3>1, <3>2
  <2>9. AttemptLeft' /\ SentOnce'
    BY <2>2, <2>3 DEF AttemptLeft, SentOnce, TypeOK
  <2> QED
    BY <2>7, <2>8, <2>9
<1>7. CASE Tick
  <2>1. wait' \in [Senders -> Nat] /\ rested' \in [Senders -> Nat]
    <3>1. \A s \in Senders : wait[s] \in Nat /\ rested[s] \in Nat
      BY DEF TypeOK
    <3>2. \A s \in Senders : /\ (IF wait[s] > 0 THEN wait[s] - 1 ELSE 0) \in Nat
                             /\ (IF wait[s] > 0 THEN rested[s] + 1 ELSE rested[s]) \in Nat
      BY <3>1
    <3> QED
      BY <1>7, <3>2 DEF Tick
  <2>2. UNCHANGED <<tracked, events, pc, tries, last, outcome>>
    BY <1>7 DEF Tick
  <2> QED
    BY <2>1, <2>2 DEF TypeOK, OutWhileSending, AttemptLeft, SentOnce, events, outcome
<1>8. ASSUME NEW s \in Senders, Retry(s) PROVE TypeInv'
  <2>1. UNCHANGED <<tracked, events, wait, last, rested, outcome>>
    BY <1>8 DEF Retry
  <2>2. tries[s] \in 1..MaxRetries
    BY <1>8 DEF Retry, AttemptLeft
  <2>3. tries' \in [Senders -> 0..(MaxRetries + 1)]
    BY <1>8, <2>2 DEF Retry, TypeOK
  <2>4. pc' \in [Senders -> {"idle", "sent", "paused", "done"}]
    BY <1>8 DEF Retry, TypeOK
  <2>5. TypeOK'
    BY <2>1, <2>3, <2>4 DEF TypeOK, events, outcome
  <2>6. OutWhileSending' /\ AttemptLeft' /\ SentOnce'
    BY <1>8, <2>1 DEF Retry, TypeOK, OutWhileSending, AttemptLeft, SentOnce, events
  <2> QED
    BY <2>5, <2>6
<1>9. CASE UNCHANGED vars
  BY <1>9 DEF vars, TypeOK, OutWhileSending, AttemptLeft, SentOnce
<1> QED
  BY <1>1, <1>2, <1>3, <1>4, <1>5, <1>6, <1>7, <1>8, <1>9 DEF Next, Answered

(* Every variable has its type; no request is tried more than              *)
(* maxRetries + 1 times, the loop of request being left by its last try.   *)
THEOREM TypeCorrect == Spec => []TypeOK
<1>1. TypeInv => TypeOK
  BY DEF TypeInv
<1> QED
  BY <1>1, TypeInit, TypeNext, PTL DEF Spec

-----------------------------------------------------------------------------
(* The callback and refusals *)

LEMMA OnceInit == Init => OncePerSuccess
  BY DEF Init, OncePerSuccess

LEMMA OnceNext == TypeInv /\ OncePerSuccess /\ [Next]_vars => OncePerSuccess'
<1> SUFFICES ASSUME TypeInv, OncePerSuccess, [Next]_vars PROVE OncePerSuccess'
  OBVIOUS
<1>0. accepted \in Nat /\ fired \in Nat /\ quotaExceeded \in BOOLEAN
  BY DEF TypeInv, TypeOK
<1>1. ASSUME UNCHANGED outcome PROVE OncePerSuccess'
  BY <1>1 DEF outcome, OncePerSuccess
<1>2. ASSUME NEW s \in Senders, NEW a \in Answers, Accept(s, a) PROVE OncePerSuccess'
  <2>1. quotaExceeded' = FALSE /\ accepted' = accepted + 1 /\ fired' = fired
    BY <1>2 DEF Accept
  <2> QED
    BY <1>0, <2>1 DEF OncePerSuccess
<1>3. ASSUME NEW s \in Senders, NEW a \in Answers, Fail(s, a) PROVE OncePerSuccess'
  <2>1. /\ quotaExceeded' = (quotaExceeded \/ QuotaError(a)) /\ accepted' = accepted
        /\ fired' = IF Fires(a) THEN fired + 1 ELSE fired
    BY <1>3 DEF Fail
  <2>2. CASE Fires(a)
    <3>1. quotaExceeded = FALSE /\ quotaExceeded' = TRUE
      BY <1>0, <2>1, <2>2 DEF Fires
    <3> QED
      BY <1>0, <2>1, <2>2, <3>1 DEF OncePerSuccess
  <2>3. CASE ~Fires(a)
    <3>1. quotaExceeded' = quotaExceeded
      BY <1>0, <2>1, <2>3 DEF Fires
    <3> QED
      BY <2>1, <2>3, <3>1 DEF OncePerSuccess
  <2> QED
    BY <2>2, <2>3
<1>4. Track \/ Flush \/ Tick \/ (\E s \in Singles : Call(s)) => UNCHANGED outcome
  BY DEF Track, Flush, Tick, Call, Starts
<1>5. \A s \in Senders, a \in Answers : BackOff(s, a) \/ Retry(s) => UNCHANGED outcome
  BY DEF BackOff, Retry
<1>6. ASSUME NEW s \in Senders, Retry(s) PROVE UNCHANGED outcome
  BY <1>6 DEF Retry
<1>7. UNCHANGED vars => UNCHANGED outcome
  BY DEF vars, outcome
<1> QED
  BY <1>1, <1>2, <1>3, <1>4, <1>5, <1>6, <1>7 DEF Next, Answered

(* onQuotaExceeded runs at most once per success, whichever requests       *)
(* overlap and whatever the api answers them (noteOutcome).                *)
THEOREM CallbackOnce == Spec => []OncePerSuccess
<1> QED
  BY TypeInit, TypeNext, OnceInit, OnceNext, PTL DEF Spec

(* A chunk that still waits met the quota only when the callback threw,    *)
(* so no more often than the callback ran; any other at most once more.    *)
Known ==
    /\ out <= tracked
    /\ \A i \in 1..Len(queue) : queue[i] <= tracked
    /\ \A b \in Chunk : b > tracked => refusals[b] = 0

WaitingRefused ==
    /\ out # 0 => refusals[out] <= fired
    /\ \A i \in 1..Len(queue) : refusals[queue[i]] <= fired
    /\ \A b \in Chunk : refusals[b] <= fired + 1

RefusedInv == Known /\ WaitingRefused

LEMMA RefusedInit == Init => RefusedInv
<1> SUFFICES ASSUME Init PROVE RefusedInv
  OBVIOUS
<1>1. /\ tracked = 0 /\ queue = <<>> /\ out = 0 /\ fired = 0
      /\ refusals = [b \in Chunk |-> 0]
  BY DEF Init
<1>2. Len(queue) = 0
  BY <1>1
<1> QED
  BY <1>1, <1>2 DEF RefusedInv, Known, WaitingRefused

LEMMA RefusedTrack == TypeInv /\ RefusedInv /\ Track => RefusedInv'
<1> SUFFICES ASSUME TypeInv, RefusedInv, Track PROVE RefusedInv'
  OBVIOUS
<1>1. /\ tracked + 1 \in Chunk /\ tracked' = tracked + 1 /\ queue' = Append(queue, tracked + 1)
      /\ UNCHANGED <<out, refusals, fired>>
  BY Consts DEF Track, Chunk, TypeInv, TypeOK, outcome
<1>2. /\ Len(queue) \in Nat /\ Len(queue') = Len(queue) + 1
      /\ \A i \in 1..Len(queue') : queue'[i] = IF i <= Len(queue) THEN queue[i] ELSE tracked + 1
  <2>1. queue \in Seq(Chunk) /\ Len(queue) \in Nat
    BY LenProperties DEF TypeInv, TypeOK
  <2> QED
    BY <1>1, <2>1, AppendProperties
<1>3. \A i \in 1..Len(queue) : queue[i] \in Chunk
  BY ElementOfSeq DEF TypeInv, TypeOK
<1>4. Known'
  <2>1. out \in Nat /\ tracked \in Nat /\ out <= tracked
    BY Consts DEF RefusedInv, Known, TypeInv, TypeOK, Chunk
  <2>2. out' <= tracked'
    BY <1>1, <2>1
  <2>3. \A i \in 1..Len(queue) : queue[i] \in Nat /\ queue[i] <= tracked
    BY <1>3 DEF RefusedInv, Known, Chunk
  <2>4. \A i \in 1..Len(queue') : queue'[i] <= tracked'
    BY <1>1, <1>2, <2>1, <2>3
  <2>5. \A b \in Chunk : b > tracked' => refusals'[b] = 0
    BY <1>1, <2>1 DEF RefusedInv, Known, Chunk
  <2> QED
    BY <2>2, <2>4, <2>5 DEF Known
<1>5. refusals[tracked + 1] = 0 /\ fired \in Nat
  BY <1>1, Consts DEF RefusedInv, Known, TypeInv, TypeOK, Chunk
<1>6. WaitingRefused'
  BY <1>1, <1>2, <1>5 DEF RefusedInv, WaitingRefused
<1> QED
  BY <1>4, <1>6 DEF RefusedInv

LEMMA RefusedFlush == TypeInv /\ RefusedInv /\ Flush => RefusedInv'
<1> SUFFICES ASSUME TypeInv, RefusedInv, Flush PROVE RefusedInv'
  OBVIOUS
<1>1. /\ queue # <<>> /\ queue \in Seq(Chunk)
      /\ out' = Head(queue) /\ queue' = Tail(queue)
      /\ UNCHANGED <<tracked, refusals, fired>>
  BY DEF Flush, Due, Starts, TypeInv, TypeOK, outcome
<1>2. /\ Len(queue) \in Nat \ {0} /\ out' = queue[1]
      /\ Len(queue') = Len(queue) - 1
      /\ \A i \in 1..Len(queue') : queue'[i] = queue[i + 1]
  BY <1>1, HeadTailProperties, LenProperties, EmptySeq
<1>3. 1 \in 1..Len(queue) /\ \A i \in 1..Len(queue') : i + 1 \in 1..Len(queue)
  BY <1>2
<1> QED
  BY <1>1, <1>2, <1>3 DEF RefusedInv, Known, WaitingRefused

LEMMA RefusedFail ==
    ASSUME TypeInv, RefusedInv, NEW a \in Answers, Fail(Drain, a)
    PROVE  RefusedInv'
<1>1. PICK throws \in Throws : DrainCatches(a, Fires(a) /\ throws)
  BY DEF Fail
<1>2. /\ pc[Drain] = "sent" /\ UNCHANGED tracked
      /\ fired' = IF Fires(a) THEN fired + 1 ELSE fired
  BY DEF Fail, Hears
<1>3. /\ out \in Chunk /\ queue \in Seq(Chunk) /\ fired \in Nat /\ fired' \in Nat
      /\ fired <= fired' /\ refusals \in [Chunk -> Nat] /\ tracked \in Nat
      /\ \A i \in 1..Len(queue) : queue[i] \in Chunk
  BY <1>2, Consts, ElementOfSeq DEF TypeInv, TypeOK, OutWhileSending
<1>4. /\ out' = 0
      /\ refusals' = IF QuotaError(a) THEN [refusals EXCEPT ![out] = @ + 1] ELSE refusals
  BY <1>1 DEF DrainCatches
<1>5. \/ queue' = <<out>> \o queue /\ (QuotaError(a) => Fires(a))
      \/ queue' = queue /\ (QuotaError(a) => Fires(a))
      \/ queue' = <<>>
  BY <1>1 DEF DrainCatches, Keeps, Retryable, QuotaError, RateLimited, NoStatus
<1>6. \A b \in Chunk : /\ refusals'[b] <= fired' + 1
                       /\ QuotaError(a) /\ Fires(a) /\ refusals[b] <= fired => refusals'[b] <= fired'
                       /\ ~QuotaError(a) => refusals'[b] = refusals[b]
                       /\ b # out => refusals'[b] = refusals[b]
  BY <1>2, <1>3, <1>4 DEF RefusedInv, WaitingRefused, Chunk
<1>7. refusals[out] <= fired /\ \A i \in 1..Len(queue) : refusals[queue[i]] <= fired
  BY <1>3 DEF RefusedInv, WaitingRefused, Chunk
<1>8. \A i \in 1..Len(queue') : queue'[i] \in Chunk /\ queue'[i] <= tracked /\ refusals'[queue'[i]] <= fired'
  <2> TAKE i \in 1..Len(queue')
  <2>1. CASE queue' = <<>>
    BY <2>1
  <2>2. CASE queue' = queue /\ (QuotaError(a) => Fires(a))
    BY <2>2, <1>3, <1>6, <1>7, Consts DEF RefusedInv, Known
  <2>3. CASE queue' = <<out>> \o queue /\ (QuotaError(a) => Fires(a))
    <3>1. queue'[i] = out \/ \E j \in 1..Len(queue) : queue'[i] = queue[j]
      <4>1. <<out>> \in Seq(Chunk) /\ Len(<<out>>) = 1 /\ Len(queue) \in Nat
        BY <1>3, LenProperties
      <4>2. /\ Len(<<out>> \o queue) = 1 + Len(queue)
            /\ \A j \in 1..(1 + Len(queue)) :
                  (<<out>> \o queue)[j] = IF j <= 1 THEN <<out>>[j] ELSE queue[j - 1]
        BY <4>1, <1>3, ConcatProperties
      <4>3. i \in 1..(1 + Len(queue)) /\ queue'[i] = IF i <= 1 THEN <<out>>[i] ELSE queue[i - 1]
        BY <4>2, <2>3
      <4>4. CASE i = 1
        BY <4>3, <4>4
      <4>5. CASE i > 1
        <5>1. i - 1 \in 1..Len(queue) /\ queue'[i] = queue[i - 1]
          BY <4>1, <4>3, <4>5
        <5> QED
          BY <5>1
      <4> QED
        BY <4>1, <4>3, <4>4, <4>5
    <3> QED
      BY <2>3, <3>1, <1>3, <1>6, <1>7, Consts DEF RefusedInv, Known
  <2> QED
    BY <1>5, <2>1, <2>2, <2>3
<1>9. \A b \in Chunk : b > tracked => refusals'[b] = 0
  BY <1>3, <1>6 DEF RefusedInv, Known, Chunk
<1> QED
  BY <1>2, <1>3, <1>4, <1>6, <1>8, <1>9 DEF RefusedInv, Known, WaitingRefused

LEMMA RefusedNext == TypeInv /\ RefusedInv /\ [Next]_vars => RefusedInv'
<1> SUFFICES ASSUME TypeInv, RefusedInv, [Next]_vars PROVE RefusedInv'
  OBVIOUS
<1>0. out \in Nat /\ tracked \in Nat
  BY Consts DEF TypeInv, TypeOK, Chunk
<1>1. ASSUME UNCHANGED <<tracked, queue, out, refusals, fired>> PROVE RefusedInv'
  BY <1>1 DEF RefusedInv, Known, WaitingRefused
<1>2. ASSUME NEW s \in Singles, Call(s) PROVE RefusedInv'
  BY <1>1, <1>2 DEF Call, Starts, outcome
<1>3. ASSUME NEW s \in Senders, NEW a \in Answers, Accept(s, a) PROVE RefusedInv'
  <2>1. UNCHANGED <<tracked, queue, refusals, fired>> /\ (out' = 0 \/ out' = out)
    BY <1>3 DEF Accept, Hears
  <2> QED
    BY <1>0, <2>1 DEF RefusedInv, Known, WaitingRefused
<1>4. ASSUME NEW s \in Senders, NEW a \in Answers, BackOff(s, a) PROVE RefusedInv'
  BY <1>1, <1>4 DEF BackOff, Hears, events, outcome
<1>5. ASSUME NEW s \in Senders, NEW a \in Answers, Fail(s, a) PROVE RefusedInv'
  <2>1. CASE s = Drain
    BY <1>5, <2>1, RefusedFail
  <2>2. CASE s # Drain
    <3>1. UNCHANGED <<tracked, queue, out, refusals>>
      BY <1>5, <2>2 DEF Fail, Hears, events
    <3>2. fired \in Nat /\ fired' \in Nat /\ fired <= fired'
      BY <1>5 DEF Fail, TypeInv, TypeOK
    <3>3. \A i \in 1..Len(queue) : queue[i] \in Chunk
      BY ElementOfSeq DEF TypeInv, TypeOK
    <3>4. \A b \in Chunk : refusals[b] \in Nat
      BY DEF TypeInv, TypeOK
    <3>5. Known'
      BY <3>1 DEF RefusedInv, Known
    <3>6. out # 0 => out \in Chunk
      BY DEF TypeInv, TypeOK
    <3>7. \A b \in Chunk : /\ refusals[b] <= fired => refusals[b] <= fired'
                           /\ refusals[b] <= fired + 1 => refusals[b] <= fired' + 1
      BY <3>2, <3>4
    <3>8. WaitingRefused'
      BY <3>1, <3>3, <3>6, <3>7 DEF RefusedInv, WaitingRefused
    <3> QED
      BY <3>5, <3>8 DEF RefusedInv
  <2> QED
    BY <2>1, <2>2
<1>6. CASE Tick
  BY <1>1, <1>6 DEF Tick, events, outcome
<1>7. ASSUME NEW s \in Senders, Retry(s) PROVE RefusedInv'
  BY <1>1, <1>7 DEF Retry, events, outcome
<1>8. CASE UNCHANGED vars
  BY <1>1, <1>8 DEF vars
<1> QED
  BY <1>2, <1>3, <1>4, <1>5, <1>6, <1>7, <1>8, RefusedTrack, RefusedFlush DEF Next, Answered

(* A chunk refused for the quota is put back only when the callback threw, *)
(* which CallbackOnce bounds by the successes (drain's catch).             *)
THEOREM RefusalsBounded == Spec => []RefusalsEnd
<1>1. TypeInv /\ OncePerSuccess /\ RefusedInv => RefusalsEnd
  <2> SUFFICES ASSUME TypeInv, OncePerSuccess, RefusedInv, NEW b \in Chunk
               PROVE  refusals[b] <= accepted + 2
    BY DEF RefusalsEnd
  <2>1. accepted \in Nat /\ fired \in Nat /\ refusals[b] \in Nat
    BY DEF TypeInv, TypeOK
  <2>2. fired <= accepted + 1
    BY <2>1 DEF OncePerSuccess
  <2>3. refusals[b] <= fired + 1
    BY DEF RefusedInv, WaitingRefused
  <2> QED
    BY <2>1, <2>2, <2>3
<1> QED
  BY <1>1, TypeInit, TypeNext, OnceInit, OnceNext, RefusedInit, RefusedNext, PTL DEF Spec
-----------------------------------------------------------------------------
(* Pauses *)

(* A pause that is over has lasted as long as its answer asks.             *)
Paused ==
    \A s \in Senders : pc[s] = "paused" =>
        Retryable(last[s]) /\ rested[s] + wait[s] >= Pause(last[s], tries[s])

Waited ==
    \A s \in Senders : pc[s] = "sent" /\ tries[s] > 1 =>
        Retryable(last[s]) /\ rested[s] >= Pause(last[s], tries[s] - 1)

PauseInv == Paused /\ Waited

LEMMA PauseInit == Init => PauseInv
  BY DEF Init, PauseInv, Paused, Waited

LEMMA PauseStarts ==
    ASSUME TypeInv, PauseInv, NEW s \in Senders, Starts(s)
    PROVE  PauseInv'
<1>1. /\ pc' = [pc EXCEPT ![s] = "sent"] /\ tries' = [tries EXCEPT ![s] = 1]
      /\ UNCHANGED <<wait, last, rested>>
  BY DEF Starts
<1>2. tries'[s] = 1
  BY <1>1 DEF TypeInv, TypeOK
<1>3. \A r \in Senders : r # s => pc'[r] = pc[r] /\ tries'[r] = tries[r]
  BY <1>1 DEF TypeInv, TypeOK
<1>4. pc'[s] = "sent"
  BY <1>1 DEF TypeInv, TypeOK
<1> QED
  BY <1>1, <1>2, <1>3, <1>4 DEF PauseInv, Paused, Waited

LEMMA PauseEnds ==
    ASSUME TypeInv, PauseInv, NEW s \in Senders, NEW a \in Answers,
           Ends(s), Hears(s, a), UNCHANGED <<tries, wait>>
    PROVE  PauseInv'
<1>1. pc'[s] \notin {"sent", "paused"}
  BY DEF Ends, TypeInv, TypeOK
<1>2. \A r \in Senders : r # s => pc'[r] = pc[r] /\ last'[r] = last[r] /\ rested'[r] = rested[r]
  BY DEF Ends, Hears, TypeInv, TypeOK
<1> QED
  BY <1>1, <1>2 DEF PauseInv, Paused, Waited

LEMMA PauseBackOff ==
    ASSUME TypeInv, PauseInv, NEW s \in Senders, NEW a \in Answers, BackOff(s, a)
    PROVE  PauseInv'
<1>1. /\ pc' = [pc EXCEPT ![s] = "paused"]
      /\ wait' = [wait EXCEPT ![s] = Pause(a, tries[s])]
      /\ last' = [last EXCEPT ![s] = a] /\ rested' = [rested EXCEPT ![s] = 0]
      /\ Retryable(a) /\ tries' = tries
  BY DEF BackOff, Hears, GoesOn
<1>2. Pause(a, tries[s]) \in Nat
  BY PauseType DEF TypeInv, TypeOK
<1>3. /\ pc'[s] = "paused" /\ last'[s] = a /\ rested'[s] = 0
      /\ wait'[s] = Pause(a, tries[s]) /\ tries'[s] = tries[s]
  BY <1>1 DEF TypeInv, TypeOK
<1>4. \A r \in Senders : r # s => /\ pc'[r] = pc[r] /\ last'[r] = last[r] /\ tries'[r] = tries[r]
                                  /\ wait'[r] = wait[r] /\ rested'[r] = rested[r]
  BY <1>1 DEF TypeInv, TypeOK
<1>5. rested'[s] + wait'[s] >= Pause(last'[s], tries'[s]) /\ Retryable(last'[s])
  BY <1>1, <1>2, <1>3
<1> QED
  BY <1>3, <1>4, <1>5 DEF PauseInv, Paused, Waited

LEMMA PauseTick == TypeInv /\ PauseInv /\ Tick => PauseInv'
<1> SUFFICES ASSUME TypeInv, PauseInv, Tick PROVE PauseInv'
  OBVIOUS
<1>1. UNCHANGED <<pc, tries, last>>
  BY DEF Tick
<1>2. \A s \in Senders : /\ rested[s] \in Nat /\ wait[s] \in Nat
                         /\ rested'[s] \in Nat /\ rested'[s] >= rested[s]
                         /\ rested'[s] + wait'[s] = rested[s] + wait[s]
  BY DEF Tick, TypeInv, TypeOK
<1>3. \A s \in Senders : Pause(last[s], tries[s]) \in Nat
  BY PauseType DEF TypeInv, TypeOK
<1>4. \A s \in Senders : pc[s] = "sent" => Pause(last[s], tries[s] - 1) \in Nat
  <2> SUFFICES ASSUME NEW s \in Senders, pc[s] = "sent"
               PROVE  Pause(last[s], tries[s] - 1) \in Nat
    OBVIOUS
  <2>1. tries[s] - 1 \in Nat /\ last[s] \in Answers
    BY Consts DEF TypeInv, TypeOK, SentOnce
  <2> QED
    BY <2>1, PauseType
<1>5. Paused'
  BY <1>1, <1>2 DEF PauseInv, Paused
<1>6. Waited'
  BY <1>1, <1>2, <1>4 DEF PauseInv, Waited
<1> QED
  BY <1>5, <1>6 DEF PauseInv

LEMMA PauseRetry ==
    ASSUME TypeInv, PauseInv, NEW s \in Senders, Retry(s)
    PROVE  PauseInv'
<1>1. /\ pc[s] = "paused" /\ wait[s] = 0
      /\ pc' = [pc EXCEPT ![s] = "sent"] /\ tries' = [tries EXCEPT ![s] = @ + 1]
      /\ UNCHANGED <<wait, last, rested>>
  BY DEF Retry
<1>2. /\ tries[s] \in Nat /\ rested[s] \in Nat /\ pc'[s] = "sent" /\ tries'[s] = tries[s] + 1
  BY <1>1 DEF TypeInv, TypeOK
<1>3. \A r \in Senders : r # s => pc'[r] = pc[r] /\ tries'[r] = tries[r]
  BY <1>1 DEF TypeInv, TypeOK
<1>4. Retryable(last[s]) /\ rested[s] >= Pause(last[s], tries[s])
  BY <1>1, <1>2 DEF PauseInv, Paused
<1>5. tries'[s] - 1 = tries[s]
  BY <1>2
<1> QED
  BY <1>1, <1>2, <1>3, <1>4, <1>5 DEF PauseInv, Paused, Waited

LEMMA PauseNext == TypeInv /\ PauseInv /\ [Next]_vars => PauseInv'
<1> SUFFICES ASSUME TypeInv, PauseInv, [Next]_vars PROVE PauseInv'
  OBVIOUS
<1>1. ASSUME UNCHANGED requests PROVE PauseInv'
  BY <1>1 DEF requests, PauseInv, Paused, Waited
<1>2. CASE Track
  BY <1>1, <1>2 DEF Track
<1>3. CASE Flush
  BY <1>3, PauseStarts, Consts DEF Flush
<1>4. ASSUME NEW s \in Singles, Call(s) PROVE PauseInv'
  BY <1>4, PauseStarts, Consts DEF Call
<1>5. ASSUME NEW s \in Senders, NEW a \in Answers, Accept(s, a) \/ Fail(s, a) PROVE PauseInv'
  <2>1. Ends(s) /\ Hears(s, a) /\ UNCHANGED <<tries, wait>>
    BY <1>5 DEF Accept, Fail
  <2> QED
    BY <2>1, PauseEnds
<1>6. ASSUME NEW s \in Senders, NEW a \in Answers, BackOff(s, a) PROVE PauseInv'
  BY <1>6, PauseBackOff
<1>7. ASSUME NEW s \in Senders, Retry(s) PROVE PauseInv'
  BY <1>7, PauseRetry
<1>8. CASE UNCHANGED vars
  BY <1>1, <1>8 DEF vars, requests
<1> QED
  BY <1>2, <1>3, <1>4, <1>5, <1>6, <1>7, <1>8, PauseTick DEF Next, Answered

(* request never repeats an attempt before the time the api asked for or   *)
(* the backoff has passed, nor after an answer that will not change.       *)
THEOREM AlwaysPatient == Spec => []Patience
<1>1. TypeInv /\ PauseInv => Patience
  <2> SUFFICES ASSUME TypeInv, PauseInv, NEW s \in Senders, pc[s] = "sent", tries[s] > 1
               PROVE  LET a == last[s] IN
                      /\ a.status = NoStatus \/ a.status >= 500 \/ (a.status = 429 /\ ~a.quota)
                      /\ a.status = 429 /\ a.header > 0 => rested[s] >= a.header
                      /\ a.status = 429 /\ a.header = Absent /\ a.seconds > 0
                           => rested[s] >= a.seconds
                      /\ ~AsksForTime(a) => rested[s] >= RetryDelay * (tries[s] - 1)
    BY DEF Patience
  <2>1. last[s] \in Answers /\ tries[s] - 1 \in Nat
    BY Consts DEF TypeInv, TypeOK
  <2>2. Retryable(last[s]) /\ rested[s] >= Pause(last[s], tries[s] - 1)
    BY DEF PauseInv, Waited
  <2>3. last[s] \in Answer
    BY <2>1, AnswerType
  <2>4. last[s].status = 429 => ~last[s].quota
    BY <2>2, <2>3 DEF Answer, Retryable, RateLimited, NoStatus
  <2>5. \/ last[s].status = NoStatus \/ last[s].status >= 500
        \/ last[s].status = 429 /\ ~last[s].quota
    BY <2>2 DEF Retryable, RateLimited
  <2> QED
    BY <2>1, <2>2, <2>4, <2>5, PauseIs
<1> QED
  BY <1>1, TypeInit, TypeNext, PauseInit, PauseNext, PTL DEF Spec

-----------------------------------------------------------------------------
(* Drops *)

LEMMA DropStep ==
    ASSUME TypeInv, [Next]_vars, NEW b \in Chunk, fate'[b] = "refused", fate[b] # "refused"
    PROVE  /\ last'[Drain].status \in 300..499
           /\ last'[Drain].status = 429 => last'[Drain].quota
<1>1. PICK a \in Answers : Fail(Drain, a)
  <2>1. ~UNCHANGED fate
    OBVIOUS
  <2>2. \A s \in Senders, a \in Answers : ~Accept(s, a)
    <3> SUFFICES ASSUME NEW s \in Senders, NEW a \in Answers, Accept(s, a) PROVE FALSE
      OBVIOUS
    <3>1. fate' = [fate EXCEPT ![out] = "accepted"]
      BY <2>1 DEF Accept
    <3> QED
      BY <3>1 DEF TypeInv, TypeOK
  <2>3. \A s \in Senders, a \in Answers : ~BackOff(s, a) /\ ~Retry(s)
    BY <2>1 DEF BackOff, Retry, events
  <2>4. ~Track /\ ~Flush /\ ~Tick /\ ~UNCHANGED vars /\ \A s \in Singles : ~Call(s)
    BY <2>1 DEF Track, Flush, Call, Starts, Tick, events, vars
  <2>5. \A s \in Senders : ~Retry(s)
    BY <2>1 DEF Retry, events
  <2>6. PICK s \in Senders, a \in Answers : Fail(s, a)
    BY <2>2, <2>3, <2>4, <2>5 DEF Next, Answered
  <2>7. s = Drain
    BY <2>1, <2>6 DEF Fail, events
  <2> QED
    BY <2>6, <2>7
<1>2. PICK throws \in Throws : DrainCatches(a, Fires(a) /\ throws)
  BY <1>1 DEF Fail
<1>3. ~Retryable(a)
  <2> SUFFICES ASSUME Retryable(a) PROVE FALSE
    OBVIOUS
  <2>1. fate' = fate \/ fate' = [fate EXCEPT ![out] = "abandoned"]
    BY <1>2 DEF DrainCatches, Keeps
  <2> QED
    BY <2>1 DEF TypeInv, TypeOK
<1>4. last'[Drain] = a /\ ~Ok(a)
  BY <1>1, Consts DEF Fail, Hears, TypeInv, TypeOK
<1>5. a \in Answer
  BY AnswerType
<1> QED
  BY <1>3, <1>4, <1>5 DEF Answer, Ok, Retryable, RateLimited, NoStatus

(* The drain discards what the api refused and nothing else: no retryable  *)
(* answer, and no answer to another request, makes it drop the queue.      *)
THEOREM OnlyRefusedDropped == Spec => DropsAreRefusals
<1>1. TypeInv /\ [Next]_vars =>
        [\A b \in Chunk : fate'[b] = "refused" /\ fate[b] # "refused" =>
           /\ last'[Drain].status \in 300..499
           /\ last'[Drain].status = 429 => last'[Drain].quota]_vars
  BY DropStep
<1> QED
  BY <1>1, TypeInit, TypeNext, PTL DEF Spec, DropsAreRefusals
=============================================================================
