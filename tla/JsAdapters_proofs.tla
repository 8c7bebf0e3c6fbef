-------------------------- MODULE JsAdapters_proofs --------------------------
(***************************************************************************)
(* The vendor adapters: what each vendor is given and in which order, for  *)
(* which visitor, and what a shutdown has made sure of when it returns,    *)
(* for every choice of adapters and every number of calls.                 *)
(***************************************************************************)
EXTENDS JsAdapters, SequenceTheorems, NaturalsInduction, WellFoundedInduction, TLAPS

(* Whether the job or the log of an event can be overtaken: only the page  *)
(* views that an adapter forwards to its own track can.                    *)
Plain(k, v)  == kind[k] = "page" => Adapter[v].pageAwaits = 1
Change(k)    == kind[k] \in {"identify", "reset"}
Has(s, k, v) == \E i \in 1..Len(s) : s[i][1] = k /\ s[i][2] = v
Waits(k, v)  == Has(jobs, k, v)

(* The calls of the app, and what became of each. *)
CallsInv ==
    /\ \A k \in Calls : k > called => pc[k] = "none" /\ kind[k] = "track"
    /\ \A k \in Calls : pc[k] # "out" => pending[k] = {}
    /\ \A k \in ToSet(reached) : /\ pc[k] \in {"out", "settled"}
                                 /\ kind[k] \in {"identify", "track", "page", "reset"}
    /\ IsInjective(reached)

(* A job is the only one for its call and adapter, and the call is open.   *)
Open(j) ==
    IF j[2] = "facade" THEN pc[j[1]] = "context" /\ kind[j[1]] = "identify"
    ELSE /\ j[1] \in ToSet(reached) /\ j[2] \in pending[j[1]]
         /\ Plain(j[1], j[2]) => j[3] = 0
Unique(s) == \A i, j \in 1..Len(s) : s[i][1] = s[j][1] /\ s[i][2] = s[j][2] => i = j
JobsInv   == Unique(jobs) /\ \A i \in 1..Len(jobs) : Open(jobs[i])

(* A vendor owes an answer to an open call, one each, whose job has run.   *)
AskInv ==
    /\ \A a \in asking : a[2] \in pending[a[1]] /\ ~Waits(a[1], a[2])
    /\ \A a, b \in asking : a[1] = b[1] /\ a[2] = b[2] => a = b

(* Before the end of init nothing has happened. *)
EarlyInv ==
    /\ ~initialized /\ ~closed => /\ reached = <<>> /\ jobs = <<>> /\ ~stopped
                                  /\ \A v \in Using : ~client[v]
    /\ stopped <=> \E k \in Calls : kind[k] = "stop"

BaseInv == TypeOK /\ CallsInv /\ JobsInv /\ AskInv /\ EarlyInv

(* Each adapter takes up what cannot be overtaken in the order of the      *)
(* fan-outs.                                                               *)
Turn(s) ==
    \A i, j \in 1..Len(s) :
        /\ i < j /\ s[i][2] = s[j][2] /\ s[i][2] # "facade"
        /\ Plain(s[i][1], s[i][2]) /\ Plain(s[j][1], s[j][2])
        => Position(s[i][1]) < Position(s[j][1])
InTurn == Turn(jobs)
UpTo ==
    \A v \in Using, p, q \in DOMAIN reached :
        p < q /\ Plain(reached[p], v) /\ Plain(reached[q], v) /\ Waits(reached[p], v)
          => Waits(reached[q], v)
Logged ==
    \A v \in Using : \A i \in DOMAIN log[v] :
        LET k == log[v][i].call IN k \in ToSet(reached) /\ kind[k] \in Events /\ ~Waits(k, v)

(* An adapter's visitor is that of the last change it took up.             *)
Who(S) == IF S = {} \/ kind[reached[Max(S)]] = "reset" THEN None ELSE reached[Max(S)]
Changes   == {p \in DOMAIN reached : Change(reached[p])}
Done(v)   == {p \in Changes : ~Waits(reached[p], v)}
Visitors  == \A v \in Using : id[v] = Who(Done(v))

OrderInv == InTurn /\ UpTo /\ Logged /\ VendorOrder /\ Visitors /\ Attributed

(* An event is with its vendor, or on its way to it, as long as its call   *)
(* or the shutdown may still wait.                                         *)
EventAt(k, v) == k \in ToSet(reached) /\ kind[k] \in Events /\ v \in Using /\ client[v]
Accounted(s, k, v) ==
    (\E a \in asking : a[1] = s /\ a[2] = v /\ k \in a[3]) \/ k \in sent[v] \/ v \in failed[s]
First(s) == kind[s] = "stop" /\ \A t \in 1..(s-1) : kind[t] # "stop"
GivenInv == \A k \in Calls, v \in Using : EventAt(k, v) => Waits(k, v) \/ k \in Given(v)
AnsweredInv ==
    \A k \in Calls, v \in Using :
        EventAt(k, v) /\ ~Waits(k, v) /\ Adapter[v].waits # "never" => Accounted(k, k, v)
StopInv ==
    \A s \in Calls : First(s) =>
        /\ \A k \in known[s] : pc[k] = "settled"
        /\ \A k \in known[s], v \in Using :
             EventAt(k, v) /\ Adapter[v].flushes => Accounted(s, k, v)
FlushInv == GivenInv /\ AnsweredInv /\ StopInv

-----------------------------------------------------------------------------
(* Sequences, and the table of the adapters *)

LEMMA AdapterFacts ==
    /\ \A v \in Vendors : /\ Adapter[v].pageAwaits \in {1, 2}
                          /\ Adapter[v].waits \in {"never", "client", "always"}
                          /\ Adapter[v].flushes \in BOOLEAN
    /\ "facade" \notin Vendors
<1>1. Vendors = {"MixpanelNode", "AmplitudeNode", "SegmentNode", "PostHogNode", "MixpanelWeb",
                 "AmplitudeWeb", "SegmentWeb", "PostHogWeb", "GA4"}
  BY DEF Vendors, Adapter
<1>2. /\ Adapter["MixpanelNode"] = MixpanelNode /\ Adapter["AmplitudeNode"] = AmplitudeNode
      /\ Adapter["SegmentNode"] = SegmentNode /\ Adapter["PostHogNode"] = PostHogNode
      /\ Adapter["MixpanelWeb"] = MixpanelWeb /\ Adapter["AmplitudeWeb"] = AmplitudeWeb
      /\ Adapter["SegmentWeb"] = SegmentWeb /\ Adapter["PostHogWeb"] = PostHogWeb
      /\ Adapter["GA4"] = GA4
  BY DEF Adapter
<1> DEFINE Good(a) == /\ a.pageAwaits \in {1, 2} /\ a.waits \in {"never", "client", "always"}
                      /\ a.flushes \in BOOLEAN
<1>3. /\ Good(MixpanelNode) /\ Good(AmplitudeNode) /\ Good(SegmentNode) /\ Good(PostHogNode)
      /\ Good(MixpanelWeb) /\ Good(AmplitudeWeb) /\ Good(SegmentWeb) /\ Good(PostHogWeb)
      /\ Good(GA4)
  BY DEF MixpanelNode, AmplitudeNode, SegmentNode, PostHogNode, MixpanelWeb, AmplitudeWeb,
         SegmentWeb, PostHogWeb, GA4
<1>4. \A v \in Vendors : Good(Adapter[v])
  <2> HIDE DEF Good
  <2> QED
    BY <1>1, <1>2, <1>3
<1>5. "facade" \notin Vendors
  BY <1>1
<1> QED
  BY <1>4, <1>5

LEMMA Members ==
    ASSUME NEW S, NEW s \in Seq(S)
    PROVE  /\ ToSet(s) \subseteq S /\ DOMAIN s = 1..Len(s) /\ Len(s) \in Nat
           /\ \A e : e \in ToSet(s) <=> \E i \in 1..Len(s) : s[i] = e
<1>1. DOMAIN s = 1..Len(s) /\ Len(s) \in Nat /\ \A i \in 1..Len(s) : s[i] \in S
  BY LenProperties, ElementOfSeq
<1> QED
  BY <1>1 DEF ToSet

LEMMA Setup ==
    ASSUME setup \in Setups
    PROVE  /\ setup \in Seq(Vendors) /\ DOMAIN setup = 1..Len(setup) /\ Len(setup) \in Nat
           /\ Using \subseteq Vendors /\ "facade" \notin Using
           /\ \A i, j \in DOMAIN setup : setup[i] = setup[j] => i = j
           /\ \A v : v \in Using <=> \E i \in DOMAIN setup : setup[i] = v
<1>1. setup \in Seq(Vendors) /\ \A i, j \in DOMAIN setup : setup[i] = setup[j] => i = j
  BY AdapterAssumption DEF IsInjective
<1> QED
  BY <1>1, Members, AdapterFacts DEF Using
-----------------------------------------------------------------------------
(* Types *)

Job == Calls \X (Using \cup {"facade"}) \X {0, 1}

LEMMA JobParts ==
    \A j \in Job : /\ j[1] \in Calls /\ j[2] \in Using \cup {"facade"} /\ j[3] \in {0, 1}
                   /\ j = <<j[1], j[2], j[3]>>
  BY DEF Job

(* The jobs of a fan-out. *)
Fan(k, how) == [i \in 1..Len(setup) |-> <<k, setup[i], Awaits(setup[i], how) - 1>>]

LEMMA FanProps ==
    ASSUME setup \in Setups, NEW k \in Calls, NEW how \in Kinds
    PROVE  /\ Fan(k, how) \in Seq(Job) /\ Len(Fan(k, how)) = Len(setup) /\ Len(setup) \in Nat
           /\ \A i \in 1..Len(setup) :
                /\ Fan(k, how)[i][1] = k /\ Fan(k, how)[i][2] = setup[i] /\ setup[i] \in Using
                /\ (how = "page" => Adapter[setup[i]].pageAwaits = 1) => Fan(k, how)[i][3] = 0
<1>1. /\ Len(setup) \in Nat /\ \A i \in 1..Len(setup) : setup[i] \in Using /\ setup[i] \in Vendors
  BY Setup
<1>2. ASSUME NEW i \in 1..Len(setup)
      PROVE  /\ Awaits(setup[i], how) - 1 \in {0, 1}
             /\ (how = "page" => Adapter[setup[i]].pageAwaits = 1) => Awaits(setup[i], how) - 1 = 0
  BY <1>1, AdapterFacts DEF Awaits
<1>3. Fan(k, how) \in [1..Len(setup) -> Job]
  BY <1>1, <1>2 DEF Fan, Job
<1>4. Fan(k, how) \in Seq(Job) /\ Len(Fan(k, how)) = Len(setup)
  <2>1. Fan(k, how) \in Seq(Job)
    BY <1>1, <1>3, IsASeq
  <2>2. DOMAIN Fan(k, how) = 1..Len(setup)
    BY DEF Fan
  <2> QED
    BY <1>1, <2>1, <2>2, LenProperties
<1>5. ASSUME NEW i \in 1..Len(setup)
      PROVE  /\ Fan(k, how)[i][1] = k /\ Fan(k, how)[i][2] = setup[i] /\ setup[i] \in Using
             /\ (how = "page" => Adapter[setup[i]].pageAwaits = 1) => Fan(k, how)[i][3] = 0
  <2>1. Fan(k, how)[i] = <<k, setup[i], Awaits(setup[i], how) - 1>>
    BY DEF Fan
  <2> QED
    BY <1>1, <1>2, <2>1
<1> QED
  BY <1>1, <1>4, <1>5

LEMMA JobsType == TypeOK => jobs \in Seq(Job)
  BY DEF TypeOK, Job

LEMMA TypeInit == Init => TypeOK
<1> SUFFICES ASSUME Init PROVE TypeOK
  OBVIOUS
<1>1. "track" \in Kinds /\ 0 \in 0..MaxCalls
  BY AdapterAssumption DEF Kinds
<1>2. <<>> \in Seq(Calls \X (Using \cup {"facade"}) \X {0, 1}) /\ <<>> \in Seq(Calls)
      /\ <<>> \in Seq([call : Calls, id : Calls \cup {None}])
  BY EmptySeq
<1> QED
  BY <1>1, <1>2 DEF Init, TypeOK

LEMMA TypeOfCall ==
    ASSUME TypeOK, called < MaxCalls, NEW how \in Kinds,
           called' = called + 1, kind' = [kind EXCEPT ![called + 1] = how]
    PROVE  /\ called + 1 \in Calls /\ called' \in 0..MaxCalls /\ kind' \in [Calls -> Kinds]
           /\ kind'[called + 1] = how /\ \A k \in Calls : k # called + 1 => kind'[k] = kind[k]
<1>1. called + 1 \in Calls /\ called' \in 0..MaxCalls
  BY AdapterAssumption DEF TypeOK, Calls
<1> QED
  BY <1>1 DEF TypeOK

LEMMA FanOutType ==
    ASSUME TypeOK, NEW k \in Calls, NEW how \in Kinds, NEW rest \in Seq(Job),
           FanOut(k, how, rest)
    PROVE  /\ pc' \in [Calls -> {"none", "context", "out", "settled"}]
           /\ pending' \in [Calls -> SUBSET Using]
           /\ jobs' = rest \o Fan(k, how) /\ jobs' \in Seq(Job)
           /\ reached' = Append(reached, k) /\ reached' \in Seq(Calls)
<1>1. setup \in Setups /\ reached \in Seq(Calls)
  BY DEF TypeOK
<1>2. jobs' = rest \o Fan(k, how) /\ jobs' \in Seq(Job)
  <2>1. jobs' = rest \o Fan(k, how)
    BY DEF FanOut, Takers, Fan
  <2> QED
    BY <1>1, <2>1, FanProps, ConcatProperties
<1>3. reached' = Append(reached, k) /\ reached' \in Seq(Calls)
  BY <1>1, AppendProperties DEF FanOut
<1> QED
  BY <1>2, <1>3 DEF FanOut, TypeOK

LEMMA AsksType ==
    ASSUME TypeOK, NEW k \in Calls, Asks(k)
    PROVE  /\ pc' \in [Calls -> {"none", "context", "out", "settled"}]
           /\ pending' \in [Calls -> SUBSET Using]
           /\ asking' \subseteq Calls \X Using \X SUBSET Calls
<1>1. Flushing \subseteq Using
  BY DEF Flushing
<1>2. ASSUME NEW v \in Using PROVE Given(v) \in SUBSET Calls
  <2>1. log[v] \in Seq([call : Calls, id : Calls \cup {None}])
    BY <1>2 DEF TypeOK
  <2>2. DOMAIN log[v] = 1..Len(log[v])
    BY <2>1, LenProperties
  <2>3. \A i \in DOMAIN log[v] : log[v][i] \in [call : Calls, id : Calls \cup {None}]
    BY <2>1, <2>2, ElementOfSeq
  <2> QED
    BY <2>3 DEF Given
<1>3. {<<k, v, Given(v)>> : v \in Flushing} \subseteq Calls \X Using \X SUBSET Calls
  BY <1>1, <1>2
<1> QED
  BY <1>1, <1>3 DEF Asks, TypeOK

(* The first job, and those behind it. *)
LEMMA Queue ==
    ASSUME TypeOK, jobs # <<>>
    PROVE  /\ Head(jobs) = jobs[1] /\ jobs[1] \in Job /\ 1 \in 1..Len(jobs) /\ Len(jobs) \in Nat
           /\ Tail(jobs) \in Seq(Job) /\ Len(Tail(jobs)) = Len(jobs) - 1
           /\ \A i \in 1..Len(Tail(jobs)) : i + 1 \in 1..Len(jobs) /\ Tail(jobs)[i] = jobs[i + 1]
<1>1. jobs \in Seq(Job)
  BY JobsType
<1>2. Len(jobs) \in Nat /\ Len(jobs) # 0
  BY <1>1, LenProperties, EmptySeq
<1>3. /\ Head(jobs) = jobs[1] /\ jobs[1] \in Job
      /\ Tail(jobs) \in Seq(Job) /\ Len(Tail(jobs)) = Len(jobs) - 1
  BY <1>1, <1>2, HeadTailProperties, ElementOfSeq
<1>4. \A i \in 1..Len(Tail(jobs)) : Tail(jobs)[i] = jobs[i + 1]
  BY <1>1, <1>2, HeadTailProperties
<1> QED
  BY <1>2, <1>3, <1>4

LEMMA ResumesFirst ==
    ASSUME TypeOK, NEW k, NEW v, Resumes(k, v)
    PROVE  /\ jobs # <<>> /\ jobs[1] = <<k, v, 0>> /\ jobs[1][1] = k /\ jobs[1][2] = v
           /\ k \in Calls /\ v \in Using \cup {"facade"}
<1>1. jobs # <<>> /\ jobs[1] = <<k, v, 0>> /\ jobs[1] \in Job
  BY Queue DEF Resumes
<1> QED
  BY <1>1 DEF Job

LEMMA AwaitsAgainJobs ==
    ASSUME TypeOK, AwaitsAgain
    PROVE  LET j == <<jobs[1][1], jobs[1][2], jobs[1][3] - 1>>
           IN  jobs # <<>> /\ j \in Job /\ jobs' = Append(Tail(jobs), j) /\ jobs[1][3] # 0
<1>1. /\ jobs # <<>> /\ jobs[1][3] > 0
      /\ jobs' = Append(Tail(jobs), [jobs[1] EXCEPT ![3] = @ - 1])
  BY Queue DEF AwaitsAgain
<1> DEFINE h == jobs[1]
<1>2. h \in Job /\ h[3] \in {0, 1} /\ h[3] > 0
  BY <1>1, Queue, JobParts
<1>3. PICK a \in Calls, b \in Using \cup {"facade"}, c \in {0, 1} : h = <<a, b, c>>
  BY <1>2, JobParts
<1>4. [h EXCEPT ![3] = @ - 1] = <<a, b, c - 1>>
  BY <1>3
<1>5. h[1] = a /\ h[2] = b /\ h[3] = c
  BY <1>3
<1> HIDE DEF h
<1>6. <<h[1], h[2], h[3] - 1>> \in Job /\ h[3] # 0
  BY <1>2, <1>3, <1>5 DEF Job
<1> QED
  BY <1>1, <1>4, <1>5, <1>6 DEF h

LEMMA SettleType ==
    ASSUME TypeOK, NEW k \in Calls, NEW v \in Using, Settle(k, v)
    PROVE  /\ pc' \in [Calls -> {"none", "context", "out", "settled"}]
           /\ pending' \in [Calls -> SUBSET Using]
  BY DEF Settle, TypeOK

LEMMA ForwardsType ==
    ASSUME TypeOK, NEW k \in Calls, NEW v \in Using, Forwards(k, v)
    PROVE  TypeOK'
<1> DEFINE event == kind[k] \in Events /\ client[v]
           entry == [call |-> k, id |-> id[v]]
<1>1. jobs # <<>> /\ jobs' = Tail(jobs) /\ UNCHANGED <<app, facade, stopped, sent, failed, reached, known>>
  BY DEF Forwards, Resumes
<1>2. jobs' \in Seq(Calls \X (Using \cup {"facade"}) \X {0, 1})
  BY <1>1, Queue DEF Job
<1>3. id' \in [Using -> Calls \cup {None}]
  BY DEF Forwards, TypeOK
<1>4. log' \in [Using -> Seq([call : Calls, id : Calls \cup {None}])]
  <2>1. entry \in [call : Calls, id : Calls \cup {None}]
    BY DEF TypeOK
  <2>2. log[v] \in Seq([call : Calls, id : Calls \cup {None}])
    BY DEF TypeOK
  <2> HIDE DEF entry
  <2>3. Append(log[v], entry) \in Seq([call : Calls, id : Calls \cup {None}])
    BY <2>1, <2>2, AppendProperties
  <2>4. log' = log \/ log' = [log EXCEPT ![v] = Append(log[v], entry)]
    BY DEF Forwards, entry
  <2> QED
    BY <2>3, <2>4 DEF TypeOK
<1>5. /\ pc' \in [Calls -> {"none", "context", "out", "settled"}]
      /\ pending' \in [Calls -> SUBSET Using]
      /\ asking' \subseteq Calls \X Using \X SUBSET Calls
  <2>1. CASE Settle(k, v) /\ asking' = asking
    BY <2>1, SettleType DEF TypeOK
  <2>2. CASE /\ UNCHANGED <<pc, pending>>
             /\ asking' = asking \/ asking' = asking \cup {<<k, v, IF event THEN {k} ELSE {}>>}
    <3>1. <<k, v, IF event THEN {k} ELSE {}>> \in Calls \X Using \X SUBSET Calls
      OBVIOUS
    <3> QED
      BY <2>2, <3>1 DEF TypeOK
  <2> QED
    BY <2>1, <2>2 DEF Forwards
<1> QED
  BY <1>1, <1>2, <1>3, <1>4, <1>5 DEF TypeOK, app, facade, Using

LEMMA AnswersType ==
    ASSUME TypeOK, NEW k \in Calls, NEW v \in Using, NEW S \in SUBSET Calls, Answers(k, v, S)
    PROVE  TypeOK'
<1>1. Settle(k, v) /\ asking' \subseteq asking /\ UNCHANGED <<app, stopped, jobs, id, log, reached, known>>
  BY DEF Answers
<1>2. sent' \in [Using -> SUBSET Calls] /\ failed' \in [Calls -> SUBSET Using]
  <2>1. sent \in [Using -> SUBSET Calls] /\ failed \in [Calls -> SUBSET Using]
    BY DEF TypeOK
  <2>2. \/ sent' = [sent EXCEPT ![v] = sent[v] \cup S] /\ failed' = failed
        \/ failed' = [failed EXCEPT ![k] = failed[k] \cup {v}] /\ sent' = sent
    BY DEF Answers
  <2> QED
    BY <2>1, <2>2
<1>3. initialized' \in BOOLEAN /\ closed' \in BOOLEAN
  BY DEF Answers, TypeOK, facade
<1> QED
  BY <1>1, <1>2, <1>3, SettleType DEF TypeOK, app, Using

LEMMA TypeNext == ASSUME TypeOK, [Next]_vars PROVE TypeOK'
<1>1. /\ setup \in Setups /\ jobs \in Seq(Job) /\ reached \in Seq(Calls)
      /\ jobs \in Seq(Calls \X (Using \cup {"facade"}) \X {0, 1})
  BY JobsType DEF TypeOK
<1>2. CASE InitEnds
  <2>1. client' \in [Using -> BOOLEAN]
    BY <1>2 DEF InitEnds
  <2> QED
    BY <1>2, <2>1 DEF InitEnds, TypeOK, Using
<1>3. ASSUME NEW how \in Kinds, Ignored(how) PROVE TypeOK'
  <2>1. called + 1 \in Calls /\ called' \in 0..MaxCalls /\ kind' \in [Calls -> Kinds]
    BY <1>3, TypeOfCall DEF Ignored, New
  <2>2. pc' \in [Calls -> {"none", "context", "out", "settled"}]
    BY <1>3, <2>1 DEF Ignored, TypeOK
  <2> QED
    BY <1>3, <2>1, <2>2 DEF Ignored, New, TypeOK, facade, Using
<1>4. ASSUME NEW how \in Kinds, CallOut(how) PROVE TypeOK'
  <2>1. called + 1 \in Calls /\ called' \in 0..MaxCalls /\ kind' \in [Calls -> Kinds]
    BY <1>4, TypeOfCall DEF CallOut, New
  <2>2. FanOut(called + 1, how, jobs) /\ UNCHANGED <<setup, client, facade, id, log, sent, failed, stopped, asking, known>>
    BY <1>4 DEF CallOut, New
  <2>3. /\ pc' \in [Calls -> {"none", "context", "out", "settled"}]
        /\ pending' \in [Calls -> SUBSET Using]
        /\ jobs' \in Seq(Job) /\ reached' \in Seq(Calls)
    <3> DEFINE k == called + 1
    <3>1. k \in Calls /\ FanOut(k, how, jobs)
      BY <2>1, <2>2
    <3> HIDE DEF k
    <3> QED
      BY <1>1, <3>1, FanOutType
  <2> QED
    BY <2>1, <2>2, <2>3 DEF TypeOK, facade, Using, Job
<1>5. CASE CallIdentify
  <2>1. called + 1 \in Calls /\ called' \in 0..MaxCalls /\ kind' \in [Calls -> Kinds]
    BY <1>5, TypeOfCall DEF CallIdentify, New, Kinds
  <2>2. pc' \in [Calls -> {"none", "context", "out", "settled"}]
    BY <1>5, <2>1 DEF CallIdentify, TypeOK
  <2>3. jobs' \in Seq(Calls \X (Using \cup {"facade"}) \X {0, 1})
    <3> DEFINE j == <<called + 1, "facade", 1>>
    <3>1. j \in Calls \X (Using \cup {"facade"}) \X {0, 1} /\ jobs' = Append(jobs, j)
      BY <1>5, <2>1 DEF CallIdentify
    <3> HIDE DEF j
    <3> QED
      BY <1>1, <3>1, AppendProperties
  <2> QED
    BY <1>5, <2>1, <2>2, <2>3 DEF CallIdentify, New, TypeOK, facade, Using
<1>6. ASSUME NEW k \in Calls, Asks(k)
      PROVE  /\ pc' \in [Calls -> {"none", "context", "out", "settled"}]
             /\ pending' \in [Calls -> SUBSET Using]
             /\ asking' \subseteq Calls \X Using \X SUBSET Calls
  BY <1>6, AsksType
<1>7. CASE CallFlush
  <2>1. called + 1 \in Calls /\ called' \in 0..MaxCalls /\ kind' \in [Calls -> Kinds]
    BY <1>7, TypeOfCall DEF CallFlush, New, Kinds
  <2>2. Asks(called + 1)
    BY <1>7 DEF CallFlush
  <2>3. /\ pc' \in [Calls -> {"none", "context", "out", "settled"}]
        /\ pending' \in [Calls -> SUBSET Using]
        /\ asking' \subseteq Calls \X Using \X SUBSET Calls
    BY <1>6, <2>1, <2>2
  <2> QED
    BY <1>7, <2>1, <2>3 DEF CallFlush, New, TypeOK, facade, Using
<1>8. CASE CallStop
  <2>1. called + 1 \in Calls /\ called' \in 0..MaxCalls /\ kind' \in [Calls -> Kinds]
    BY <1>8, TypeOfCall DEF CallStop, Kinds
  <2>2. /\ pc' \in [Calls -> {"none", "context", "out", "settled"}]
        /\ pending' \in [Calls -> SUBSET Using]
        /\ asking' \subseteq Calls \X Using \X SUBSET Calls
        /\ initialized' \in BOOLEAN /\ closed' \in BOOLEAN
    <3>1. CASE stopped
      <4>1. /\ pc' = [pc EXCEPT ![called + 1] = "settled"]
            /\ UNCHANGED <<pending, asking, initialized, closed>>
        BY <1>8, <3>1 DEF CallStop, facade
      <4> QED
        BY <2>1, <4>1 DEF TypeOK
    <3>2. CASE ~stopped
      <4>1. /\ Asks(called + 1) /\ initialized' = (Flushing # {}) /\ closed' = (Flushing = {})
        BY <1>8, <3>2 DEF CallStop
      <4> QED
        BY <1>6, <2>1, <4>1
    <3> QED
      BY <3>1, <3>2
  <2>3. known' \in [Calls -> SUBSET Calls]
    <3>1. {k \in Calls : pc[k] = "settled"} \in SUBSET Calls
      OBVIOUS
    <3> QED
      BY <1>8, <3>1 DEF CallStop, TypeOK
  <2>4. stopped' = TRUE /\ UNCHANGED <<setup, client, jobs, id, log, sent, failed, reached>>
    BY <1>8 DEF CallStop
  <2> QED
    BY <2>1, <2>2, <2>3, <2>4 DEF TypeOK, Using
<1>9. CASE AwaitsAgain
  <2>1. jobs' \in Seq(Calls \X (Using \cup {"facade"}) \X {0, 1})
    <3> DEFINE j == <<jobs[1][1], jobs[1][2], jobs[1][3] - 1>>
    <3>1. jobs # <<>> /\ j \in Job /\ jobs' = Append(Tail(jobs), j)
      BY <1>9, AwaitsAgainJobs
    <3> HIDE DEF j
    <3>2. jobs' \in Seq(Job)
      BY <3>1, Queue, AppendProperties
    <3> QED
      BY <3>2 DEF Job
  <2> QED
    BY <1>9, <2>1 DEF AwaitsAgain, TypeOK, app, facade, Using
<1>10. ASSUME NEW k \in Calls, ContextThere(k) PROVE TypeOK'
  <2>1. /\ FanOut(k, "identify", Tail(jobs)) /\ jobs # <<>> /\ "identify" \in Kinds
        /\ UNCHANGED <<app, facade, stopped, asking, id, log, sent, failed, known>>
    BY <1>10 DEF ContextThere, Resumes, Kinds
  <2>2. /\ pc' \in [Calls -> {"none", "context", "out", "settled"}]
        /\ pending' \in [Calls -> SUBSET Using]
        /\ jobs' \in Seq(Job) /\ reached' \in Seq(Calls)
    BY <2>1, Queue, FanOutType
  <2> QED
    BY <2>1, <2>2 DEF TypeOK, app, facade, Using, Job
<1>11. ASSUME NEW k \in Calls, NEW v \in Using, Forwards(k, v) PROVE TypeOK'
  BY <1>11, ForwardsType
<1>12. CASE VendorAnswers
  <2>1. PICK ask \in asking : Answers(ask[1], ask[2], ask[3])
    BY <1>12 DEF VendorAnswers
  <2>2. ask[1] \in Calls /\ ask[2] \in Using /\ ask[3] \in SUBSET Calls
    BY <2>1 DEF TypeOK
  <2> QED
    BY <2>1, <2>2, AnswersType
<1>13. CASE UNCHANGED vars
  BY <1>13 DEF vars, TypeOK, Using
<1> QED
  BY <1>2, <1>3, <1>4, <1>5, <1>7, <1>8, <1>9, <1>10, <1>11, <1>12, <1>13 DEF Next, Runs

(* Every variable of the adapters' model keeps its type, for every choice  *)
(* of adapters and every number of calls: no job, answer or log names a    *)
(* call or a vendor that is not there.                                     *)
THEOREM TypeCorrect == Spec => []TypeOK
  BY TypeInit, TypeNext, PTL DEF Spec
-----------------------------------------------------------------------------
(* Calls, jobs and questions *)

LEMMA Concat ==
    ASSUME NEW S, NEW a \in Seq(S), NEW b \in Seq(S)
    PROVE  /\ a \o b \in Seq(S) /\ Len(a \o b) = Len(a) + Len(b) /\ Len(a) \in Nat /\ Len(b) \in Nat
           /\ \A i \in 1..Len(a) : i \in 1..Len(a \o b) /\ (a \o b)[i] = a[i]
           /\ \A i \in 1..Len(b) : Len(a) + i \in 1..Len(a \o b) /\ (a \o b)[Len(a) + i] = b[i]
           /\ \A i \in 1..Len(a \o b) :
                \/ i \in 1..Len(a) /\ (a \o b)[i] = a[i]
                \/ i - Len(a) \in 1..Len(b) /\ (a \o b)[i] = b[i - Len(a)]
<1> DEFINE c == a \o b
<1>1. /\ c \in Seq(S) /\ Len(c) = Len(a) + Len(b) /\ Len(a) \in Nat /\ Len(b) \in Nat
      /\ \A i \in 1..Len(a) : c[i] = a[i]
      /\ \A i \in 1..Len(b) : c[Len(a) + i] = b[i]
  BY ConcatProperties, LenProperties
<1> HIDE DEF c
<1>2. \A i \in 1..Len(c) : i \in 1..Len(a) \/ (i - Len(a) \in 1..Len(b) /\ i = Len(a) + (i - Len(a)))
  BY <1>1
<1>3. /\ \A i \in 1..Len(a) : i \in 1..Len(c)
      /\ \A i \in 1..Len(b) : Len(a) + i \in 1..Len(c)
  BY <1>1
<1>4. \A i \in 1..Len(c) : \/ i \in 1..Len(a) /\ c[i] = a[i]
                           \/ i - Len(a) \in 1..Len(b) /\ c[i] = b[i - Len(a)]
  BY <1>1, <1>2
<1> QED
  BY <1>1, <1>3, <1>4 DEF c

LEMMA Appended ==
    ASSUME NEW S, NEW a \in Seq(S), NEW e \in S
    PROVE  /\ Append(a, e) \in Seq(S) /\ Len(Append(a, e)) = Len(a) + 1 /\ Len(a) \in Nat
           /\ \A i \in 1..Len(a) : i \in 1..(Len(a) + 1) /\ Append(a, e)[i] = a[i]
           /\ Append(a, e)[Len(a) + 1] = e
           /\ \A i \in 1..(Len(a) + 1) : i \in 1..Len(a) \/ i = Len(a) + 1
  BY AppendProperties, LenProperties

(* What waits once the first job is gone. *)
LEMMA TailHas ==
    ASSUME TypeOK, JobsInv, jobs # <<>>
    PROVE  /\ Unique(Tail(jobs))
           /\ \A x, v : Has(Tail(jobs), x, v)
                          <=> Waits(x, v) /\ ~(x = jobs[1][1] /\ v = jobs[1][2])
<1>1. /\ 1 \in 1..Len(jobs) /\ Len(jobs) \in Nat /\ Len(Tail(jobs)) = Len(jobs) - 1
      /\ \A i \in 1..Len(Tail(jobs)) : i + 1 \in 1..Len(jobs) /\ Tail(jobs)[i] = jobs[i + 1]
  BY Queue
<1>2. \A i \in 1..Len(jobs) : i = 1 \/ (i - 1 \in 1..Len(Tail(jobs)) /\ Tail(jobs)[i - 1] = jobs[i])
  BY <1>1
<1>3. Unique(Tail(jobs))
  BY <1>1 DEF JobsInv, Unique
<1>4. ASSUME NEW x, NEW v
      PROVE  Has(Tail(jobs), x, v) <=> Waits(x, v) /\ ~(x = jobs[1][1] /\ v = jobs[1][2])
  <2>1. ASSUME Has(Tail(jobs), x, v) PROVE Waits(x, v) /\ ~(x = jobs[1][1] /\ v = jobs[1][2])
    <3>1. PICK i \in 1..Len(Tail(jobs)) : Tail(jobs)[i][1] = x /\ Tail(jobs)[i][2] = v
      BY <2>1 DEF Has
    <3>2. i + 1 \in 1..Len(jobs) /\ jobs[i + 1][1] = x /\ jobs[i + 1][2] = v /\ i + 1 # 1
      BY <1>1, <3>1
    <3> QED
      BY <1>1, <3>2 DEF Waits, Has, JobsInv, Unique
  <2>2. ASSUME Waits(x, v), ~(x = jobs[1][1] /\ v = jobs[1][2]) PROVE Has(Tail(jobs), x, v)
    <3>1. PICK i \in 1..Len(jobs) : jobs[i][1] = x /\ jobs[i][2] = v
      BY <2>2 DEF Waits, Has
    <3> QED
      BY <1>2, <2>2, <3>1 DEF Has
  <2> QED
    BY <2>1, <2>2
<1> QED
  BY <1>3, <1>4

(* What waits after a fan-out. *)
LEMMA FanHas ==
    ASSUME setup \in Setups, NEW k \in Calls, NEW how \in Kinds, NEW rest \in Seq(Job),
           \A v : ~Has(rest, k, v) \/ v = "facade", Unique(rest)
    PROVE  /\ Unique(rest \o Fan(k, how))
           /\ \A x, v : Has(rest \o Fan(k, how), x, v) <=> Has(rest, x, v) \/ (x = k /\ v \in Using)
<1> DEFINE F == Fan(k, how)
           c == rest \o F
<1>1. /\ F \in Seq(Job) /\ Len(F) = Len(setup) /\ Len(setup) \in Nat
      /\ \A i \in 1..Len(setup) : F[i][1] = k /\ F[i][2] = setup[i] /\ setup[i] \in Using
  BY FanProps
<1> HIDE DEF F
<1>2. /\ Len(c) = Len(rest) + Len(F) /\ Len(rest) \in Nat /\ Len(F) \in Nat
      /\ \A i \in 1..Len(rest) : i \in 1..Len(c) /\ c[i] = rest[i]
      /\ \A i \in 1..Len(F) : Len(rest) + i \in 1..Len(c) /\ c[Len(rest) + i] = F[i]
      /\ \A i \in 1..Len(c) : \/ i \in 1..Len(rest) /\ c[i] = rest[i]
                              \/ i - Len(rest) \in 1..Len(F) /\ c[i] = F[i - Len(rest)]
  <2>1. rest \in Seq(Job) /\ F \in Seq(Job)
    BY <1>1
  <2> QED
    BY <2>1, Concat
<1> HIDE DEF c
<1>3. /\ \A i, j \in 1..Len(setup) : setup[i] = setup[j] => i = j
      /\ \A v : v \in Using <=> \E i \in 1..Len(setup) : setup[i] = v
      /\ "facade" \notin Using
  BY Setup
<1>4. ASSUME NEW i \in 1..Len(rest), NEW j \in 1..Len(F)
      PROVE  ~(rest[i][1] = F[j][1] /\ rest[i][2] = F[j][2])
  <2>1. F[j][1] = k /\ F[j][2] \in Using /\ F[j][2] # "facade"
    BY <1>1, <1>3, <1>4
  <2> QED
    BY <2>1 DEF Has
<1>5. Unique(c)
  <2> SUFFICES ASSUME NEW i \in 1..Len(c), NEW j \in 1..Len(c), c[i][1] = c[j][1], c[i][2] = c[j][2]
               PROVE  i = j
    BY DEF Unique
  <2>1. CASE i \in 1..Len(rest) /\ j \in 1..Len(rest)
    <3>1. c[i] = rest[i] /\ c[j] = rest[j]
      BY <1>2, <2>1
    <3> QED
      BY <2>1, <3>1 DEF Unique
  <2>2. CASE i \in 1..Len(rest) /\ j \notin 1..Len(rest)
    <3>1. c[i] = rest[i] /\ j - Len(rest) \in 1..Len(F) /\ c[j] = F[j - Len(rest)]
      BY <1>2, <2>2
    <3>2. ~(rest[i][1] = F[j - Len(rest)][1] /\ rest[i][2] = F[j - Len(rest)][2])
      BY <1>4, <2>2, <3>1
    <3> QED
      BY <3>1, <3>2
  <2>3. CASE i \notin 1..Len(rest) /\ j \in 1..Len(rest)
    <3>1. c[j] = rest[j] /\ i - Len(rest) \in 1..Len(F) /\ c[i] = F[i - Len(rest)]
      BY <1>2, <2>3
    <3>2. ~(rest[j][1] = F[i - Len(rest)][1] /\ rest[j][2] = F[i - Len(rest)][2])
      BY <1>4, <2>3, <3>1
    <3> QED
      BY <3>1, <3>2
  <2>4. CASE i \notin 1..Len(rest) /\ j \notin 1..Len(rest)
    <3>1. /\ i - Len(rest) \in 1..Len(F) /\ c[i] = F[i - Len(rest)]
          /\ j - Len(rest) \in 1..Len(F) /\ c[j] = F[j - Len(rest)]
      BY <1>2, <2>4
    <3>2. PICK p, q \in 1..Len(setup) : p = i - Len(rest) /\ q = j - Len(rest)
      BY <1>1, <3>1
    <3>3. F[p][2] = setup[p] /\ F[q][2] = setup[q] /\ F[p][2] = F[q][2]
      BY <1>1, <3>1, <3>2
    <3>4. p = q
      <4>1. setup[p] = setup[q]
        BY <3>3
      <4> QED
        BY <1>3, <4>1
    <3>5. i \in Int /\ j \in Int /\ Len(rest) \in Nat
      BY <1>2
    <3> QED
      BY <3>2, <3>4, <3>5
  <2> QED
    BY <2>1, <2>2, <2>3, <2>4
<1>6. ASSUME NEW x, NEW v PROVE Has(c, x, v) <=> Has(rest, x, v) \/ (x = k /\ v \in Using)
  <2>1. ASSUME Has(c, x, v) PROVE Has(rest, x, v) \/ (x = k /\ v \in Using)
    <3>1. PICK i \in 1..Len(c) : c[i][1] = x /\ c[i][2] = v
      BY <2>1 DEF Has
    <3>2. CASE i \in 1..Len(rest) /\ c[i] = rest[i]
      BY <3>1, <3>2 DEF Has
    <3>3. CASE i - Len(rest) \in 1..Len(F) /\ c[i] = F[i - Len(rest)]
      <4>1. F[i - Len(rest)][1] = k /\ F[i - Len(rest)][2] \in Using
        BY <1>1, <3>3
      <4> QED
        BY <3>1, <3>3, <4>1
    <3> QED
      BY <1>2, <3>2, <3>3
  <2>2. ASSUME Has(rest, x, v) PROVE Has(c, x, v)
    BY <1>2, <2>2 DEF Has
  <2>3. ASSUME x = k, v \in Using PROVE Has(c, x, v)
    <3>1. PICK i \in 1..Len(F) : setup[i] = v
      BY <1>1, <1>3, <2>3
    <3>2. Len(rest) + i \in 1..Len(c) /\ c[Len(rest) + i] = F[i] /\ F[i][1] = k /\ F[i][2] = v
      BY <1>1, <1>2, <3>1
    <3> QED
      BY <2>3, <3>2 DEF Has
  <2> QED
    BY <2>1, <2>2, <2>3
<1> QED
  BY <1>5, <1>6 DEF c, F

LEMMA BaseInit == Init => BaseInv
<1> SUFFICES ASSUME Init PROVE BaseInv
  OBVIOUS
<1>1. TypeOK
  BY TypeInit
<1>2. /\ reached = <<>> /\ ToSet(<<>>) = {} /\ DOMAIN reached = {} /\ Len(jobs) = 0 /\ 1..0 = {}
      /\ jobs = <<>>
  <2>1. <<>> \in Seq(Calls) /\ Len(<<>>) = 0 /\ 1..0 = {}
    BY EmptySeq
  <2> QED
    BY <2>1, Members DEF Init
<1>3. CallsInv
  BY <1>2 DEF Init, CallsInv, IsInjective
<1>4. JobsInv /\ AskInv
  BY <1>2 DEF Init, JobsInv, Unique, AskInv
<1>5. EarlyInv
  BY <1>2 DEF Init, EarlyInv
<1> QED
  BY <1>1, <1>3, <1>4, <1>5 DEF BaseInv

(* Nothing names a call that is new. *)
LEMMA NewCall ==
    ASSUME BaseInv, called < MaxCalls
    PROVE  /\ called + 1 \in Calls /\ called \in Nat
           /\ pc[called + 1] = "none" /\ kind[called + 1] = "track" /\ pending[called + 1] = {}
           /\ called + 1 \notin ToSet(reached) /\ \A v : ~Waits(called + 1, v)
           /\ \A i \in 1..Len(jobs) : jobs[i][1] # called + 1
           /\ \A a \in asking : a[1] # called + 1
<1>1. called + 1 \in Calls /\ called \in Nat /\ called + 1 > called
  BY AdapterAssumption DEF BaseInv, TypeOK, Calls
<1>2. /\ pc[called + 1] = "none" /\ kind[called + 1] = "track" /\ pending[called + 1] = {}
      /\ called + 1 \notin ToSet(reached)
  BY <1>1 DEF BaseInv, CallsInv
<1>3. \A i \in 1..Len(jobs) : jobs[i][1] # called + 1
  BY <1>2 DEF BaseInv, JobsInv, Open
<1>4. \A a \in asking : a[1] # called + 1
  BY <1>2 DEF BaseInv, AskInv
<1> QED
  BY <1>1, <1>2, <1>3, <1>4 DEF Waits, Has

LEMMA ReachedMore ==
    ASSUME TypeOK, CallsInv, NEW k \in Calls, k \notin ToSet(reached),
           reached' = Append(reached, k)
    PROVE  /\ IsInjective(reached)' /\ \A x : x \in ToSet(reached)' <=> x \in ToSet(reached) \/ x = k
           /\ Len(reached) \in Nat /\ DOMAIN reached = 1..Len(reached)
           /\ DOMAIN reached' = 1..(Len(reached) + 1)
           /\ \A i \in DOMAIN reached : reached'[i] = reached[i] /\ i \in DOMAIN reached'
           /\ reached'[Len(reached) + 1] = k
           /\ \A i \in DOMAIN reached' : i \in DOMAIN reached \/ i = Len(reached) + 1
<1>1. /\ reached \in Seq(Calls) /\ reached' \in Seq(Calls) /\ Len(reached') = Len(reached) + 1
      /\ Len(reached) \in Nat
      /\ \A i \in 1..Len(reached) : i \in 1..(Len(reached) + 1) /\ reached'[i] = reached[i]
      /\ reached'[Len(reached) + 1] = k
      /\ \A i \in 1..(Len(reached) + 1) : i \in 1..Len(reached) \/ i = Len(reached) + 1
  BY Appended DEF TypeOK
<1>2. /\ DOMAIN reached = 1..Len(reached) /\ DOMAIN reached' = 1..Len(reached')
      /\ \A e : e \in ToSet(reached) <=> \E i \in 1..Len(reached) : reached[i] = e
      /\ \A e : e \in ToSet(reached') <=> \E i \in 1..Len(reached') : reached'[i] = e
  <2> DEFINE r == reached'
  <2>1. reached \in Seq(Calls) /\ r \in Seq(Calls)
    BY <1>1
  <2> HIDE DEF r
  <2>2. /\ DOMAIN reached = 1..Len(reached)
        /\ \A e : e \in ToSet(reached) <=> \E i \in 1..Len(reached) : reached[i] = e
    BY <2>1, Members
  <2>3. DOMAIN r = 1..Len(r) /\ \A e : e \in ToSet(r) <=> \E i \in 1..Len(r) : r[i] = e
    BY <2>1, Members
  <2> QED
    BY <2>2, <2>3 DEF r
<1>3. IsInjective(reached)'
  BY <1>1, <1>2 DEF CallsInv, IsInjective
<1>4. \A x : x \in ToSet(reached)' <=> x \in ToSet(reached) \/ x = k
  BY <1>1, <1>2
<1> QED
  BY <1>1, <1>2, <1>3, <1>4

(* The calls around one that changes its state. *)
LEMMA CallsStep ==
    ASSUME TypeOK, TypeOK', CallsInv, NEW k \in Calls,
           \A x \in Calls \ {k} : pc'[x] = pc[x] /\ kind'[x] = kind[x] /\ pending'[x] = pending[x],
           called' = called \/ (called' = called + 1 /\ k = called'),
           k > called' => pc'[k] = "none" /\ kind'[k] = "track",
           pc'[k] # "out" => pending'[k] = {},
           \/ reached' = reached
           \/ reached' = Append(reached, k) /\ k \notin ToSet(reached),
           k \in ToSet(reached)' => /\ pc'[k] \in {"out", "settled"}
                                    /\ kind'[k] \in {"identify", "track", "page", "reset"}
    PROVE  CallsInv'
<1>1. called \in Nat /\ called' \in Nat /\ called <= called' /\ Calls \subseteq Nat
  BY AdapterAssumption DEF TypeOK, Calls
<1>2. \A x \in Calls : x > called' => pc'[x] = "none" /\ kind'[x] = "track"
  <2> SUFFICES ASSUME NEW x \in Calls, x > called', x # k PROVE pc[x] = "none" /\ kind[x] = "track"
    OBVIOUS
  <2>1. x > called
    BY <1>1
  <2> QED
    BY <2>1 DEF CallsInv
<1>3. \A x \in Calls : pc'[x] # "out" => pending'[x] = {}
  BY DEF CallsInv
<1>4. IsInjective(reached)' /\ \A x : x \in ToSet(reached)' => x \in ToSet(reached) \/ x = k
  <2>1. CASE reached' = reached
    BY <2>1 DEF CallsInv
  <2>2. CASE reached' = Append(reached, k) /\ k \notin ToSet(reached)
    BY <2>2, ReachedMore
  <2> QED
    BY <2>1, <2>2
<1>5. \A x \in ToSet(reached)' : /\ pc'[x] \in {"out", "settled"}
                                 /\ kind'[x] \in {"identify", "track", "page", "reset"}
  <2> SUFFICES ASSUME NEW x \in ToSet(reached)', x # k
               PROVE  /\ pc'[x] \in {"out", "settled"}
                      /\ kind'[x] \in {"identify", "track", "page", "reset"}
    OBVIOUS
  <2>1. x \in ToSet(reached) /\ x \in Calls
    <3>1. x \in ToSet(reached) /\ reached \in Seq(Calls)
      BY <1>4 DEF TypeOK
    <3> QED
      BY <3>1, Members
  <2> QED
    BY <2>1 DEF CallsInv
<1> QED
  BY <1>2, <1>3, <1>4, <1>5 DEF CallsInv

LEMMA OpenStays ==
    ASSUME NEW j, Open(j), pc'[j[1]] = pc[j[1]], kind'[j[1]] = kind[j[1]],
           j[2] = "facade" \/ j[2] \in pending'[j[1]],
           j[1] \in ToSet(reached) => j[1] \in ToSet(reached)'
    PROVE  Open(j)'
  BY DEF Open, Plain

(* A call of the app that starts no job leaves the jobs as they are. *)
LEMMA JobsStay ==
    ASSUME BaseInv, called < MaxCalls, TypeOK', jobs' = jobs, reached' = reached,
           \A x \in Calls \ {called + 1} :
               pc'[x] = pc[x] /\ kind'[x] = kind[x] /\ pending'[x] = pending[x]
    PROVE  JobsInv'
<1>1. Unique(jobs)'
  BY DEF BaseInv, JobsInv, Unique
<1>2. ASSUME NEW i \in 1..Len(jobs) PROVE Open(jobs[i])'
  <2>1. PICK j : j = jobs[i]
    OBVIOUS
  <2>2. j[1] \in Calls /\ j[1] # called + 1 /\ Open(j)
    <3>1. j \in Job
      <4>1. jobs \in Seq(Job)
        BY JobsType DEF BaseInv
      <4> QED
        BY <1>2, <2>1, <4>1, ElementOfSeq
    <3> QED
      BY <1>2, <2>1, <3>1, NewCall, JobParts DEF BaseInv, JobsInv
  <2>3. j[2] = "facade" \/ j[2] \in pending'[j[1]]
    BY <2>2 DEF Open
  <2>4. Open(j)'
    BY <2>2, <2>3, OpenStays
  <2> QED
    BY <2>1, <2>4 DEF Open, Plain
<1> QED
  BY <1>1, <1>2 DEF JobsInv

LEMMA BaseInitEnds == BaseInv /\ TypeOK' /\ InitEnds => BaseInv'
<1> SUFFICES ASSUME BaseInv, TypeOK', InitEnds PROVE BaseInv'
  OBVIOUS
<1> USE DEF InitEnds, BaseInv
<1>1. CallsInv'
  BY DEF CallsInv
<1>2. JobsInv' /\ AskInv'
  BY DEF JobsInv, Unique, Open, Plain, AskInv, Waits, Has
<1>3. EarlyInv'
  BY DEF EarlyInv
<1> QED
  BY <1>1, <1>2, <1>3

LEMMA BaseIgnored ==
    ASSUME BaseInv, TypeOK', NEW how \in Kinds, Ignored(how)
    PROVE  BaseInv'
<1> DEFINE k == called + 1
<1>1. /\ called < MaxCalls /\ k = called + 1 /\ called' = k /\ kind' = [kind EXCEPT ![k] = how]
      /\ pc' = [pc EXCEPT ![k] = "settled"] /\ how \in {"identify", "track", "page", "reset"}
      /\ UNCHANGED <<setup, client, initialized, closed, stopped, pending, jobs, asking, reached, known>>
  BY DEF Ignored, New, facade
<1>2. /\ k \in Calls /\ pc[k] = "none" /\ kind[k] = "track" /\ pending[k] = {}
      /\ k \notin ToSet(reached) /\ called \in Nat
  BY <1>1, NewCall
<1>3. \A x \in Calls \ {k} : pc'[x] = pc[x] /\ kind'[x] = kind[x] /\ pending'[x] = pending[x]
  BY <1>1 DEF BaseInv, TypeOK
<1>4. pending'[k] = {} /\ k \notin ToSet(reached)' /\ ~(k > called') /\ kind'[k] = how
  BY <1>1, <1>2 DEF BaseInv, TypeOK
<1> HIDE DEF k
<1>5. CallsInv'
  BY <1>1, <1>2, <1>3, <1>4, CallsStep DEF BaseInv
<1>6. JobsInv'
  BY <1>1, <1>3, JobsStay DEF k
<1>7. AskInv'
  BY <1>1 DEF BaseInv, AskInv, Waits, Has
<1>8. EarlyInv'
  BY <1>1, <1>2, <1>3, <1>4 DEF BaseInv, EarlyInv, Using
<1> QED
  BY <1>5, <1>6, <1>7, <1>8 DEF BaseInv

(* A flush and a shutdown ask the vendors at once. *)
LEMMA BaseAsks ==
    ASSUME BaseInv, TypeOK', called < MaxCalls, NEW how \in {"flush", "stop"},
           called' = called + 1, kind' = [kind EXCEPT ![called + 1] = how], Asks(called + 1),
           jobs' = jobs, reached' = reached
    PROVE  CallsInv' /\ JobsInv' /\ AskInv'
<1> DEFINE k == called + 1
<1>1. /\ k \in Calls /\ pc[k] = "none" /\ kind[k] = "track" /\ pending[k] = {}
      /\ k \notin ToSet(reached) /\ called \in Nat /\ \A a \in asking : a[1] # k
      /\ \A v : ~Waits(k, v)
  BY NewCall
<1>2. /\ pending' = [pending EXCEPT ![k] = Flushing]
      /\ asking' = asking \cup {<<k, v, Given(v)>> : v \in Flushing}
      /\ pc' = [pc EXCEPT ![k] = IF Flushing = {} THEN "settled" ELSE "out"]
  BY DEF Asks
<1>3. \A x \in Calls \ {k} : pc'[x] = pc[x] /\ kind'[x] = kind[x] /\ pending'[x] = pending[x]
  BY <1>2 DEF BaseInv, TypeOK
<1>4. /\ k = called + 1 /\ pending'[k] = Flushing /\ k \notin ToSet(reached)' /\ ~(k > called')
      /\ pc'[k] # "out" => Flushing = {}
  BY <1>1, <1>2 DEF BaseInv, TypeOK
<1> HIDE DEF k
<1>5. CallsInv'
  BY <1>1, <1>3, <1>4, CallsStep DEF BaseInv
<1>6. JobsInv'
  BY <1>3, JobsStay DEF k
<1>7. AskInv'
  <2>1. ASSUME NEW a \in asking' PROVE a[2] \in pending'[a[1]] /\ ~Waits(a[1], a[2])'
    <3>1. CASE a \in asking
      <4>1. a[1] \in Calls \ {k}
        BY <1>1, <3>1 DEF BaseInv, TypeOK
      <4>2. a[2] \in pending[a[1]] /\ ~Waits(a[1], a[2])
        BY <3>1 DEF BaseInv, AskInv
      <4> QED
        BY <1>3, <4>1, <4>2 DEF Waits, Has
    <3>2. CASE a \notin asking
      <4>1. a[1] = k /\ a[2] \in Flushing
        BY <1>2, <2>1, <3>2
      <4> QED
        BY <1>1, <1>4, <4>1 DEF Waits, Has
    <3> QED
      BY <3>1, <3>2
  <2>2. ASSUME NEW a \in asking', NEW b \in asking', a[1] = b[1], a[2] = b[2] PROVE a = b
    <3>1. CASE a \in asking /\ b \in asking
      BY <2>2, <3>1 DEF BaseInv, AskInv
    <3>2. CASE a \notin asking \/ b \notin asking
      <4>1. a[1] = k
        BY <1>2, <2>2, <3>2
      <4>2. a \notin asking /\ b \notin asking
        BY <1>1, <2>2, <4>1
      <4>3. PICK v \in Flushing : a = <<k, v, Given(v)>>
        BY <1>2, <4>2
      <4>4. PICK w \in Flushing : b = <<k, w, Given(w)>>
        BY <1>2, <4>2
      <4> QED
        BY <2>2, <4>3, <4>4
    <3> QED
      BY <3>1, <3>2
  <2> QED
    BY <2>1, <2>2 DEF AskInv
<1> QED
  BY <1>5, <1>6, <1>7

LEMMA BaseFlush == ASSUME BaseInv, TypeOK', CallFlush PROVE BaseInv'
<1>1. /\ called < MaxCalls /\ called' = called + 1 /\ kind' = [kind EXCEPT ![called + 1] = "flush"]
      /\ Asks(called + 1)
      /\ UNCHANGED <<setup, client, initialized, closed, stopped, jobs, reached, known>>
  BY DEF CallFlush, New, facade
<1>2. CallsInv' /\ JobsInv' /\ AskInv'
  BY <1>1, BaseAsks
<1>3. EarlyInv'
  <2>1. (\E x \in Calls : kind'[x] = "stop") <=> (\E x \in Calls : kind[x] = "stop")
    <3>1. kind[called + 1] = "track" /\ called + 1 \in Calls
      BY <1>1, NewCall
    <3> QED
      BY <1>1, <3>1 DEF BaseInv, TypeOK
  <2> QED
    BY <1>1, <2>1 DEF BaseInv, EarlyInv, Using
<1> QED
  BY <1>2, <1>3 DEF BaseInv

LEMMA BaseStop == ASSUME BaseInv, TypeOK', CallStop PROVE BaseInv'
<1> DEFINE k == called + 1
<1>1. /\ called < MaxCalls /\ k = called + 1 /\ called' = k /\ kind' = [kind EXCEPT ![k] = "stop"]
      /\ stopped' = TRUE
      /\ UNCHANGED <<setup, client, jobs, reached>>
      /\ initialized \/ stopped
  BY DEF CallStop
<1>2. /\ k \in Calls /\ pc[k] = "none" /\ kind[k] = "track" /\ pending[k] = {}
      /\ k \notin ToSet(reached) /\ called \in Nat
  BY <1>1, NewCall
<1>3. \E x \in Calls : kind'[x] = "stop"
  BY <1>1, <1>2 DEF BaseInv, TypeOK
<1>4. CASE ~stopped
  <2>1. Asks(k) /\ initialized' = (Flushing # {}) /\ closed' = (Flushing = {})
    BY <1>4 DEF CallStop
  <2>2. CallsInv' /\ JobsInv' /\ AskInv'
    BY <1>1, <2>1, BaseAsks
  <2>3. EarlyInv'
    BY <1>1, <1>3, <2>1 DEF EarlyInv
  <2> QED
    BY <2>2, <2>3 DEF BaseInv
<1>5. CASE stopped
  <2>1. /\ pc' = [pc EXCEPT ![k] = "settled"] /\ UNCHANGED <<pending, asking, initialized, closed>>
    BY <1>5 DEF CallStop, facade
  <2>2. \A x \in Calls \ {k} : pc'[x] = pc[x] /\ kind'[x] = kind[x] /\ pending'[x] = pending[x]
    BY <1>1, <2>1 DEF BaseInv, TypeOK
  <2>3. pending'[k] = {} /\ k \notin ToSet(reached)' /\ ~(k > called')
    BY <1>1, <1>2, <2>1
  <2> HIDE DEF k
  <2>4. CallsInv'
    BY <1>1, <1>2, <2>2, <2>3, CallsStep DEF BaseInv
  <2>5. JobsInv'
    BY <1>1, <2>2, JobsStay DEF k
  <2>6. AskInv'
    BY <1>1, <2>1 DEF BaseInv, AskInv, Waits, Has
  <2>7. EarlyInv'
    BY <1>1, <1>3, <1>5, <2>1 DEF BaseInv, EarlyInv, Using
  <2> QED
    BY <2>4, <2>5, <2>6, <2>7 DEF BaseInv
<1> QED
  BY <1>4, <1>5

(* A fan-out puts a job for every adapter behind those that stay. *)
LEMMA BaseFan ==
    ASSUME BaseInv, TypeOK', NEW k \in Calls, NEW how \in {"identify", "track", "page", "reset"},
           NEW rest \in Seq(Job), FanOut(k, how, rest), k \notin ToSet(reached),
           Unique(rest), \A i \in 1..Len(rest) : \E j \in 1..Len(jobs) : rest[i] = jobs[j],
           \A x, v : Has(rest, x, v) => Waits(x, v) /\ x # k,
           kind'[k] = how, \A x \in Calls \ {k} : kind'[x] = kind[x],
           called' = called \/ (called' = called + 1 /\ k = called'), ~(k > called'),
           asking' = asking, \A a \in asking : a[1] # k
    PROVE  CallsInv' /\ JobsInv' /\ AskInv'
<1>1. TypeOK /\ how \in Kinds /\ setup \in Setups
  BY DEF BaseInv, TypeOK, Kinds
<1>2. /\ jobs' = rest \o Fan(k, how) /\ jobs' \in Seq(Job)
      /\ reached' = Append(reached, k)
      /\ pc' = [pc EXCEPT ![k] = IF Using = {} THEN "settled" ELSE "out"]
      /\ pending' = [pending EXCEPT ![k] = Using]
  <2>1. jobs' = rest \o Fan(k, how) /\ jobs' \in Seq(Job) /\ reached' = Append(reached, k)
    BY <1>1, FanOutType
  <2>2. /\ pc' = [pc EXCEPT ![k] = IF Using = {} THEN "settled" ELSE "out"]
        /\ pending' = [pending EXCEPT ![k] = Using]
    BY DEF FanOut
  <2> QED
    BY <2>1, <2>2
<1>3. /\ pc'[k] \in {"out", "settled"} /\ pending'[k] = Using /\ (pc'[k] # "out" => Using = {})
      /\ \A x \in Calls \ {k} : pc'[x] = pc[x] /\ kind'[x] = kind[x] /\ pending'[x] = pending[x]
  BY <1>1, <1>2 DEF TypeOK
<1>4. \A x : x \in ToSet(reached)' <=> x \in ToSet(reached) \/ x = k
  BY <1>1, <1>2, ReachedMore DEF BaseInv
<1>5. CallsInv'
  BY <1>1, <1>2, <1>3, CallsStep DEF BaseInv
<1>6. /\ Unique(jobs)'
      /\ \A x, v : Waits(x, v)' <=> Has(rest, x, v) \/ (x = k /\ v \in Using)
  <2>1. \A v : ~Has(rest, k, v) \/ v = "facade"
    OBVIOUS
  <2>2. /\ Unique(rest \o Fan(k, how))
        /\ \A x, v : Has(rest \o Fan(k, how), x, v) <=> Has(rest, x, v) \/ (x = k /\ v \in Using)
    BY <1>1, <2>1, FanHas
  <2>3. PICK s : s = jobs'
    OBVIOUS
  <2>4. Unique(s) /\ \A x, v : Has(s, x, v) <=> Has(rest, x, v) \/ (x = k /\ v \in Using)
    BY <1>2, <2>2, <2>3
  <2>5. Unique(jobs)' /\ \A x, v : Waits(x, v)' <=> Has(s, x, v)
    BY <2>3, <2>4 DEF Unique, Waits, Has
  <2> QED
    BY <2>4, <2>5
<1>7. ASSUME NEW i \in 1..Len(jobs') PROVE Open(jobs[i])'
  <2> DEFINE F == Fan(k, how)
  <2>1. /\ F \in Seq(Job) /\ Len(F) = Len(setup)
        /\ \A m \in 1..Len(setup) :
             /\ F[m][1] = k /\ F[m][2] = setup[m] /\ setup[m] \in Using
             /\ (how = "page" => Adapter[setup[m]].pageAwaits = 1) => F[m][3] = 0
    BY <1>1, FanProps
  <2> HIDE DEF F
  <2>2. PICK j : j = jobs'[i]
    OBVIOUS
  <2>3. (\E m \in 1..Len(rest) : j = rest[m]) \/ (\E m \in 1..Len(F) : j = F[m])
    <3>1. jobs' = rest \o F
      BY <1>2 DEF F
    <3>2. \A m \in 1..Len(rest \o F) : \/ m \in 1..Len(rest) /\ (rest \o F)[m] = rest[m]
                                       \/ m - Len(rest) \in 1..Len(F) /\ (rest \o F)[m] = F[m - Len(rest)]
      BY <2>1, Concat
    <3> QED
      BY <1>7, <2>2, <3>1, <3>2
  <2>4. CASE \E m \in 1..Len(rest) : j = rest[m]
    <3>1. PICK m \in 1..Len(jobs) : j = jobs[m]
      BY <2>4
    <3>2. Open(j) /\ j \in Job
      <4>1. jobs \in Seq(Job)
        BY <1>1, JobsType
      <4> QED
        BY <3>1, <4>1, ElementOfSeq DEF BaseInv, JobsInv
    <3>3. j[1] \in Calls \ {k}
      BY <2>4, <3>2, JobParts DEF Has
    <3>4. j[2] = "facade" \/ j[2] \in pending'[j[1]]
      BY <1>3, <3>2, <3>3 DEF Open
    <3>5. Open(j)'
      BY <1>3, <1>4, <3>2, <3>3, <3>4, OpenStays
    <3> QED
      BY <2>2, <3>5 DEF Open, Plain
  <2>5. CASE \E m \in 1..Len(F) : j = F[m]
    <3>1. PICK m \in 1..Len(setup) : j = F[m]
      BY <2>1, <2>5
    <3>2. /\ j[1] = k /\ j[2] \in Using
          /\ (how = "page" => Adapter[j[2]].pageAwaits = 1) => j[3] = 0
      BY <2>1, <3>1
    <3>3. j[2] # "facade"
      BY <1>1, <3>2, Setup
    <3>4. Open(j)'
      BY <1>3, <1>4, <3>2, <3>3 DEF Open, Plain
    <3> QED
      BY <2>2, <3>4 DEF Open, Plain
  <2> QED
    BY <2>3, <2>4, <2>5
<1>8. JobsInv'
  BY <1>6, <1>7 DEF JobsInv
<1>9. AskInv'
  <2>1. ASSUME NEW a \in asking PROVE a[2] \in pending'[a[1]] /\ ~Waits(a[1], a[2])'
    <3>1. a[1] \in Calls \ {k} /\ a[2] \in pending[a[1]] /\ ~Waits(a[1], a[2])
      BY <1>1 DEF BaseInv, TypeOK, AskInv
    <3> QED
      BY <1>3, <1>6, <3>1
  <2> QED
    BY <2>1 DEF BaseInv, AskInv
<1> QED
  BY <1>5, <1>8, <1>9

LEMMA BaseCallOut ==
    ASSUME BaseInv, TypeOK', NEW how \in Kinds, CallOut(how)
    PROVE  BaseInv'
<1> DEFINE k == called + 1
<1>1. /\ called < MaxCalls /\ k = called + 1 /\ called' = k /\ kind' = [kind EXCEPT ![k] = how]
      /\ how \in {"identify", "track", "page", "reset"} /\ initialized /\ FanOut(k, how, jobs)
      /\ UNCHANGED <<setup, client, initialized, closed, stopped, asking>>
  BY DEF CallOut, New, facade
<1>2. /\ k \in Calls /\ pc[k] = "none" /\ kind[k] = "track" /\ pending[k] = {}
      /\ k \notin ToSet(reached) /\ called \in Nat /\ \A a \in asking : a[1] # k
      /\ \A v : ~Waits(k, v)
  BY <1>1, NewCall
<1>3. kind'[k] = how /\ ~(k > called') /\ \A x \in Calls \ {k} : kind'[x] = kind[x]
  BY <1>1, <1>2 DEF BaseInv, TypeOK
<1>4. jobs \in Seq(Job) /\ Unique(jobs) /\ \A i \in 1..Len(jobs) : \E j \in 1..Len(jobs) : jobs[i] = jobs[j]
  <2>1. jobs \in Seq(Job) /\ Unique(jobs)
    BY JobsType DEF BaseInv, JobsInv
  <2>2. \A i \in 1..Len(jobs) : \E j \in 1..Len(jobs) : jobs[i] = jobs[j]
    OBVIOUS
  <2> QED
    BY <2>1, <2>2
<1>5. \A x, v : Has(jobs, x, v) => Waits(x, v) /\ x # k
  BY <1>2 DEF Waits
<1> HIDE DEF k
<1>6. CallsInv' /\ JobsInv' /\ AskInv'
  <2>1. /\ FanOut(k, how, jobs) /\ asking' = asking /\ k \in Calls /\ k \notin ToSet(reached)
        /\ how \in {"identify", "track", "page", "reset"} /\ \A a \in asking : a[1] # k
        /\ called' = called + 1 /\ k = called'
    BY <1>1, <1>2
  <2> QED
    BY <1>3, <1>4, <1>5, <2>1, BaseFan
<1>7. EarlyInv'
  BY <1>1, <1>2, <1>3 DEF BaseInv, EarlyInv
<1> QED
  BY <1>6, <1>7 DEF BaseInv

LEMMA BaseContext ==
    ASSUME BaseInv, TypeOK', NEW k \in Calls, ContextThere(k)
    PROVE  BaseInv'
<1>1. /\ jobs # <<>> /\ FanOut(k, "identify", Tail(jobs)) /\ jobs[1][1] = k /\ jobs[1][2] = "facade"
      /\ UNCHANGED <<setup, client, called, kind, initialized, closed, stopped, asking>>
  BY ResumesFirst DEF ContextThere, Resumes, app, facade, BaseInv
<1>2. /\ Tail(jobs) \in Seq(Job) /\ 1 \in 1..Len(jobs)
      /\ \A i \in 1..Len(Tail(jobs)) : \E j \in 1..Len(jobs) : Tail(jobs)[i] = jobs[j]
  BY <1>1, Queue DEF BaseInv
<1>3. pc[k] = "context" /\ kind[k] = "identify"
  BY <1>1, <1>2 DEF BaseInv, JobsInv, Open
<1>4. k \notin ToSet(reached) /\ pending[k] = {} /\ ~(k > called) /\ (\A a \in asking : a[1] # k)
  BY <1>3 DEF BaseInv, CallsInv, AskInv
<1>5. /\ Unique(Tail(jobs))
      /\ \A x, v : Has(Tail(jobs), x, v) => Waits(x, v) /\ x # k
  <2>1. ASSUME NEW v, Waits(k, v), v # "facade" PROVE FALSE
    <3>1. PICK i \in 1..Len(jobs) : jobs[i][1] = k /\ jobs[i][2] = v
      BY <2>1 DEF Waits, Has
    <3> QED
      BY <1>4, <2>1, <3>1 DEF BaseInv, JobsInv, Open
  <2> QED
    BY <1>1, <2>1, TailHas DEF BaseInv
<1>6. CallsInv' /\ JobsInv' /\ AskInv'
  BY <1>1, <1>2, <1>3, <1>4, <1>5, BaseFan
<1>7. EarlyInv'
  BY <1>1 DEF BaseInv, EarlyInv
<1> QED
  BY <1>6, <1>7 DEF BaseInv

(* An await more moves a job to the end of the queue and changes nothing   *)
(* else about it.                                                          *)
LEMMA AgainHas ==
    ASSUME TypeOK, JobsInv, AwaitsAgain
    PROVE  /\ jobs # <<>> /\ Unique(jobs)' /\ \A x, v : Waits(x, v)' <=> Waits(x, v)
           /\ Len(jobs) \in Nat /\ Len(jobs) # 0 /\ Len(jobs') = Len(jobs) /\ jobs[1][3] # 0
           /\ \A i \in 1..Len(jobs) : i # Len(jobs) => i + 1 \in 1..Len(jobs) /\ jobs'[i] = jobs[i + 1]
           /\ jobs'[Len(jobs)] = <<jobs[1][1], jobs[1][2], jobs[1][3] - 1>>
<1> DEFINE j == <<jobs[1][1], jobs[1][2], jobs[1][3] - 1>>
           n == Len(jobs)
<1>1. jobs # <<>> /\ j \in Job /\ jobs' = Append(Tail(jobs), j) /\ jobs[1][3] # 0
  BY AwaitsAgainJobs
<1>2. /\ 1 \in 1..n /\ n \in Nat /\ Len(Tail(jobs)) = n - 1 /\ Tail(jobs) \in Seq(Job)
      /\ \A i \in 1..Len(Tail(jobs)) : i + 1 \in 1..n /\ Tail(jobs)[i] = jobs[i + 1]
  BY <1>1, Queue
<1>3. j[1] = jobs[1][1] /\ j[2] = jobs[1][2]
  OBVIOUS
<1> HIDE DEF j
<1>4. /\ Len(jobs') = n /\ jobs'[n] = j
      /\ \A i \in 1..n : i # n => i + 1 \in 1..n /\ jobs'[i] = jobs[i + 1]
  <2>1. /\ Len(Append(Tail(jobs), j)) = Len(Tail(jobs)) + 1
        /\ \A i \in 1..Len(Tail(jobs)) : Append(Tail(jobs), j)[i] = Tail(jobs)[i]
        /\ Append(Tail(jobs), j)[Len(Tail(jobs)) + 1] = j
    BY <1>1, <1>2, Appended
  <2>2. Len(jobs') = n /\ jobs'[n] = j
    BY <1>1, <1>2, <2>1
  <2>3. ASSUME NEW i \in 1..n, i # n PROVE i + 1 \in 1..n /\ jobs'[i] = jobs[i + 1]
    <3>1. PICK m : m = Len(Tail(jobs)) /\ m = n - 1 /\ n \in Nat
      BY <1>2
    <3> HIDE DEF n
    <3>2. i \in 1..m
      BY <2>3, <3>1
    <3>3. i \in 1..Len(Tail(jobs))
      BY <3>1, <3>2
    <3> QED
      BY <1>1, <1>2, <2>1, <3>3
  <2> QED
    BY <2>2, <2>3
<1> HIDE DEF n
<1>5. Unique(jobs)'
  <2> SUFFICES ASSUME NEW a \in 1..n, NEW b \in 1..n,
                      jobs'[a][1] = jobs'[b][1], jobs'[a][2] = jobs'[b][2]
               PROVE  a = b
    BY <1>4 DEF Unique
  <2>1. \A x, y \in 1..n : jobs[x][1] = jobs[y][1] /\ jobs[x][2] = jobs[y][2] => x = y
    BY DEF JobsInv, Unique, n
  <2>2. CASE a # n /\ b # n
    <3>1. a + 1 \in 1..n /\ b + 1 \in 1..n /\ jobs'[a] = jobs[a + 1] /\ jobs'[b] = jobs[b + 1]
      BY <1>4, <2>2
    <3>2. a + 1 = b + 1
      BY <2>1, <3>1
    <3> QED
      BY <1>2, <3>2
  <2>3. CASE a # n /\ b = n
    <3>1. a + 1 \in 1..n /\ jobs'[a] = jobs[a + 1] /\ jobs'[b] = j
      BY <1>4, <2>3
    <3>2. a + 1 = 1
      BY <1>2, <1>3, <2>1, <3>1
    <3> QED
      BY <1>2, <3>2
  <2>4. CASE a = n /\ b # n
    <3>1. b + 1 \in 1..n /\ jobs'[b] = jobs[b + 1] /\ jobs'[a] = j
      BY <1>4, <2>4
    <3>2. b + 1 = 1
      BY <1>2, <1>3, <2>1, <3>1
    <3> QED
      BY <1>2, <3>2
  <2> QED
    BY <2>2, <2>3, <2>4
<1>6. ASSUME NEW x, NEW v PROVE Waits(x, v)' <=> Waits(x, v)
  <2>1. ASSUME Waits(x, v)' PROVE Waits(x, v)
    <3>1. PICK i \in 1..n : jobs'[i][1] = x /\ jobs'[i][2] = v
      BY <1>4, <2>1 DEF Waits, Has
    <3>2. CASE i = n
      BY <1>2, <1>3, <1>4, <3>1, <3>2 DEF Waits, Has, n
    <3>3. CASE i # n
      BY <1>4, <3>1, <3>3 DEF Waits, Has, n
    <3> QED
      BY <3>2, <3>3
  <2>2. ASSUME Waits(x, v) PROVE Waits(x, v)'
    <3>1. PICK i \in 1..n : jobs[i][1] = x /\ jobs[i][2] = v
      BY <2>2 DEF Waits, Has, n
    <3>2. CASE i = 1
      <4>1. n \in 1..n /\ jobs'[n][1] = x /\ jobs'[n][2] = v
        BY <1>2, <1>3, <1>4, <3>1, <3>2
      <4> QED
        BY <1>4, <4>1 DEF Waits, Has
    <3>3. CASE i # 1
      <4>1. i - 1 \in 1..n /\ i - 1 # n /\ i - 1 + 1 = i
        BY <1>2, <3>1, <3>3
      <4>2. jobs'[i - 1] = jobs[i]
        BY <1>4, <4>1
      <4> QED
        BY <1>4, <3>1, <4>1, <4>2 DEF Waits, Has
    <3> QED
      BY <3>2, <3>3
  <2> QED
    BY <2>1, <2>2
<1>7. n # 0 /\ n \in Nat
  BY <1>2
<1> QED
  BY <1>1, <1>4, <1>5, <1>6, <1>7 DEF n, j

LEMMA BaseAgain == ASSUME BaseInv, TypeOK', AwaitsAgain PROVE BaseInv'
<1> DEFINE n == Len(jobs)
<1>1. /\ jobs # <<>> /\ Unique(jobs)' /\ \A x, v : Waits(x, v)' <=> Waits(x, v)
      /\ n \in Nat /\ Len(jobs') = n /\ jobs[1][3] # 0 /\ n # 0
      /\ \A i \in 1..n : i # n => i + 1 \in 1..n /\ jobs'[i] = jobs[i + 1]
      /\ jobs'[n] = <<jobs[1][1], jobs[1][2], jobs[1][3] - 1>>
  BY AgainHas DEF BaseInv
<1>2. UNCHANGED <<setup, client, called, kind, initialized, closed, stopped, pc, pending, asking, reached>>
  BY DEF AwaitsAgain, app, facade
<1> HIDE DEF n
<1>3. ASSUME NEW i \in 1..n PROVE Open(jobs[i])'
  <2>1. CASE i # n
    <3>1. PICK j : j = jobs'[i] /\ Open(j)
      BY <1>1, <1>3, <2>1 DEF BaseInv, JobsInv, n
    <3> QED
      BY <1>2, <3>1 DEF Open, Plain
  <2>2. CASE i = n
    <3>1. PICK j, h : j = jobs'[i] /\ h = jobs[1] /\ j = <<h[1], h[2], h[3] - 1>> /\ h[3] # 0
      BY <1>1, <2>2
    <3>2. Open(h) /\ j[1] = h[1] /\ j[2] = h[2]
      BY <1>1, <3>1 DEF BaseInv, JobsInv, n
    <3>3. Open(j)
      BY <3>1, <3>2 DEF Open
    <3> QED
      BY <1>2, <3>1, <3>3 DEF Open, Plain
  <2> QED
    BY <2>1, <2>2
<1>4. JobsInv'
  BY <1>1, <1>3 DEF JobsInv
<1>5. AskInv'
  BY <1>1, <1>2 DEF BaseInv, AskInv
<1>6. CallsInv' /\ EarlyInv'
  BY <1>1, <1>2 DEF BaseInv, CallsInv, EarlyInv, Using
<1> QED
  BY <1>4, <1>5, <1>6 DEF BaseInv

(* An adapter's promise for a call settles. *)
LEMMA BaseSettle ==
    ASSUME BaseInv, TypeOK', NEW k \in Calls, NEW v \in pending[k], Settle(k, v),
           UNCHANGED <<called, kind, reached>>, Unique(jobs)',
           \A i \in 1..Len(jobs') : \E j \in 1..Len(jobs) : jobs'[i] = jobs[j],
           \A x, w : Waits(x, w)' => Waits(x, w) /\ ~(x = k /\ w = v),
           asking' \subseteq asking, \A a \in asking' : ~(a[1] = k /\ a[2] = v)
    PROVE  CallsInv' /\ JobsInv' /\ AskInv'
<1>1. /\ pending'[k] = pending[k] \ {v}
      /\ pc'[k] = IF pending'[k] = {} THEN "settled" ELSE pc[k]
      /\ \A x \in Calls \ {k} : pc'[x] = pc[x] /\ kind'[x] = kind[x] /\ pending'[x] = pending[x]
  BY DEF Settle, BaseInv, TypeOK
<1>2. pc[k] = "out"
  BY DEF BaseInv, CallsInv
<1>3. k <= called /\ called \in Nat /\ k \in Nat
  <2>1. called \in Nat /\ k \in Nat
    BY AdapterAssumption DEF BaseInv, TypeOK, Calls
  <2> QED
    BY <1>2, <2>1 DEF BaseInv, CallsInv
<1>4. CallsInv'
  <2>1. /\ pc'[k] # "out" => pending'[k] = {}
        /\ pc'[k] \in {"out", "settled"} /\ ~(k > called')
    BY <1>1, <1>2, <1>3
  <2>2. k \in ToSet(reached)' => kind'[k] \in {"identify", "track", "page", "reset"}
    BY DEF BaseInv, CallsInv
  <2> QED
    BY <1>1, <2>1, <2>2, CallsStep DEF BaseInv
<1>5. ASSUME NEW x \in Calls, NEW w \in pending[x], ~(x = k /\ w = v) PROVE w \in pending'[x]
  BY <1>1, <1>5
<1>6. ASSUME NEW i \in 1..Len(jobs') PROVE Open(jobs[i])'
  <2>1. PICK j : j = jobs'[i] /\ \E m \in 1..Len(jobs) : j = jobs[m]
    BY <1>6
  <2>2. Open(j) /\ j[1] \in Calls /\ ~(j[1] = k /\ j[2] = v)
    <3>1. j \in Job
      <4>1. jobs \in Seq(Job)
        BY JobsType DEF BaseInv
      <4> QED
        BY <2>1, <4>1, ElementOfSeq
    <3>2. Waits(j[1], j[2])'
      BY <1>6, <2>1 DEF Waits, Has
    <3> QED
      BY <2>1, <3>1, <3>2, JobParts DEF BaseInv, JobsInv
  <2>3. Open(j)'
    <3>1. CASE j[2] = "facade"
      BY <1>1, <1>2, <2>2, <3>1 DEF Open
    <3>2. CASE j[2] # "facade"
      BY <1>5, <2>2, <3>2 DEF Open, Plain
    <3> QED
      BY <3>1, <3>2
  <2> QED
    BY <2>1, <2>3 DEF Open, Plain
<1>7. JobsInv'
  BY <1>6 DEF JobsInv
<1>8. AskInv'
  <2>1. ASSUME NEW a \in asking' PROVE a[2] \in pending'[a[1]] /\ ~Waits(a[1], a[2])'
    <3>1. a[2] \in pending[a[1]] /\ ~Waits(a[1], a[2]) /\ a[1] \in Calls
      BY <2>1 DEF BaseInv, AskInv, TypeOK
    <3> QED
      BY <1>5, <3>1
  <2> QED
    BY <2>1 DEF BaseInv, AskInv
<1> QED
  BY <1>4, <1>7, <1>8

LEMMA BaseIdentify == ASSUME BaseInv, TypeOK', CallIdentify PROVE BaseInv'
<1> DEFINE k == called + 1
           j == <<k, "facade", 1>>
           n == Len(jobs)
<1>1. /\ called < MaxCalls /\ k = called + 1 /\ called' = k /\ kind' = [kind EXCEPT ![k] = "identify"]
      /\ pc' = [pc EXCEPT ![k] = "context"] /\ jobs' = Append(jobs, j) /\ initialized
      /\ UNCHANGED <<setup, client, initialized, closed, stopped, pending, asking, reached>>
  BY DEF CallIdentify, New, facade
<1>2. /\ k \in Calls /\ pc[k] = "none" /\ kind[k] = "track" /\ pending[k] = {}
      /\ k \notin ToSet(reached) /\ called \in Nat /\ \A a \in asking : a[1] # k
      /\ \A v : ~Waits(k, v)
      /\ \A i \in 1..n : jobs[i][1] # k
  BY <1>1, NewCall
<1>3. \A x \in Calls \ {k} : pc'[x] = pc[x] /\ kind'[x] = kind[x] /\ pending'[x] = pending[x]
  BY <1>1 DEF BaseInv, TypeOK
<1>4. pc'[k] = "context" /\ kind'[k] = "identify" /\ pending'[k] = {} /\ ~(k > called')
  BY <1>1, <1>2 DEF BaseInv, TypeOK
<1>5. j \in Job /\ j[1] = k /\ j[2] = "facade"
  BY <1>2 DEF Job
<1> HIDE DEF k, j
<1>6. /\ Len(jobs') = n + 1 /\ n \in Nat /\ jobs'[n + 1] = j
      /\ \A i \in 1..n : i \in 1..(n + 1) /\ jobs'[i] = jobs[i]
      /\ \A i \in 1..(n + 1) : i \in 1..n \/ i = n + 1
  <2>1. jobs \in Seq(Job)
    BY JobsType DEF BaseInv
  <2> QED
    BY <1>1, <1>5, <2>1, Appended
<1>7. jobs \in Seq(Job)
  BY JobsType DEF BaseInv
<1> HIDE DEF n
<1>8. CallsInv'
  BY <1>1, <1>2, <1>3, <1>4, CallsStep DEF BaseInv
<1>9. Unique(jobs)'
  <2>1. \A x, y \in 1..n : jobs[x][1] = jobs[y][1] /\ jobs[x][2] = jobs[y][2] => x = y
    BY DEF BaseInv, JobsInv, Unique, n
  <2> SUFFICES ASSUME NEW x \in 1..(n + 1), NEW y \in 1..(n + 1),
                      jobs'[x][1] = jobs'[y][1], jobs'[x][2] = jobs'[y][2]
               PROVE  x = y
    BY <1>6 DEF Unique
  <2>2. CASE x \in 1..n /\ y \in 1..n
    <3>1. jobs'[x] = jobs[x] /\ jobs'[y] = jobs[y]
      BY <1>6, <2>2
    <3> QED
      BY <2>1, <2>2, <3>1
  <2>3. CASE x \in 1..n /\ y = n + 1
    <3>1. jobs'[x][1] # k
      BY <1>2, <1>6, <2>3
    <3> QED
      BY <1>5, <1>6, <2>3, <3>1
  <2>4. CASE x = n + 1 /\ y \in 1..n
    <3>1. jobs'[y][1] # k
      BY <1>2, <1>6, <2>4
    <3> QED
      BY <1>5, <1>6, <2>4, <3>1
  <2> QED
    BY <1>6, <2>2, <2>3, <2>4
<1>10. ASSUME NEW i \in 1..(n + 1) PROVE Open(jobs[i])'
  <2>1. CASE i = n + 1
    <3>1. PICK h : h = jobs'[i] /\ h[1] = k /\ h[2] = "facade"
      BY <1>5, <1>6, <2>1
    <3> QED
      BY <1>4, <3>1 DEF Open
  <2>2. CASE i # n + 1
    <3>1. PICK h : h = jobs'[i] /\ h = jobs[i] /\ i \in 1..n
      BY <1>6, <1>10, <2>2
    <3>2. h[1] \in Calls \ {k} /\ Open(h)
      <4>1. h \in Job
        BY <1>7, <3>1, ElementOfSeq DEF n
      <4> QED
        BY <1>2, <3>1, <4>1, JobParts DEF BaseInv, JobsInv, n
    <3>3. h[2] = "facade" \/ h[2] \in pending'[h[1]]
      BY <1>3, <3>2 DEF Open
    <3>4. Open(h)'
      BY <1>1, <1>3, <3>2, <3>3, OpenStays
    <3> QED
      BY <3>1, <3>4 DEF Open, Plain
  <2> QED
    BY <2>1, <2>2
<1>11. JobsInv'
  BY <1>6, <1>9, <1>10 DEF JobsInv
<1>12. AskInv'
  <2>1. ASSUME NEW a \in asking PROVE ~Waits(a[1], a[2])'
    <3>1. a[1] # k /\ ~Waits(a[1], a[2])
      BY <1>2 DEF BaseInv, AskInv
    <3> QED
      BY <1>5, <1>6, <3>1 DEF Waits, Has, n
  <2> QED
    BY <1>1, <2>1 DEF BaseInv, AskInv
<1>13. EarlyInv'
  BY <1>1, <1>2, <1>3, <1>4 DEF BaseInv, EarlyInv
<1> QED
  BY <1>8, <1>11, <1>12, <1>13 DEF BaseInv

(* What an adapter that forwards finds, and what waits after it. *)
LEMMA ForwardsHas ==
    ASSUME BaseInv, NEW k \in Calls, NEW v \in Using, Forwards(k, v)
    PROVE  /\ jobs # <<>> /\ 1 \in 1..Len(jobs) /\ jobs[1][1] = k /\ jobs[1][2] = v /\ jobs[1][3] = 0
           /\ Waits(k, v) /\ v # "facade" /\ k \in ToSet(reached) /\ v \in pending[k] /\ pc[k] = "out"
           /\ jobs' = Tail(jobs) /\ Len(Tail(jobs)) = Len(jobs) - 1 /\ Len(jobs) \in Nat
           /\ \A i \in 1..Len(jobs') : i + 1 \in 1..Len(jobs) /\ jobs'[i] = jobs[i + 1]
           /\ Unique(jobs)' /\ \A x, w : Waits(x, w)' <=> Waits(x, w) /\ ~(x = k /\ w = v)
<1>1. /\ jobs # <<>> /\ jobs[1] = <<k, v, 0>> /\ jobs' = Tail(jobs)
  BY ResumesFirst DEF Forwards, BaseInv
<1>2. /\ 1 \in 1..Len(jobs) /\ Len(Tail(jobs)) = Len(jobs) - 1 /\ Len(jobs) \in Nat
      /\ \A i \in 1..Len(Tail(jobs)) : i + 1 \in 1..Len(jobs) /\ Tail(jobs)[i] = jobs[i + 1]
  BY <1>1, Queue DEF BaseInv
<1>3. jobs[1][1] = k /\ jobs[1][2] = v /\ jobs[1][3] = 0
  BY <1>1
<1>4. Waits(k, v)
  BY <1>2, <1>3 DEF Waits, Has
<1>5. v # "facade"
  BY Setup DEF BaseInv, TypeOK
<1>6. k \in ToSet(reached) /\ v \in pending[k]
  BY <1>2, <1>3, <1>5 DEF BaseInv, JobsInv, Open
<1>7. pc[k] = "out"
  BY <1>6 DEF BaseInv, CallsInv
<1>8. Unique(Tail(jobs)) /\ \A x, w : Has(Tail(jobs), x, w) <=> Waits(x, w) /\ ~(x = k /\ w = v)
  BY <1>1, <1>3, TailHas DEF BaseInv
<1>9. Unique(jobs)' /\ \A x, w : Waits(x, w)' <=> Waits(x, w) /\ ~(x = k /\ w = v)
  BY <1>1, <1>8 DEF Unique, Waits, Has
<1>10. \A i \in 1..Len(jobs') : i + 1 \in 1..Len(jobs) /\ jobs'[i] = jobs[i + 1]
  BY <1>1, <1>2
<1> QED
  BY <1>1, <1>2, <1>3, <1>4, <1>5, <1>6, <1>7, <1>9, <1>10

LEMMA BaseForwards ==
    ASSUME BaseInv, TypeOK', NEW k \in Calls, NEW v \in Using, Forwards(k, v)
    PROVE  BaseInv'
<1>1. /\ Waits(k, v) /\ v \in pending[k] /\ pc[k] = "out" /\ k \in ToSet(reached)
      /\ \A i \in 1..Len(jobs') : i + 1 \in 1..Len(jobs) /\ jobs'[i] = jobs[i + 1]
      /\ Unique(jobs)' /\ \A x, w : Waits(x, w)' <=> Waits(x, w) /\ ~(x = k /\ w = v)
  BY ForwardsHas
<1>2. UNCHANGED <<setup, client, called, kind, initialized, closed, stopped, reached>>
  BY DEF Forwards, app, facade
<1>3. \A i \in 1..Len(jobs') : \E j \in 1..Len(jobs) : jobs'[i] = jobs[j]
  BY <1>1
<1>4. EarlyInv'
  <2>1. ~(~initialized /\ ~closed)
    BY ForwardsHas DEF BaseInv, EarlyInv
  <2> QED
    BY <1>2, <2>1 DEF BaseInv, EarlyInv
<1>5. \A a \in asking : ~(a[1] = k /\ a[2] = v)
  BY <1>1 DEF BaseInv, AskInv
<1>6. CallsInv' /\ JobsInv' /\ AskInv'
  <2>1. CASE Settle(k, v) /\ asking' = asking
    BY <1>1, <1>2, <1>3, <1>5, <2>1, BaseSettle
  <2>2. CASE /\ UNCHANGED <<pc, pending>>
             /\ \/ asking' = asking
                \/ \E S : asking' = asking \cup {<<k, v, S>>}
    <3>1. CallsInv'
      BY <1>2, <2>2 DEF BaseInv, CallsInv
    <3>2. ASSUME NEW i \in 1..Len(jobs') PROVE Open(jobs[i])'
      <4>1. PICK j : j = jobs'[i] /\ Open(j)
        BY <1>3, <3>2 DEF BaseInv, JobsInv
      <4> QED
        BY <1>2, <2>2, <4>1 DEF Open, Plain
    <3>3. JobsInv'
      BY <1>1, <3>2 DEF JobsInv
    <3>4. AskInv'
      <4>1. CASE asking' = asking
        BY <1>1, <2>2, <4>1 DEF BaseInv, AskInv
      <4>2. ASSUME NEW S, asking' = asking \cup {<<k, v, S>>} PROVE AskInv'
        <5>1. ASSUME NEW a \in asking' PROVE a[2] \in pending'[a[1]] /\ ~Waits(a[1], a[2])'
          <6>1. CASE a \in asking
            BY <1>1, <2>2, <6>1 DEF BaseInv, AskInv
          <6>2. CASE a = <<k, v, S>>
            BY <1>1, <2>2, <6>2
          <6> QED
            BY <4>2, <5>1, <6>1, <6>2
        <5>2. ASSUME NEW a \in asking', NEW b \in asking', a[1] = b[1], a[2] = b[2] PROVE a = b
          <6>1. CASE a \in asking /\ b \in asking
            BY <5>2, <6>1 DEF BaseInv, AskInv
          <6>2. CASE a \notin asking
            <7>1. a[1] = k /\ a[2] = v /\ a = <<k, v, S>>
              BY <4>2, <5>2, <6>2
            <7> QED
              BY <1>5, <4>2, <5>2, <7>1
          <6>3. CASE b \notin asking
            <7>1. b[1] = k /\ b[2] = v /\ b = <<k, v, S>>
              BY <4>2, <5>2, <6>3
            <7> QED
              BY <1>5, <4>2, <5>2, <7>1
          <6> QED
            BY <6>1, <6>2, <6>3
        <5> QED
          BY <5>1, <5>2 DEF AskInv
      <4> QED
        BY <2>2, <4>1, <4>2
    <3> QED
      BY <3>1, <3>3, <3>4
  <2> QED
    BY <2>1, <2>2 DEF Forwards
<1> QED
  BY <1>4, <1>6 DEF BaseInv

LEMMA BaseAnswers ==
    ASSUME BaseInv, TypeOK', NEW k \in Calls, NEW v \in Using, NEW S, Answers(k, v, S)
    PROVE  BaseInv'
<1>1. /\ <<k, v, S>> \in asking /\ asking' = asking \ {<<k, v, S>>} /\ Settle(k, v)
      /\ UNCHANGED <<setup, client, called, kind, stopped, jobs, reached>>
      /\ (initialized' = FALSE /\ closed' = TRUE) \/ UNCHANGED <<initialized, closed>>
  BY DEF Answers, app, facade
<1>2. v \in pending[k] /\ ~Waits(k, v) /\ \A a \in asking' : ~(a[1] = k /\ a[2] = v)
  <2>1. \A a \in asking : a[1] = k /\ a[2] = v => a = <<k, v, S>>
    BY <1>1 DEF BaseInv, AskInv
  <2> QED
    BY <1>1, <2>1 DEF BaseInv, AskInv
<1>3. /\ \A x, w : Waits(x, w)' => Waits(x, w) /\ ~(x = k /\ w = v)
      /\ Unique(jobs)' /\ \A i \in 1..Len(jobs') : \E j \in 1..Len(jobs) : jobs'[i] = jobs[j]
  BY <1>1, <1>2 DEF BaseInv, JobsInv, Unique, Waits, Has
<1>4. CallsInv' /\ JobsInv' /\ AskInv'
  BY <1>1, <1>2, <1>3, BaseSettle
<1>5. EarlyInv'
  BY <1>1 DEF BaseInv, EarlyInv, Using
<1> QED
  BY <1>4, <1>5 DEF BaseInv

LEMMA BaseNext == BaseInv /\ [Next]_vars => BaseInv'
<1> SUFFICES ASSUME BaseInv, [Next]_vars PROVE BaseInv'
  OBVIOUS
<1>1. TypeOK'
  BY TypeNext DEF BaseInv
<1>2. CASE InitEnds
  BY <1>1, <1>2, BaseInitEnds
<1>3. ASSUME NEW how \in Kinds, Ignored(how) PROVE BaseInv'
  BY <1>1, <1>3, BaseIgnored
<1>4. ASSUME NEW how \in Kinds, CallOut(how) PROVE BaseInv'
  BY <1>1, <1>4, BaseCallOut
<1>5. CASE CallIdentify
  BY <1>1, <1>5, BaseIdentify
<1>6. CASE CallFlush
  BY <1>1, <1>6, BaseFlush
<1>7. CASE CallStop
  BY <1>1, <1>7, BaseStop
<1>8. CASE AwaitsAgain
  BY <1>1, <1>8, BaseAgain
<1>9. ASSUME NEW k \in Calls, ContextThere(k) PROVE BaseInv'
  BY <1>1, <1>9, BaseContext
<1>10. ASSUME NEW k \in Calls, NEW v \in Using, Forwards(k, v) PROVE BaseInv'
  BY <1>1, <1>10, BaseForwards
<1>11. CASE VendorAnswers
  <2>1. PICK ask \in asking : Answers(ask[1], ask[2], ask[3])
    BY <1>11 DEF VendorAnswers
  <2>2. ask[1] \in Calls /\ ask[2] \in Using
    BY <2>1 DEF BaseInv, TypeOK
  <2> QED
    BY <1>1, <2>1, <2>2, BaseAnswers
<1>12. CASE UNCHANGED vars
  BY <1>1, <1>12 DEF vars, BaseInv, CallsInv, JobsInv, Unique, Open, Plain, AskInv, Waits, Has,
                     EarlyInv, Using
<1> QED
  BY <1>2, <1>3, <1>4, <1>5, <1>6, <1>7, <1>8, <1>9, <1>10, <1>11, <1>12 DEF Next, Runs

LEMMA BaseInvariant == Spec => []BaseInv
  BY BaseInit, BaseNext, PTL DEF Spec
-----------------------------------------------------------------------------
(* Places in the order of the fan-outs *)

LEMMA MaxOf ==
    ASSUME NEW n \in Nat, NEW S, S \subseteq 1..n, S # {}
    PROVE  Max(S) \in S /\ \A y \in S : y <= Max(S)
<1> DEFINE T == {m \in Nat : \E x \in S : m = n - x}
           R == OpToRel(<, Nat)
<1>1. IsWellFoundedOn(R, Nat)
  BY NatLessThanWellFounded
<1>2. T \subseteq Nat /\ T # {}
  <2>1. PICK x \in S : TRUE
    OBVIOUS
  <2>2. n - x \in T
    BY <2>1
  <2> QED
    BY <2>2
<1>3. \A x, y \in Nat : x < y => <<x, y>> \in R
  BY DEF OpToRel
<1> HIDE DEF R
<1>4. PICK m \in T : \A y \in T : ~(<<y, m>> \in R)
  <2> HIDE DEF T
  <2> QED
    BY <1>1, <1>2, WFMin
<1>5. PICK x \in S : m = n - x
  BY <1>4
<1>6. ASSUME NEW y \in S PROVE x >= y
  <2>1. n - y \in T /\ x \in Nat /\ y \in Nat /\ m \in Nat /\ n - y \in Nat
    BY <1>5, <1>6
  <2>2. ~(n - y < m)
    BY <1>3, <1>4, <2>1
  <2> QED
    BY <1>5, <2>1, <2>2
<1>7. Max(S) \in S /\ \A y \in S : Max(S) >= y
  BY <1>5, <1>6 DEF Max
<1> QED
  BY <1>7

LEMMA Places ==
    ASSUME TypeOK, IsInjective(reached)
    PROVE  /\ Len(reached) \in Nat /\ DOMAIN reached = 1..Len(reached)
           /\ \A x \in ToSet(reached) : Position(x) \in DOMAIN reached /\ reached[Position(x)] = x
           /\ \A i \in DOMAIN reached : /\ reached[i] \in ToSet(reached) /\ reached[i] \in Calls
                                        /\ Position(reached[i]) = i
<1>1. /\ Len(reached) \in Nat /\ DOMAIN reached = 1..Len(reached)
      /\ \A x : x \in ToSet(reached) <=> \E i \in 1..Len(reached) : reached[i] = x
      /\ ToSet(reached) \subseteq Calls
  <2>1. reached \in Seq(Calls)
    BY DEF TypeOK
  <2> QED
    BY <2>1, Members
<1>2. \A x \in ToSet(reached) : Position(x) \in DOMAIN reached /\ reached[Position(x)] = x
  BY <1>1 DEF Position
<1>3. \A i \in DOMAIN reached : reached[i] \in ToSet(reached) /\ reached[i] \in Calls
  BY <1>1
<1>4. \A i \in DOMAIN reached : Position(reached[i]) = i
  BY <1>2, <1>3 DEF IsInjective
<1> QED
  BY <1>1, <1>2, <1>3, <1>4

(* The visitor of a moment is a matter of the changes before it. *)
Before(k) == {i \in 1..(Position(k) - 1) : Change(reached[i])}

LEMMA VisitorIsWho ==
    ASSUME TypeOK, IsInjective(reached), NEW k \in ToSet(reached)
    PROVE  VisitorAt(k) = Who(Before(k)) /\ Before(k) \subseteq Changes
           /\ \A i \in Before(k) : i < Position(k)
<1>1. Position(k) \in 1..Len(reached) /\ Len(reached) \in Nat /\ DOMAIN reached = 1..Len(reached)
  BY Places
<1>2. VisitorAt(k) = Who(Before(k))
  BY DEF VisitorAt, Who, Before, Change
<1>3. Before(k) \subseteq Changes /\ \A i \in Before(k) : i < Position(k)
  BY <1>1 DEF Before, Changes
<1> QED
  BY <1>2, <1>3

(* What is known of the calls that were fanned out stays. *)
LEMMA PlacesStay ==
    ASSUME BaseInv, BaseInv', \A x \in ToSet(reached) : kind'[x] = kind[x],
           \/ reached' = reached
           \/ \E k \in Calls : k \notin ToSet(reached) /\ reached' = Append(reached, k)
    PROVE  /\ \A x \in ToSet(reached) : /\ x \in ToSet(reached)' /\ Position(x)' = Position(x)
                                        /\ VisitorAt(x)' = VisitorAt(x)
           /\ \A S \in SUBSET DOMAIN reached : Who(S)' = Who(S)
           /\ \A i \in DOMAIN reached : i \in DOMAIN reached' /\ reached'[i] = reached[i]
<1>1. /\ Len(reached) \in Nat /\ DOMAIN reached = 1..Len(reached)
      /\ \A x \in ToSet(reached) : Position(x) \in DOMAIN reached /\ reached[Position(x)] = x
      /\ \A i \in DOMAIN reached : reached[i] \in ToSet(reached)
  BY Places DEF BaseInv, CallsInv
<1>2. \A i \in DOMAIN reached : i \in DOMAIN reached' /\ reached'[i] = reached[i]
  <2>1. CASE reached' = reached
    BY <2>1
  <2>2. ASSUME NEW k \in Calls, k \notin ToSet(reached), reached' = Append(reached, k)
        PROVE  \A i \in DOMAIN reached : i \in DOMAIN reached' /\ reached'[i] = reached[i]
    BY <2>2, ReachedMore DEF BaseInv
  <2> QED
    BY <2>1, <2>2
<1>3. \A i, j \in DOMAIN reached' : reached'[i] = reached'[j] => i = j
  BY DEF BaseInv, CallsInv, IsInjective
<1>4. ASSUME NEW x \in ToSet(reached) PROVE x \in ToSet(reached)' /\ Position(x)' = Position(x)
  <2>1. Position(x) \in DOMAIN reached' /\ reached'[Position(x)] = x
    BY <1>1, <1>2
  <2>2. x \in ToSet(reached)'
    BY <2>1 DEF ToSet
  <2>3. Position(x)' = CHOOSE i \in DOMAIN reached' : reached'[i] = x
    BY DEF Position
  <2>4. \A i \in DOMAIN reached' : reached'[i] = x => i = Position(x)
    BY <1>3, <2>1
  <2> QED
    BY <2>1, <2>2, <2>3, <2>4
<1>5. ASSUME NEW S \in SUBSET DOMAIN reached PROVE Who(S)' = Who(S)
  <2>1. CASE S = {}
    BY <2>1 DEF Who
  <2>2. CASE S # {}
    <3>1. Max(S) \in DOMAIN reached
      BY <1>1, <2>2, MaxOf
    <3>2. reached'[Max(S)] = reached[Max(S)] /\ kind'[reached[Max(S)]] = kind[reached[Max(S)]]
      BY <1>1, <1>2, <3>1
    <3> QED
      BY <3>2 DEF Who
  <2> QED
    BY <2>1, <2>2
<1>6. ASSUME NEW x \in ToSet(reached) PROVE VisitorAt(x)' = VisitorAt(x)
  <2>1. VisitorAt(x) = Who(Before(x)) /\ Before(x) \subseteq DOMAIN reached
    BY VisitorIsWho DEF BaseInv, CallsInv, Changes
  <2>2. x \in ToSet(reached)' /\ Position(x)' = Position(x)
    BY <1>4
  <2>3. VisitorAt(x)' = Who(Before(x))'
    BY DEF VisitorAt, Who, Before, Change
  <2>4. Before(x)' = Before(x)
    <3>1. Before(x)' = {i \in 1..(Position(x) - 1) : kind'[reached'[i]] \in {"identify", "reset"}}
      BY <2>2 DEF Before, Change
    <3>2. Before(x) = {i \in 1..(Position(x) - 1) : kind[reached[i]] \in {"identify", "reset"}}
      BY DEF Before, Change
    <3>3. \A i \in 1..(Position(x) - 1) : i \in DOMAIN reached
      <4>1. Position(x) \in 1..Len(reached)
        BY <1>1
      <4> QED
        BY <1>1, <4>1
    <3>4. \A i \in 1..(Position(x) - 1) : kind'[reached'[i]] = kind[reached[i]]
      BY <1>1, <1>2, <3>3
    <3> QED
      BY <3>1, <3>2, <3>4
  <2>5. PICK B : B = Before(x) /\ B \subseteq DOMAIN reached
    BY <2>1
  <2>6. Who(Before(x))' = Who(B)'
    BY <2>4, <2>5 DEF Who
  <2> QED
    BY <1>5, <2>1, <2>3, <2>5, <2>6
<1> QED
  BY <1>2, <1>4, <1>5, <1>6
-----------------------------------------------------------------------------
(* Who gets what, when *)

LEMMA OrderInit == Init => OrderInv
<1> SUFFICES ASSUME Init PROVE OrderInv
  OBVIOUS
<1>1. reached = <<>> /\ DOMAIN reached = {} /\ Len(jobs) = 0 /\ 1..0 = {} /\ ToSet(reached) = {}
  <2>1. <<>> \in Seq(Calls) /\ Len(<<>>) = 0 /\ 1..0 = {}
    BY EmptySeq
  <2> QED
    BY <2>1, Members DEF Init
<1>2. \A v \in Using : log[v] = <<>> /\ DOMAIN log[v] = {} /\ ToSet(log[v]) = {}
  <2>1. <<>> \in Seq(Calls) /\ Len(<<>>) = 0 /\ 1..0 = {}
    BY EmptySeq
  <2>2. DOMAIN <<>> = {} /\ ToSet(<<>>) = {}
    BY <2>1, Members
  <2>3. \A v \in Using : log[v] = <<>>
    BY DEF Init
  <2> QED
    BY <2>2, <2>3
<1>3. InTurn /\ UpTo
  BY <1>1 DEF InTurn, Turn, UpTo
<1>4. Logged /\ VendorOrder /\ Attributed
  BY <1>2 DEF Logged, VendorOrder, Attributed
<1>5. Visitors
  BY <1>1 DEF Visitors, Done, Changes, Who, Init
<1> QED
  BY <1>3, <1>4, <1>5 DEF OrderInv

(* Nothing an adapter has taken up, and nothing a vendor was given.        *)
Taken == UNCHANGED <<setup, log, id>> /\ \A x, v : v \in Using => (Waits(x, v)' <=> Waits(x, v))

LEMMA LogStays ==
    ASSUME BaseInv, BaseInv', OrderInv, UNCHANGED <<setup, log>>,
           \A x \in ToSet(reached) : kind'[x] = kind[x],
           \/ reached' = reached
           \/ \E k \in Calls : k \notin ToSet(reached) /\ reached' = Append(reached, k),
           \A x \in ToSet(reached) : \A v \in Using : Waits(x, v)' => Waits(x, v)
    PROVE  Logged' /\ VendorOrder' /\ Attributed'
<1>1. /\ \A x \in ToSet(reached) : /\ x \in ToSet(reached)' /\ Position(x)' = Position(x)
                                   /\ VisitorAt(x)' = VisitorAt(x)
  BY PlacesStay
<1>2. Using' = Using
  BY DEF Using
<1>3. ASSUME NEW v \in Using, NEW i \in DOMAIN log[v]
      PROVE  LET k == log[v][i].call IN
             k \in ToSet(reached) /\ kind[k] \in Events /\ ~Waits(k, v) /\ kind'[k] = kind[k]
  BY <1>3 DEF OrderInv, Logged
<1>4. Logged'
  <2> SUFFICES ASSUME NEW v \in Using, NEW i \in DOMAIN log[v], NEW k, k = log[v][i].call
               PROVE  k \in ToSet(reached)' /\ kind'[k] \in Events /\ ~Waits(k, v)'
    BY <1>2 DEF Logged
  <2> QED
    BY <1>1, <1>3
<1>5. VendorOrder'
  <2> SUFFICES ASSUME NEW v \in Using, NEW i \in DOMAIN log[v], NEW j \in DOMAIN log[v], i < j,
                      NEW k, k = log[v][i].call, NEW m, m = log[v][j].call,
                      Direct(k, v)', Direct(m, v)'
               PROVE  Position(k)' < Position(m)'
    BY <1>2 DEF VendorOrder, Direct, Position
  <2>1. /\ k \in ToSet(reached) /\ m \in ToSet(reached) /\ kind'[k] = kind[k] /\ kind'[m] = kind[m]
    BY <1>3
  <2>2. Direct(k, v) /\ Direct(m, v)
    BY <2>1 DEF Direct
  <2>3. Position(k) < Position(m)
    BY <2>2 DEF OrderInv, VendorOrder
  <2> QED
    BY <1>1, <2>1, <2>3
<1>6. Attributed'
  <2> SUFFICES ASSUME NEW v \in Using, NEW e \in ToSet(log[v]), Direct(e.call, v)'
               PROVE  e.id = VisitorAt(e.call)'
    BY <1>2 DEF Attributed
  <2> DEFINE k == e.call
  <2>1. PICK i \in DOMAIN log[v] : e = log[v][i]
    BY DEF ToSet
  <2>2. k \in ToSet(reached) /\ kind'[k] = kind[k]
    BY <1>3, <2>1
  <2>3. e.id = VisitorAt(k)
    BY <2>2 DEF OrderInv, Attributed, Direct
  <2> QED
    BY <1>1, <2>2, <2>3
<1> QED
  BY <1>4, <1>5, <1>6

LEMMA OrderStays ==
    ASSUME BaseInv, BaseInv', OrderInv, Taken, reached' = reached,
           \A x \in ToSet(reached) : kind'[x] = kind[x]
    PROVE  UpTo' /\ Logged' /\ VendorOrder' /\ Visitors' /\ Attributed'
<1>1. /\ \A i \in DOMAIN reached : reached[i] \in ToSet(reached)
      /\ \A S \in SUBSET DOMAIN reached : Who(S)' = Who(S)
  BY Places, PlacesStay DEF BaseInv, CallsInv
<1>2. Using' = Using
  BY DEF Using, Taken
<1>3. Logged' /\ VendorOrder' /\ Attributed'
  BY LogStays DEF Taken
<1>4. UpTo'
  <2>1. \A v, p : p \in DOMAIN reached => (Plain(reached[p], v)' <=> Plain(reached[p], v))
    BY <1>1 DEF Plain
  <2> SUFFICES ASSUME NEW v \in Using, NEW p \in DOMAIN reached, NEW q \in DOMAIN reached,
                      p < q, Plain(reached[p], v)', Plain(reached[q], v)', Waits(reached[p], v)'
               PROVE  Waits(reached[q], v)'
    BY <1>2 DEF UpTo
  <2>2. PICK x, y : x = reached[p] /\ y = reached[q]
    OBVIOUS
  <2>3. Waits(x, v)'
    BY <2>2 DEF Waits, Has
  <2>4. Waits(x, v)
    BY <2>3 DEF Taken
  <2>5. Waits(y, v)
    BY <2>1, <2>2, <2>4 DEF OrderInv, UpTo
  <2>6. Waits(y, v)'
    BY <2>5 DEF Taken
  <2> QED
    BY <2>2, <2>6 DEF Waits, Has
<1>5. Visitors'
  <2> SUFFICES ASSUME NEW v \in Using PROVE id'[v] = Who(Done(v))'
    BY <1>2 DEF Visitors
  <2>1. Done(v)' = Done(v)
    <3>1. \A p \in DOMAIN reached : Change(reached[p])' <=> Change(reached[p])
      BY <1>1 DEF Change
    <3>2. ASSUME NEW p \in DOMAIN reached PROVE Waits(reached[p], v)' <=> Waits(reached[p], v)
      <4>1. PICK x : x = reached[p]
        OBVIOUS
      <4>2. Waits(x, v)' <=> Waits(x, v)
        BY DEF Taken
      <4> QED
        BY <4>1, <4>2 DEF Waits, Has
    <3> QED
      BY <3>1, <3>2 DEF Done, Changes
  <2>2. PICK D : D = Done(v) /\ D \subseteq DOMAIN reached
    BY DEF Done, Changes
  <2>3. Who(Done(v))' = Who(D)'
    BY <2>1, <2>2 DEF Who
  <2> QED
    BY <1>1, <2>2, <2>3 DEF OrderInv, Visitors, Taken
<1> QED
  BY <1>3, <1>4, <1>5

LEMMA NewPlace ==
    ASSUME BaseInv, BaseInv', NEW k \in Calls, k \notin ToSet(reached), reached' = Append(reached, k)
    PROVE  /\ Position(k)' = Len(reached) + 1 /\ Len(reached) + 1 \in DOMAIN reached'
           /\ reached'[Len(reached) + 1] = k /\ k \in ToSet(reached)'
<1>1. /\ Len(reached) \in Nat /\ DOMAIN reached' = 1..(Len(reached) + 1)
      /\ reached'[Len(reached) + 1] = k
  BY ReachedMore DEF BaseInv
<1>2. \A i, j \in DOMAIN reached' : reached'[i] = reached'[j] => i = j
  BY DEF BaseInv, CallsInv, IsInjective
<1>3. Len(reached) + 1 \in DOMAIN reached'
  BY <1>1
<1>4. k \in ToSet(reached)'
  BY <1>1, <1>3 DEF ToSet
<1>5. Position(k)' = CHOOSE i \in DOMAIN reached' : reached'[i] = k
  BY DEF Position
<1>6. \A i \in DOMAIN reached' : reached'[i] = k => i = Len(reached) + 1
  BY <1>1, <1>2, <1>3
<1> QED
  BY <1>1, <1>3, <1>4, <1>5, <1>6

LEMMA OrderFan ==
    ASSUME BaseInv, BaseInv', OrderInv, NEW k \in Calls,
           NEW how \in {"identify", "track", "page", "reset"}, NEW rest \in Seq(Job),
           FanOut(k, how, rest), k \notin ToSet(reached), \A v : v \in Using => ~Waits(k, v),
           Unique(rest), Turn(rest), \A i \in 1..Len(rest) : \E j \in 1..Len(jobs) : rest[i] = jobs[j],
           \A v : ~Has(rest, k, v) \/ v = "facade",
           \A x, v : v \in Using => (Has(rest, x, v) <=> Waits(x, v)),
           \A x \in Calls \ {k} : kind'[x] = kind[x], UNCHANGED <<setup, log, id>>
    PROVE  OrderInv'
<1> DEFINE F == Fan(k, how)
           n == Len(reached)
<1>1. TypeOK /\ setup \in Setups /\ how \in Kinds
  BY DEF BaseInv, TypeOK, Kinds
<1>2. /\ jobs' = rest \o F /\ reached' = Append(reached, k)
  BY <1>1, FanOutType
<1>3. /\ F \in Seq(Job) /\ Len(F) = Len(setup)
      /\ \A m \in 1..Len(setup) : F[m][1] = k /\ F[m][2] = setup[m] /\ setup[m] \in Using
  BY <1>1, FanProps
<1>4. /\ Unique(jobs)' /\ \A x, v : v \in Using => (Waits(x, v)' <=> Waits(x, v) \/ x = k)
  <2>1. \A x, v : Has(rest \o F, x, v) <=> Has(rest, x, v) \/ (x = k /\ v \in Using)
    BY <1>1, FanHas
  <2>2. PICK s : s = jobs'
    OBVIOUS
  <2>3. \A x, v : Has(s, x, v) <=> Has(rest, x, v) \/ (x = k /\ v \in Using)
    BY <1>2, <2>1, <2>2
  <2>4. \A x, v : Waits(x, v)' <=> Has(s, x, v)
    BY <2>2, <2>3 DEF Waits, Has
  <2> QED
    BY <2>3, <2>4 DEF BaseInv, JobsInv
<1> HIDE DEF F
<1>5. \A x \in ToSet(reached) : x \in Calls \ {k} /\ kind'[x] = kind[x]
  <2>1. ToSet(reached) \subseteq Calls
    <3>1. reached \in Seq(Calls)
      BY <1>1 DEF TypeOK
    <3> QED
      BY <3>1, Members
  <2> QED
    BY <2>1
<1>6. /\ \A x \in ToSet(reached) : x \in ToSet(reached)' /\ Position(x)' = Position(x)
      /\ \A S \in SUBSET DOMAIN reached : Who(S)' = Who(S)
      /\ \A i \in DOMAIN reached : i \in DOMAIN reached' /\ reached'[i] = reached[i]
  BY <1>2, <1>5, PlacesStay
<1>7. /\ Position(k)' = n + 1 /\ n + 1 \in DOMAIN reached' /\ reached'[n + 1] = k
  BY <1>2, NewPlace
<1>8. /\ n \in Nat /\ DOMAIN reached = 1..n /\ DOMAIN reached' = 1..(n + 1)
      /\ \A x \in ToSet(reached) : Position(x) \in DOMAIN reached
      /\ \A i \in DOMAIN reached : reached[i] \in ToSet(reached)
      /\ \A i \in DOMAIN reached' : i \in DOMAIN reached \/ i = n + 1
  <2>1. /\ n \in Nat /\ DOMAIN reached = 1..n
        /\ \A x \in ToSet(reached) : Position(x) \in DOMAIN reached
        /\ \A i \in DOMAIN reached : reached[i] \in ToSet(reached)
    BY <1>1, Places DEF BaseInv, CallsInv
  <2>2. DOMAIN reached' = 1..(n + 1)
    BY <1>2, ReachedMore DEF BaseInv
  <2> QED
    BY <2>1, <2>2
<1> HIDE DEF n
<1>9. Using' = Using
  BY DEF Using
<1>10. InTurn'
  <2> SUFFICES ASSUME NEW i \in 1..Len(jobs'), NEW j \in 1..Len(jobs'), i < j,
                      NEW a, a = jobs'[i], NEW b, b = jobs'[j], a[2] = b[2], a[2] # "facade",
                      Plain(a[1], a[2])', Plain(b[1], b[2])'
               PROVE  Position(a[1])' < Position(b[1])'
    BY DEF InTurn, Turn
  <2>1. \A m \in 1..Len(jobs') : \/ m \in 1..Len(rest) /\ jobs'[m] = rest[m]
                                 \/ m \notin 1..Len(rest) /\ m - Len(rest) \in 1..Len(F) /\ jobs'[m] = F[m - Len(rest)]
    <3>1. /\ \A m \in 1..Len(rest \o F) : \/ m \in 1..Len(rest) /\ (rest \o F)[m] = rest[m]
                                          \/ m - Len(rest) \in 1..Len(F) /\ (rest \o F)[m] = F[m - Len(rest)]
          /\ Len(rest) \in Nat
      BY <1>3, Concat
    <3>2. \A m \in 1..Len(rest \o F) : m - Len(rest) \in 1..Len(F) => m \notin 1..Len(rest)
      BY <3>1
    <3> QED
      BY <1>2, <3>1, <3>2
  <2>2. \A m \in 1..Len(rest) : LET c == rest[m] IN
            c[2] # "facade" => c[1] \in ToSet(reached) /\ kind'[c[1]] = kind[c[1]] /\ Position(c[1])' = Position(c[1])
    <3> SUFFICES ASSUME NEW m \in 1..Len(rest), NEW c, c = rest[m], c[2] # "facade"
                 PROVE  /\ c[1] \in ToSet(reached) /\ kind'[c[1]] = kind[c[1]]
                        /\ Position(c[1])' = Position(c[1])
      OBVIOUS
    <3>1. Open(c)
      BY DEF BaseInv, JobsInv
    <3> QED
      BY <1>5, <1>6, <3>1 DEF Open
  <2>3. CASE i \in 1..Len(rest) /\ j \in 1..Len(rest)
    <3>1. a = rest[i] /\ b = rest[j]
      BY <2>1, <2>3
    <3>2. /\ kind'[a[1]] = kind[a[1]] /\ Position(a[1])' = Position(a[1])
          /\ kind'[b[1]] = kind[b[1]] /\ Position(b[1])' = Position(b[1])
      BY <2>2, <2>3, <3>1
    <3>3. Plain(a[1], a[2]) /\ Plain(b[1], b[2])
      BY <3>2 DEF Plain
    <3>4. Position(a[1]) < Position(b[1])
      BY <2>3, <3>1, <3>3 DEF Turn
    <3> QED
      BY <3>2, <3>4
  <2>4. CASE i \in 1..Len(rest) /\ j \notin 1..Len(rest)
    <3>1. a = rest[i] /\ j - Len(rest) \in 1..Len(setup) /\ b = F[j - Len(rest)]
      BY <1>3, <2>1, <2>4
    <3>2. b[1] = k
      BY <1>3, <3>1
    <3>3. Position(a[1])' = Position(a[1]) /\ a[1] \in ToSet(reached)
      BY <2>2, <2>4, <3>1
    <3>4. Position(a[1]) \in 1..n
      BY <1>8, <3>3
    <3>5. Position(b[1])' = n + 1
      BY <1>7, <3>2
    <3> QED
      BY <1>8, <3>3, <3>4, <3>5
  <2>5. CASE i \notin 1..Len(rest)
    <3>1. j \notin 1..Len(rest)
      <4>1. Len(rest) \in Nat
        BY LenProperties
      <4> QED
        BY <2>5, <4>1
    <3>4. /\ i - Len(rest) \in 1..Len(setup) /\ a = F[i - Len(rest)]
          /\ j - Len(rest) \in 1..Len(setup) /\ b = F[j - Len(rest)]
      BY <1>3, <2>1, <2>5, <3>1
    <3>2. a[1] = k /\ b[1] = k
      BY <1>3, <3>4
    <3>3. i = j
      BY <1>4, <3>2 DEF Unique
    <3> QED
      BY <3>3
  <2> QED
    BY <2>3, <2>4, <2>5
<1>11. UpTo'
  <2> SUFFICES ASSUME NEW v \in Using, NEW p \in DOMAIN reached', NEW q \in DOMAIN reached', p < q,
                      NEW x, x = reached'[p], NEW y, y = reached'[q],
                      Plain(x, v)', Plain(y, v)', Waits(x, v)'
               PROVE  Waits(y, v)'
    BY <1>9 DEF UpTo, Waits, Has, Plain
  <2>1. CASE q = n + 1
    BY <1>4, <1>7, <2>1
  <2>2. CASE q # n + 1
    <3>1. q \in DOMAIN reached /\ p \in DOMAIN reached
      BY <1>8, <2>2
    <3>2. x = reached[p] /\ y = reached[q] /\ x \in ToSet(reached) /\ y \in ToSet(reached)
      BY <1>6, <1>8, <3>1
    <3>3. Plain(x, v) /\ Plain(y, v)
      BY <1>5, <3>2 DEF Plain
    <3>4. Waits(x, v)
      BY <1>4, <1>5, <3>2
    <3>5. Waits(y, v)
      BY <3>1, <3>2, <3>3, <3>4 DEF OrderInv, UpTo
    <3> QED
      BY <1>4, <3>5
  <2> QED
    BY <2>1, <2>2
<1>12. Logged' /\ VendorOrder' /\ Attributed'
  <2>1. \A x \in ToSet(reached) : \A v \in Using : Waits(x, v)' => Waits(x, v)
    BY <1>4, <1>5
  <2>2. \A x \in ToSet(reached) : kind'[x] = kind[x]
    BY <1>5
  <2> QED
    BY <1>2, <2>1, <2>2, LogStays
<1>13. Visitors'
  <2> SUFFICES ASSUME NEW v \in Using PROVE id'[v] = Who(Done(v))'
    BY <1>9 DEF Visitors
  <2>1. Done(v)' = Done(v)
    <3>1. ASSUME NEW p \in DOMAIN reached'
          PROVE  Change(reached[p])' /\ ~Waits(reached[p], v)'
                   <=> p \in DOMAIN reached /\ Change(reached[p]) /\ ~Waits(reached[p], v)
      <4>1. PICK x : x = reached'[p]
        OBVIOUS
      <4>2. /\ Waits(reached[p], v)' <=> Waits(x, v)'
            /\ Change(reached[p])' <=> Change(x)'
        BY <4>1 DEF Waits, Has, Change
      <4>3. CASE p = n + 1
        <5>1. x = k /\ p \notin DOMAIN reached /\ Waits(x, v)'
          BY <1>4, <1>7, <1>8, <4>1, <4>3
        <5> QED
          BY <4>2, <5>1
      <4>4. CASE p \in DOMAIN reached
        <5>1. x = reached[p] /\ x \in ToSet(reached)
          BY <1>6, <1>8, <4>1, <4>4
        <5>2. (Waits(x, v)' <=> Waits(x, v)) /\ (Change(x)' <=> Change(x))
          BY <1>4, <1>5, <5>1 DEF Change
        <5> QED
          BY <4>2, <4>4, <5>1, <5>2
      <4> QED
        BY <1>8, <4>3, <4>4
    <3>2. Done(v)' = {p \in DOMAIN reached' : Change(reached[p])' /\ ~Waits(reached[p], v)'}
      BY DEF Done, Changes
    <3>3. Done(v) = {p \in DOMAIN reached : Change(reached[p]) /\ ~Waits(reached[p], v)}
      BY DEF Done, Changes
    <3>4. DOMAIN reached \subseteq DOMAIN reached'
      BY <1>6
    <3> QED
      BY <3>1, <3>2, <3>3, <3>4
  <2>2. PICK D : D = Done(v) /\ D \subseteq DOMAIN reached
    BY DEF Done, Changes
  <2>3. Who(Done(v))' = Who(D)'
    BY <2>1, <2>2 DEF Who
  <2> QED
    BY <1>6, <2>2, <2>3 DEF OrderInv, Visitors
<1> QED
  BY <1>10, <1>11, <1>12, <1>13 DEF OrderInv

(* When an adapter takes up what cannot be overtaken, it has taken up all  *)
(* of that kind before it, and nothing after it.                           *)
LEMMA HeadTurn ==
    ASSUME BaseInv, OrderInv, NEW k \in Calls, NEW v \in Using, Forwards(k, v), Plain(k, v)
    PROVE  /\ Position(k) \in DOMAIN reached /\ reached[Position(k)] = k /\ DOMAIN reached \subseteq Nat
           /\ \A p \in DOMAIN reached : Plain(reached[p], v) =>
                /\ p < Position(k) => ~Waits(reached[p], v)
                /\ p > Position(k) => Waits(reached[p], v)
<1>1. /\ 1 \in 1..Len(jobs) /\ jobs[1][1] = k /\ jobs[1][2] = v /\ v # "facade" /\ Len(jobs) \in Nat
      /\ Waits(k, v) /\ k \in ToSet(reached)
  BY ForwardsHas
<1>2. /\ Position(k) \in DOMAIN reached /\ reached[Position(k)] = k /\ DOMAIN reached \subseteq Nat
      /\ \A i \in DOMAIN reached : Position(reached[i]) = i
  BY <1>1, Places DEF BaseInv, CallsInv
<1>3. ASSUME NEW p \in DOMAIN reached, Plain(reached[p], v), p < Position(k), Waits(reached[p], v)
      PROVE  FALSE
  <2>1. PICK i \in 1..Len(jobs) : jobs[i][1] = reached[p] /\ jobs[i][2] = v
    BY <1>3 DEF Waits, Has
  <2>2. Position(jobs[i][1]) = p
    BY <1>2, <2>1
  <2>3. i # 1
    BY <1>1, <1>2, <1>3, <2>2
  <2>4. 1 < i
    BY <1>1, <2>1, <2>3
  <2>5. Position(jobs[1][1]) < Position(jobs[i][1])
    BY <1>1, <1>3, <2>1, <2>4 DEF OrderInv, InTurn, Turn
  <2> QED
    BY <1>1, <1>2, <1>3, <2>2, <2>5
<1>4. ASSUME NEW p \in DOMAIN reached, Plain(reached[p], v), p > Position(k)
      PROVE  Waits(reached[p], v)
  BY <1>1, <1>2, <1>4 DEF OrderInv, UpTo
<1> QED
  BY <1>2, <1>3, <1>4

LEMMA OrderForwards ==
    ASSUME BaseInv, BaseInv', OrderInv, NEW k \in Calls, NEW v \in Using, Forwards(k, v)
    PROVE  OrderInv'
<1>1. /\ jobs # <<>> /\ 1 \in 1..Len(jobs) /\ jobs[1][1] = k /\ jobs[1][2] = v
      /\ Waits(k, v) /\ v # "facade" /\ k \in ToSet(reached)
      /\ Len(jobs) \in Nat
      /\ \A i \in 1..Len(jobs') : i + 1 \in 1..Len(jobs) /\ jobs'[i] = jobs[i + 1]
      /\ \A x, w : Waits(x, w)' <=> Waits(x, w) /\ ~(x = k /\ w = v)
  BY ForwardsHas
<1>2. UNCHANGED <<setup, client, kind, reached>>
  BY DEF Forwards, app
<1>3. Using' = Using /\ \A x, w : Plain(x, w)' <=> Plain(x, w)
  BY <1>2 DEF Using, Plain
<1>4. /\ DOMAIN reached \subseteq Nat /\ Len(reached) \in Nat /\ DOMAIN reached = 1..Len(reached)
      /\ \A x \in ToSet(reached) : Position(x) \in DOMAIN reached /\ reached[Position(x)] = x
      /\ \A i \in DOMAIN reached : reached[i] \in ToSet(reached) /\ Position(reached[i]) = i
  BY Places DEF BaseInv, CallsInv
<1>5. /\ \A x : Position(x)' = Position(x) /\ VisitorAt(x)' = VisitorAt(x)
      /\ \A S : Who(S)' = Who(S)
  BY <1>2 DEF Position, VisitorAt, Who
<1>6. InTurn'
  <2> SUFFICES ASSUME NEW i \in 1..Len(jobs'), NEW j \in 1..Len(jobs'), i < j,
                      NEW a, a = jobs'[i], NEW b, b = jobs'[j], a[2] = b[2], a[2] # "facade",
                      Plain(a[1], a[2])', Plain(b[1], b[2])'
               PROVE  Position(a[1])' < Position(b[1])'
    BY DEF InTurn, Turn
  <2>1. /\ a = jobs[i + 1] /\ b = jobs[j + 1] /\ i + 1 \in 1..Len(jobs) /\ j + 1 \in 1..Len(jobs)
    BY <1>1
  <2>2. i + 1 < j + 1
    OBVIOUS
  <2>3. Position(a[1]) < Position(b[1])
    BY <1>3, <2>1, <2>2 DEF OrderInv, InTurn, Turn
  <2> QED
    BY <1>5, <2>3
<1>7. ASSUME Plain(k, v)
      PROVE  \A p \in DOMAIN reached : Plain(reached[p], v) =>
                /\ p < Position(k) => ~Waits(reached[p], v)
                /\ p > Position(k) => Waits(reached[p], v)
  BY <1>7, HeadTurn
<1>8. UpTo'
  <2> SUFFICES ASSUME NEW w \in Using, NEW p \in DOMAIN reached, NEW q \in DOMAIN reached, p < q,
                      NEW x, x = reached[p], NEW y, y = reached[q],
                      Plain(x, w), Plain(y, w), Waits(x, w)'
               PROVE  Waits(y, w)'
    BY <1>2, <1>3 DEF UpTo, Waits, Has, Plain
  <2>1. Waits(x, w) /\ Waits(y, w)
    BY <1>1 DEF OrderInv, UpTo
  <2>2. ASSUME y = k, w = v PROVE FALSE
    <3>1. q = Position(k)
      BY <1>4, <2>2
    <3> QED
      BY <1>7, <2>1, <2>2, <3>1
  <2> QED
    BY <1>1, <2>1, <2>2
<1> DEFINE event == kind[k] \in Events /\ client[v]
           entry == [call |-> k, id |-> id[v]]
<1>9. /\ log' = IF event THEN [log EXCEPT ![v] = Append(log[v], entry)] ELSE log
      /\ id' = [id EXCEPT ![v] = CASE kind[k] = "identify" -> k
                                   [] kind[k] = "reset"    -> None
                                   [] OTHER                -> id[v]]
  BY DEF Forwards
<1>10. ASSUME NEW w \in Using, NEW i \in DOMAIN log'[w]
       PROVE  \/ i \in DOMAIN log[w] /\ log'[w][i] = log[w][i] /\ i \in Nat
              \/ /\ w = v /\ event /\ log'[w][i] = entry /\ i \in Nat
                 /\ \A j \in DOMAIN log'[w] : j # i => j < i
  <2>1. \A u \in Using : log[u] \in Seq([call : Calls, id : Calls \cup {None}]) /\ log \in [Using -> Seq([call : Calls, id : Calls \cup {None}])]
    BY DEF BaseInv, TypeOK
  <2>2. \A u \in Using : DOMAIN log[u] = 1..Len(log[u]) /\ Len(log[u]) \in Nat
    BY <2>1, LenProperties
  <2>3. CASE ~(event /\ w = v)
    <3>1. log'[w] = log[w]
      BY <1>9, <2>1, <2>3
    <3> QED
      BY <1>10, <2>2, <3>1
  <2>4. CASE event /\ w = v
    <3> DEFINE e == entry
    <3>1. log'[w] = Append(log[w], e) /\ e \in [call : Calls, id : Calls \cup {None}]
      BY <1>9, <2>1, <2>4 DEF BaseInv, TypeOK
    <3> HIDE DEF e
    <3> DEFINE s == log[w]
               E == [call : Calls, id : Calls \cup {None}]
    <3>6. s \in Seq(E) /\ e \in E
      BY <2>1, <3>1
    <3> HIDE DEF s, E
    <3>7. /\ Len(Append(s, e)) = Len(s) + 1 /\ Append(s, e) \in Seq(E)
          /\ \A j \in 1..Len(s) : Append(s, e)[j] = s[j]
          /\ Append(s, e)[Len(s) + 1] = e
      BY <3>6, Appended
    <3>2. /\ Len(log'[w]) = Len(log[w]) + 1 /\ log'[w] \in Seq(E)
          /\ \A j \in 1..Len(log[w]) : log'[w][j] = log[w][j]
          /\ log'[w][Len(log[w]) + 1] = e
      BY <3>1, <3>7 DEF s
    <3>3. DOMAIN log'[w] = 1..(Len(log[w]) + 1)
      BY <3>2, LenProperties
    <3>4. CASE i = Len(log[w]) + 1
      <4>1. \A j \in DOMAIN log'[w] : j # i => j < i
        BY <2>2, <3>3, <3>4
      <4> QED
        BY <2>2, <2>4, <3>2, <3>4, <4>1 DEF e
    <3>5. CASE i # Len(log[w]) + 1
      BY <1>10, <2>2, <3>2, <3>3, <3>5
    <3> QED
      BY <3>4, <3>5
  <2> QED
    BY <2>3, <2>4
<1> HIDE DEF event
<1>11. ASSUME NEW w \in Using, NEW i \in DOMAIN log[w]
       PROVE  LET c == log[w][i].call IN c \in ToSet(reached) /\ kind[c] \in Events /\ ~Waits(c, w)
  BY <1>11 DEF OrderInv, Logged
<1>12. Logged'
  <2> SUFFICES ASSUME NEW w \in Using, NEW i \in DOMAIN log'[w], NEW c, c = log'[w][i].call
               PROVE  c \in ToSet(reached) /\ kind[c] \in Events /\ ~Waits(c, w)'
    BY <1>2, <1>3 DEF Logged
  <2>1. CASE i \in DOMAIN log[w] /\ log'[w][i] = log[w][i]
    BY <1>1, <1>11, <2>1
  <2>2. CASE w = v /\ event /\ log'[w][i] = entry
    BY <1>1, <2>2 DEF event
  <2> QED
    BY <1>10, <2>1, <2>2
<1>13. \A c, w : kind[c] \in Events => (Direct(c, w) <=> Plain(c, w))
  BY DEF Events, Direct, Plain
<1>14. \A c, w : Direct(c, w)' <=> Direct(c, w)
  BY <1>2 DEF Direct
<1>15. VendorOrder'
  <2> SUFFICES ASSUME NEW w \in Using, NEW i \in DOMAIN log'[w], NEW j \in DOMAIN log'[w], i < j,
                      NEW c, c = log'[w][i].call, NEW d, d = log'[w][j].call,
                      Direct(c, w), Direct(d, w)
               PROVE  Position(c) < Position(d)
    BY <1>2, <1>3, <1>5, <1>14 DEF VendorOrder, Direct
  <2>1. CASE j \in DOMAIN log[w] /\ log'[w][j] = log[w][j]
    <3>1. i \in DOMAIN log[w] /\ log'[w][i] = log[w][i]
      <4>1. CASE w = v /\ event /\ log'[w][i] = entry /\ i \in Nat /\ \A m \in DOMAIN log'[w] : m # i => m < i
        <5>1. j < i /\ j \in Nat /\ i \in Nat
          BY <1>10, <2>1, <4>1
        <5> QED
          BY <5>1
      <4> QED
        BY <1>10, <4>1
    <3> QED
      BY <2>1, <3>1 DEF OrderInv, VendorOrder
  <2>2. CASE w = v /\ event /\ log'[w][j] = entry /\ j \in Nat /\ \A m \in DOMAIN log'[w] : m # j => m < j
    <3>1. i \in DOMAIN log[w] /\ log'[w][i] = log[w][i]
      <4>1. CASE log'[w][i] = entry /\ i \in Nat /\ \A m \in DOMAIN log'[w] : m # i => m < i
        <5>1. j < i /\ j \in Nat /\ i \in Nat
          BY <2>2, <4>1
        <5> QED
          BY <5>1
      <4> QED
        BY <1>10, <4>1
    <3>2. c \in ToSet(reached) /\ kind[c] \in Events /\ ~Waits(c, v)
      BY <1>11, <2>2, <3>1
    <3>3. d = k /\ kind[k] \in Events
      BY <2>2 DEF event
    <3>4. Plain(k, v) /\ Plain(c, v)
      BY <1>13, <2>2, <3>2, <3>3
    <3>5. ~(Position(c) > Position(k)) /\ Position(c) # Position(k)
      BY <1>1, <1>4, <1>7, <3>2, <3>4
    <3>6. Position(c) \in Nat /\ Position(k) \in Nat
      BY <1>1, <1>4, <3>2
    <3> QED
      BY <3>3, <3>5, <3>6
  <2> QED
    BY <1>10, <2>1, <2>2
<1>16. ASSUME NEW w \in Using PROVE Done(w)' = {p \in Changes : ~Waits(reached[p], w) \/ (reached[p] = k /\ w = v)}
  <2>1. Changes' = Changes
    BY <1>2 DEF Changes, Change
  <2>2. Done(w)' = {p \in Changes : ~Waits(reached[p], w)'}
    BY <1>2, <2>1 DEF Done, Waits, Has
  <2>3. ASSUME NEW p \in Changes
        PROVE  ~Waits(reached[p], w)' <=> ~Waits(reached[p], w) \/ (reached[p] = k /\ w = v)
    <3>1. PICK x : x = reached[p]
      OBVIOUS
    <3>2. Waits(reached[p], w)' <=> Waits(x, w)'
      BY <1>2, <3>1 DEF Waits, Has
    <3> QED
      BY <1>1, <3>1, <3>2
  <2> QED
    BY <2>2, <2>3
<1>17. Visitors'
  <2> SUFFICES ASSUME NEW w \in Using PROVE id'[w] = Who(Done(w)')
    BY <1>2, <1>3, <1>5 DEF Visitors, Who
  <2>1. id[w] = Who(Done(w)) /\ Done(w) = {p \in Changes : ~Waits(reached[p], w)}
    BY DEF OrderInv, Visitors, Done
  <2>2. id \in [Using -> Calls \cup {None}]
    BY DEF BaseInv, TypeOK
  <2>3. CASE ~(w = v /\ Change(k))
    <3>1. Done(w)' = Done(w)
      BY <1>16, <2>1, <2>3 DEF Changes
    <3>2. id'[w] = id[w]
      BY <1>9, <2>2, <2>3 DEF Change
    <3> QED
      BY <2>1, <3>1, <3>2
  <2>4. CASE w = v /\ Change(k)
    <3>1. Position(k) \in Changes /\ reached[Position(k)] = k
      BY <1>1, <1>4, <2>4 DEF Changes
    <3>2. PICK D : D = Done(w)' /\ Position(k) \in D
      BY <1>16, <2>4, <3>1
    <3>3. Plain(k, v)
      BY <2>4 DEF Plain, Change
    <3>4. D \subseteq 1..Len(reached) /\ \A p \in D : p <= Position(k)
      <4>1. D \subseteq Changes /\ Changes \subseteq DOMAIN reached
        BY <1>16, <3>2 DEF Changes
      <4>2. ASSUME NEW p \in D, p > Position(k) PROVE FALSE
        <5>1. p \in DOMAIN reached /\ Plain(reached[p], v)
          BY <4>1 DEF Plain, Changes, Change
        <5>2. Waits(reached[p], v) /\ reached[p] # k
          BY <1>4, <1>7, <3>3, <4>2, <5>1
        <5> QED
          BY <1>16, <2>4, <3>2, <5>2
      <4> QED
        BY <1>4, <3>1, <4>1, <4>2 DEF Changes
    <3>5. Max(D) = Position(k)
      <4>1. Max(D) \in D /\ \A y \in D : y <= Max(D)
        BY <1>4, <3>2, <3>4, MaxOf
      <4>2. Max(D) \in Nat /\ Position(k) \in Nat
        BY <1>4, <3>2, <3>4, <4>1
      <4> QED
        BY <3>2, <3>4, <4>1, <4>2
    <3>6. Who(D) = IF kind[k] = "reset" THEN None ELSE k
      BY <3>1, <3>2, <3>5 DEF Who
    <3>7. id'[v] = IF kind[k] = "reset" THEN None ELSE k
      BY <1>9, <2>2, <2>4 DEF Change
    <3> QED
      BY <2>4, <3>2, <3>6, <3>7
  <2> QED
    BY <2>3, <2>4
<1>18. Attributed'
  <2> SUFFICES ASSUME NEW w \in Using, NEW i \in DOMAIN log'[w], NEW e, e = log'[w][i], Direct(e.call, w)
               PROVE  e.id = VisitorAt(e.call)
    <3> SUFFICES ASSUME NEW w \in Using, NEW e \in ToSet(log'[w]), Direct(e.call, w)'
                 PROVE  e.id = VisitorAt(e.call)'
      BY <1>3 DEF Attributed
    <3>1. PICK i \in DOMAIN log'[w] : e = log'[w][i]
      BY DEF ToSet
    <3> QED
      BY <1>5, <1>14, <3>1
  <2>1. CASE i \in DOMAIN log[w] /\ log'[w][i] = log[w][i]
    <3>1. e \in ToSet(log[w])
      BY <2>1 DEF ToSet
    <3> QED
      BY <3>1 DEF OrderInv, Attributed
  <2>2. CASE w = v /\ event /\ log'[w][i] = entry
    <3>1. e.call = k /\ e.id = id[v] /\ kind[k] \in Events
      BY <2>2 DEF event
    <3>2. Plain(k, v)
      BY <1>13, <2>2, <3>1
    <3>3. VisitorAt(k) = Who(Before(k))
      BY <1>1, VisitorIsWho DEF BaseInv, CallsInv
    <3>4. Before(k) = Done(v)
      <4>1. ASSUME NEW p \in Before(k) PROVE p \in Done(v)
        <5>1. p \in Changes /\ p < Position(k)
          BY <1>1, <4>1, VisitorIsWho DEF BaseInv, CallsInv
        <5>2. p \in DOMAIN reached /\ Plain(reached[p], v)
          BY <5>1 DEF Changes, Change, Plain
        <5> QED
          BY <1>7, <3>2, <5>1, <5>2 DEF Done
      <4>2. ASSUME NEW p \in Done(v) PROVE p \in Before(k)
        <5>1. p \in DOMAIN reached /\ Change(reached[p]) /\ Plain(reached[p], v) /\ ~Waits(reached[p], v)
          BY <4>2 DEF Done, Changes, Change, Plain
        <5>2. ~(p > Position(k)) /\ p # Position(k)
          BY <1>1, <1>4, <1>7, <3>2, <5>1
        <5>3. p \in 1..Len(reached) /\ Position(k) \in Nat
          BY <1>1, <1>4, <5>1
        <5>4. p \in 1..(Position(k) - 1)
          BY <1>4, <5>2, <5>3
        <5> QED
          BY <5>1, <5>4 DEF Before
      <4> QED
        BY <4>1, <4>2
    <3> QED
      BY <3>1, <3>3, <3>4 DEF OrderInv, Visitors
  <2> QED
    BY <1>10, <2>1, <2>2
<1> QED
  BY <1>6, <1>8, <1>12, <1>15, <1>17, <1>18 DEF OrderInv

(* The calls of the app that start no adapter's job. *)
LEMMA OrderQuiet ==
    ASSUME BaseInv, BaseInv', OrderInv, UNCHANGED <<setup, jobs, log, id, reached>>,
           \A x \in ToSet(reached) : kind'[x] = kind[x]
    PROVE  OrderInv'
<1>1. Taken
  BY DEF Taken, Waits, Has
<1>2. InTurn'
  <2> SUFFICES ASSUME NEW i \in 1..Len(jobs), NEW j \in 1..Len(jobs), i < j,
                      NEW a, a = jobs[i], NEW b, b = jobs[j], a[2] = b[2], a[2] # "facade",
                      Plain(a[1], a[2])', Plain(b[1], b[2])'
               PROVE  Position(a[1]) < Position(b[1])
    BY DEF InTurn, Turn, Position
  <2>1. kind'[a[1]] = kind[a[1]] /\ kind'[b[1]] = kind[b[1]]
    BY DEF BaseInv, JobsInv, Open
  <2>2. Plain(a[1], a[2]) /\ Plain(b[1], b[2])
    BY <2>1 DEF Plain
  <2> QED
    BY <2>2 DEF OrderInv, InTurn, Turn
<1> QED
  BY <1>1, <1>2, OrderStays DEF OrderInv

LEMMA KindStays ==
    ASSUME BaseInv, called < MaxCalls, NEW how, kind' = [kind EXCEPT ![called + 1] = how]
    PROVE  \A x \in Calls \ {called + 1} : kind'[x] = kind[x]
  BY DEF BaseInv, TypeOK

LEMMA ReachedOld ==
    ASSUME BaseInv, called < MaxCalls
    PROVE  \A x \in ToSet(reached) : x \in Calls \ {called + 1}
<1>1. reached \in Seq(Calls)
  BY DEF BaseInv, TypeOK
<1>2. ToSet(reached) \subseteq Calls
  BY <1>1, Members
<1>3. called + 1 \notin ToSet(reached)
  BY NewCall
<1> QED
  BY <1>2, <1>3

LEMMA OrderIdentify == ASSUME BaseInv, BaseInv', OrderInv, CallIdentify PROVE OrderInv'
<1> DEFINE j == <<called + 1, "facade", 1>>
           n == Len(jobs)
<1>1. /\ called < MaxCalls /\ kind' = [kind EXCEPT ![called + 1] = "identify"]
      /\ jobs' = Append(jobs, j) /\ UNCHANGED <<setup, log, id, reached>>
  BY DEF CallIdentify, New
<1>2. \A x \in ToSet(reached) : kind'[x] = kind[x]
  BY <1>1, KindStays, ReachedOld
<1>3. /\ Len(jobs') = n + 1 /\ n \in Nat /\ jobs'[n + 1][2] = "facade"
      /\ \A i \in 1..n : i \in 1..(n + 1) /\ jobs'[i] = jobs[i]
      /\ \A i \in 1..(n + 1) : i \in 1..n \/ i = n + 1
  <2>1. jobs \in Seq(Job) /\ j \in Job /\ j[2] = "facade"
    BY <1>1, JobsType, NewCall DEF BaseInv, Job
  <2> HIDE DEF j
  <2> QED
    BY <1>1, <2>1, Appended
<1> HIDE DEF n
<1>4. Taken
  <2> SUFFICES ASSUME NEW x, NEW v \in Using PROVE Waits(x, v)' <=> Waits(x, v)
    BY <1>1 DEF Taken
  <2>1. v # "facade"
    BY Setup DEF BaseInv, TypeOK
  <2>2. ASSUME Waits(x, v)' PROVE Waits(x, v)
    <3>1. PICK i \in 1..(n + 1) : jobs'[i][1] = x /\ jobs'[i][2] = v
      BY <1>3, <2>2 DEF Waits, Has
    <3> QED
      BY <1>3, <2>1, <3>1 DEF Waits, Has, n
  <2>3. ASSUME Waits(x, v) PROVE Waits(x, v)'
    BY <1>3, <2>3 DEF Waits, Has, n
  <2> QED
    BY <2>2, <2>3
<1>5. InTurn'
  <2> SUFFICES ASSUME NEW i \in 1..(n + 1), NEW m \in 1..(n + 1), i < m,
                      NEW a, a = jobs'[i], NEW b, b = jobs'[m], a[2] = b[2], a[2] # "facade",
                      Plain(a[1], a[2])', Plain(b[1], b[2])'
               PROVE  Position(a[1]) < Position(b[1])
    BY <1>1, <1>3 DEF InTurn, Turn, Position
  <2>1. i \in 1..n /\ m \in 1..n /\ a = jobs[i] /\ b = jobs[m]
    BY <1>3
  <2>2. kind'[a[1]] = kind[a[1]] /\ kind'[b[1]] = kind[b[1]]
    BY <1>2, <2>1 DEF BaseInv, JobsInv, Open, n
  <2>3. Plain(a[1], a[2]) /\ Plain(b[1], b[2])
    BY <2>2 DEF Plain
  <2> QED
    BY <2>1, <2>3 DEF OrderInv, InTurn, Turn, n
<1> QED
  BY <1>1, <1>2, <1>4, <1>5, OrderStays DEF OrderInv

LEMMA OrderAgain == ASSUME BaseInv, BaseInv', OrderInv, AwaitsAgain PROVE OrderInv'
<1> DEFINE n == Len(jobs)
<1>1. /\ \A x, v : Waits(x, v)' <=> Waits(x, v)
      /\ n \in Nat /\ n # 0 /\ Len(jobs') = n /\ jobs[1][3] # 0
      /\ \A i \in 1..n : i # n => i + 1 \in 1..n /\ jobs'[i] = jobs[i + 1]
      /\ jobs'[n] = <<jobs[1][1], jobs[1][2], jobs[1][3] - 1>>
  BY AgainHas DEF BaseInv
<1>2. UNCHANGED <<setup, kind, reached, log, id>>
  BY DEF AwaitsAgain, app
<1>3. Taken
  BY <1>1, <1>2 DEF Taken
<1>4. InTurn'
  <2> SUFFICES ASSUME NEW i \in 1..n, NEW m \in 1..n, i < m,
                      NEW a, a = jobs'[i], NEW b, b = jobs'[m], a[2] = b[2], a[2] # "facade",
                      Plain(a[1], a[2]), Plain(b[1], b[2])
               PROVE  Position(a[1]) < Position(b[1])
    BY <1>1, <1>2 DEF InTurn, Turn, Position, Plain
  <2>1. a = jobs[i + 1] /\ i + 1 \in 1..n
    BY <1>1
  <2>2. CASE m # n
    <3>1. b = jobs[m + 1] /\ m + 1 \in 1..n /\ i + 1 < m + 1
      BY <1>1, <2>2
    <3>2. PICK p, q \in 1..n : p < q /\ a = jobs[p] /\ b = jobs[q]
      BY <2>1, <3>1
    <3> QED
      BY <3>2 DEF OrderInv, InTurn, Turn
  <2>3. CASE m = n
    <3>1. PICK h : h = jobs[1] /\ h[3] # 0 /\ b[1] = h[1] /\ b[2] = h[2]
      BY <1>1, <2>3
    <3>2. Open(h)
      BY <1>1, <3>1 DEF BaseInv, JobsInv
    <3> QED
      BY <3>1, <3>2 DEF Open
  <2> QED
    BY <2>2, <2>3
<1> QED
  BY <1>2, <1>3, <1>4, OrderStays DEF OrderInv

LEMMA OrderCallOut ==
    ASSUME BaseInv, BaseInv', OrderInv, NEW how \in Kinds, CallOut(how)
    PROVE  OrderInv'
<1> DEFINE k == called + 1
<1>1. /\ called < MaxCalls /\ kind' = [kind EXCEPT ![k] = how]
      /\ how \in {"identify", "track", "page", "reset"} /\ FanOut(k, how, jobs)
      /\ UNCHANGED <<setup, log, id>>
  BY DEF CallOut, New
<1>2. k \in Calls /\ k \notin ToSet(reached) /\ \A v : ~Waits(k, v)
  BY <1>1, NewCall
<1>3. \A x \in Calls \ {k} : kind'[x] = kind[x]
  BY <1>1, KindStays
<1>4. /\ jobs \in Seq(Job) /\ Unique(jobs) /\ Turn(jobs)
      /\ \A i \in 1..Len(jobs) : \E j \in 1..Len(jobs) : jobs[i] = jobs[j]
  BY JobsType DEF BaseInv, JobsInv, OrderInv, InTurn
<1>5. /\ \A v : ~Has(jobs, k, v) \/ v = "facade"
      /\ \A x, v : v \in Using => (Has(jobs, x, v) <=> Waits(x, v))
  BY <1>2 DEF Waits
<1>6. \A v : v \in Using => ~Waits(k, v)
  BY <1>2
<1> HIDE DEF k
<1> QED
  BY <1>1, <1>2, <1>3, <1>4, <1>5, <1>6, OrderFan

LEMMA OrderContext ==
    ASSUME BaseInv, BaseInv', OrderInv, NEW k \in Calls, ContextThere(k)
    PROVE  OrderInv'
<1> DEFINE rest == Tail(jobs)
<1>1. /\ jobs # <<>> /\ FanOut(k, "identify", rest) /\ jobs[1][1] = k /\ jobs[1][2] = "facade"
      /\ UNCHANGED <<setup, kind, log, id>>
  BY ResumesFirst DEF ContextThere, Resumes, app, BaseInv
<1>2. /\ rest \in Seq(Job) /\ 1 \in 1..Len(jobs)
      /\ \A i \in 1..Len(rest) : i + 1 \in 1..Len(jobs) /\ rest[i] = jobs[i + 1]
  BY <1>1, Queue DEF BaseInv
<1>3. pc[k] = "context"
  BY <1>1, <1>2 DEF BaseInv, JobsInv, Open
<1>4. k \notin ToSet(reached)
  BY <1>3 DEF BaseInv, CallsInv
<1>5. \A v : v # "facade" => ~Waits(k, v)
  BY <1>4 DEF BaseInv, JobsInv, Open, Waits, Has
<1>6. "facade" \notin Using
  BY Setup DEF BaseInv, TypeOK
<1>7. /\ Unique(rest)
      /\ \A x, v : Has(rest, x, v) <=> Waits(x, v) /\ ~(x = k /\ v = "facade")
  BY <1>1, TailHas DEF BaseInv
<1>8. Turn(rest)
  <2> SUFFICES ASSUME NEW i \in 1..Len(rest), NEW j \in 1..Len(rest), i < j,
                      rest[i][2] = rest[j][2], rest[i][2] # "facade",
                      Plain(rest[i][1], rest[i][2]), Plain(rest[j][1], rest[j][2])
               PROVE  Position(rest[i][1]) < Position(rest[j][1])
    BY DEF Turn
  <2>1. /\ rest[i] = jobs[i + 1] /\ rest[j] = jobs[j + 1]
        /\ i + 1 \in 1..Len(jobs) /\ j + 1 \in 1..Len(jobs) /\ i + 1 < j + 1
    BY <1>2
  <2> HIDE DEF rest
  <2> QED
    BY <2>1 DEF OrderInv, InTurn, Turn
<1> HIDE DEF rest
<1>9. /\ \A v : v \in Using => ~Waits(k, v)
      /\ \A v : ~Has(rest, k, v) \/ v = "facade"
      /\ \A x, v : v \in Using => (Has(rest, x, v) <=> Waits(x, v))
      /\ \A i \in 1..Len(rest) : \E j \in 1..Len(jobs) : rest[i] = jobs[j]
      /\ \A x \in Calls \ {k} : kind'[x] = kind[x]
  BY <1>1, <1>2, <1>5, <1>6, <1>7
<1> QED
  BY <1>1, <1>2, <1>4, <1>7, <1>8, <1>9, OrderFan

LEMMA OrderNext == BaseInv /\ BaseInv' /\ OrderInv /\ [Next]_vars => OrderInv'
<1> SUFFICES ASSUME BaseInv, BaseInv', OrderInv, [Next]_vars PROVE OrderInv'
  OBVIOUS
<1>1. CASE InitEnds
  <2>1. UNCHANGED <<setup, kind, jobs, log, id, reached>>
    BY <1>1 DEF InitEnds
  <2> QED
    BY <2>1, OrderQuiet
<1>2. ASSUME NEW how \in Kinds, Ignored(how) PROVE OrderInv'
  <2>1. /\ called < MaxCalls /\ kind' = [kind EXCEPT ![called + 1] = how]
        /\ UNCHANGED <<setup, jobs, log, id, reached>>
    BY <1>2 DEF Ignored, New
  <2> QED
    BY <2>1, KindStays, ReachedOld, OrderQuiet
<1>3. ASSUME NEW how \in Kinds, CallOut(how) PROVE OrderInv'
  BY <1>3, OrderCallOut
<1>4. CASE CallIdentify
  BY <1>4, OrderIdentify
<1>5. CASE CallFlush
  <2>1. /\ called < MaxCalls /\ kind' = [kind EXCEPT ![called + 1] = "flush"]
        /\ UNCHANGED <<setup, jobs, log, id, reached>>
    BY <1>5 DEF CallFlush, New
  <2> QED
    BY <2>1, KindStays, ReachedOld, OrderQuiet
<1>6. CASE CallStop
  <2>1. /\ called < MaxCalls /\ kind' = [kind EXCEPT ![called + 1] = "stop"]
        /\ UNCHANGED <<setup, jobs, log, id, reached>>
    BY <1>6 DEF CallStop
  <2> QED
    BY <2>1, KindStays, ReachedOld, OrderQuiet
<1>7. CASE AwaitsAgain
  BY <1>7, OrderAgain
<1>8. ASSUME NEW k \in Calls, ContextThere(k) PROVE OrderInv'
  BY <1>8, OrderContext
<1>9. ASSUME NEW k \in Calls, NEW v \in Using, Forwards(k, v) PROVE OrderInv'
  BY <1>9, OrderForwards
<1>10. CASE VendorAnswers
  <2>1. UNCHANGED <<setup, kind, jobs, log, id, reached>>
    BY <1>10 DEF VendorAnswers, Answers, app
  <2> QED
    BY <2>1, OrderQuiet
<1>11. CASE UNCHANGED vars
  <2>1. UNCHANGED <<setup, kind, jobs, log, id, reached>>
    BY <1>11 DEF vars
  <2> QED
    BY <2>1, OrderQuiet
<1> QED
  BY <1>1, <1>2, <1>3, <1>4, <1>5, <1>6, <1>7, <1>8, <1>9, <1>10, <1>11 DEF Next, Runs

LEMMA OrderInvariant == Spec => []OrderInv
  BY OrderInit, BaseInvariant, OrderNext, PTL DEF Spec

(* However the calls of the app overlap and however many adapters there    *)
(* are, a vendor gets its events in the order of their fan-outs, each at   *)
(* most once; only page views that an adapter forwards to its own track    *)
(* can be overtaken.                                                       *)
THEOREM InTheirOrder == Spec => []VendorOrder
<1>1. OrderInv => VendorOrder
  BY DEF OrderInv
<1> QED
  BY <1>1, OrderInvariant, PTL

(* And it gets each of them under the visitor of the moment the event was  *)
(* fanned out, with the same exception: an identify or a reset that comes  *)
(* later, or is still on its way to this adapter, is never credited with   *)
(* an event that was there before.                                         *)
THEOREM RightVisitor == Spec => []Attributed
<1>1. OrderInv => Attributed
  BY DEF OrderInv
<1> QED
  BY <1>1, OrderInvariant, PTL
-----------------------------------------------------------------------------
(* What a shutdown has made sure of *)

LEMMA FlushInit == Init => FlushInv
<1> SUFFICES ASSUME Init PROVE FlushInv
  OBVIOUS
<1>1. ToSet(reached) = {}
  <2>1. <<>> \in Seq(Calls) /\ Len(<<>>) = 0 /\ 1..0 = {}
    BY EmptySeq
  <2> QED
    BY <2>1, Members DEF Init
<1> QED
  BY <1>1 DEF Init, FlushInv, GivenInv, AnsweredInv, StopInv, EventAt, First

(* What a vendor owes, has sent or has failed is not lost. *)
LEMMA AccountStays ==
    ASSUME TypeOK, [Next]_vars
    PROVE  \A s, k \in Calls, v \in Using : Accounted(s, k, v) => Accounted(s, k, v)'
<1>1. CASE asking \subseteq asking' /\ UNCHANGED <<sent, failed>>
  BY <1>1 DEF Accounted
<1>2. ASSUME NEW x \in Calls, NEW w \in Using, NEW S, Answers(x, w, S)
      PROVE  \A s, k \in Calls, v \in Using : Accounted(s, k, v) => Accounted(s, k, v)'
  <2>1. /\ asking' = asking \ {<<x, w, S>>}
        /\ \/ sent' = [sent EXCEPT ![w] = @ \cup S] /\ UNCHANGED failed
           \/ failed' = [failed EXCEPT ![x] = @ \cup {w}] /\ UNCHANGED sent
    BY <1>2 DEF Answers
  <2>2. /\ \A v \in Using : sent[v] \subseteq sent'[v]
        /\ \A s \in Calls : failed[s] \subseteq failed'[s]
        /\ S \subseteq sent'[w] \/ w \in failed'[x]
    <3>1. sent \in [Using -> SUBSET Calls] /\ failed \in [Calls -> SUBSET Using]
      BY DEF TypeOK
    <3>2. CASE sent' = [sent EXCEPT ![w] = @ \cup S] /\ UNCHANGED failed
      BY <3>1, <3>2
    <3>3. CASE failed' = [failed EXCEPT ![x] = @ \cup {w}] /\ UNCHANGED sent
      BY <3>1, <3>3
    <3> QED
      BY <2>1, <3>2, <3>3
  <2> SUFFICES ASSUME NEW s \in Calls, NEW k \in Calls, NEW v \in Using, Accounted(s, k, v)
               PROVE  Accounted(s, k, v)'
    OBVIOUS
  <2>3. CASE k \in sent[v] \/ v \in failed[s]
    BY <2>2, <2>3 DEF Accounted
  <2>4. ASSUME NEW a \in asking, a[1] = s, a[2] = v, k \in a[3] PROVE Accounted(s, k, v)'
    <3>1. CASE a = <<x, w, S>>
      <4>1. s = x /\ v = w /\ k \in S
        BY <2>4, <3>1
      <4> QED
        BY <2>2, <4>1 DEF Accounted
    <3>2. CASE a # <<x, w, S>>
      BY <2>1, <2>4, <3>2 DEF Accounted
    <3> QED
      BY <3>1, <3>2
  <2> QED
    BY <2>3, <2>4 DEF Accounted
<1>3. CASE VendorAnswers
  <2>1. PICK ask \in asking : Answers(ask[1], ask[2], ask[3])
    BY <1>3 DEF VendorAnswers
  <2>2. ask[1] \in Calls /\ ask[2] \in Using
    BY <2>1 DEF TypeOK
  <2> QED
    BY <1>2, <2>1, <2>2
<1>4. ASSUME ~VendorAnswers PROVE asking \subseteq asking' /\ UNCHANGED <<sent, failed>>
  <2>1. CASE InitEnds
    BY <2>1 DEF InitEnds
  <2>2. ASSUME NEW how \in Kinds, Ignored(how) \/ CallOut(how) PROVE asking' = asking /\ UNCHANGED <<sent, failed>>
    BY <2>2 DEF Ignored, CallOut, New
  <2>3. CASE CallIdentify
    BY <2>3 DEF CallIdentify, New
  <2>4. CASE CallFlush
    BY <2>4 DEF CallFlush, New, Asks
  <2>5. CASE CallStop
    BY <2>5 DEF CallStop, Asks
  <2>6. CASE AwaitsAgain
    BY <2>6 DEF AwaitsAgain
  <2>7. ASSUME NEW k \in Calls, ContextThere(k) PROVE asking' = asking /\ UNCHANGED <<sent, failed>>
    BY <2>7 DEF ContextThere
  <2>8. ASSUME NEW k \in Calls, NEW v \in Using, Forwards(k, v)
        PROVE asking \subseteq asking' /\ UNCHANGED <<sent, failed>>
    BY <2>8 DEF Forwards
  <2>9. CASE UNCHANGED vars
    BY <2>9 DEF vars
  <2> QED
    BY <1>4, <2>1, <2>2, <2>3, <2>4, <2>5, <2>6, <2>7, <2>8, <2>9 DEF Next, Runs
<1> QED
  BY <1>1, <1>3, <1>4

(* A fan-out is that of a call that has not returned. *)
LEMMA FannedOut ==
    ASSUME BaseInv, NEW k \in Calls, (\E how \in Kinds : CallOut(how) /\ k = called + 1) \/ ContextThere(k)
    PROVE  /\ pc[k] \in {"none", "context"} /\ k \notin ToSet(reached) /\ reached' = Append(reached, k)
           /\ \A v \in Using : Waits(k, v)'
           /\ \A x, v : v \in Using => (Waits(x, v) => Waits(x, v)')
           /\ UNCHANGED <<setup, client, log, stopped, known>> /\ \A x \in Calls \ {k} : pc'[x] = pc[x] /\ kind'[x] = kind[x]
<1>1. PICK how \in {"identify", "track", "page", "reset"}, rest \in Seq(Job) :
        /\ FanOut(k, how, rest) /\ pc[k] \in {"none", "context"} /\ k \notin ToSet(reached)
        /\ \A v \in Using : ~Has(rest, k, v)
        /\ \A x, v : v \in Using => (Waits(x, v) => Has(rest, x, v))
        /\ Unique(rest)
        /\ \A x \in Calls \ {k} : kind'[x] = kind[x]
        /\ UNCHANGED <<setup, client, log, stopped, known>>
  <2>1. ASSUME NEW how \in Kinds, CallOut(how), k = called + 1
        PROVE  /\ FanOut(k, how, jobs) /\ pc[k] = "none" /\ k \notin ToSet(reached)
               /\ \A v : ~Waits(k, v)
               /\ \A x \in Calls \ {k} : kind'[x] = kind[x]
               /\ jobs \in Seq(Job) /\ Unique(jobs)
               /\ how \in {"identify", "track", "page", "reset"}
               /\ UNCHANGED <<setup, client, log, stopped, known>>
    <3>1. called < MaxCalls /\ kind' = [kind EXCEPT ![k] = how]
      BY <2>1 DEF CallOut, New
    <3> QED
      BY <2>1, <3>1, NewCall, KindStays, JobsType DEF CallOut, New, BaseInv, JobsInv
  <2>2. ASSUME ContextThere(k)
        PROVE  /\ FanOut(k, "identify", Tail(jobs)) /\ pc[k] = "context" /\ k \notin ToSet(reached)
               /\ Tail(jobs) \in Seq(Job) /\ Unique(Tail(jobs))
               /\ \A v \in Using : ~Has(Tail(jobs), k, v)
               /\ \A x, v : v \in Using => (Waits(x, v) => Has(Tail(jobs), x, v))
               /\ UNCHANGED <<setup, client, kind, log, stopped, known>>
    <3>1. jobs # <<>> /\ jobs[1][1] = k /\ jobs[1][2] = "facade" /\ 1 \in 1..Len(jobs)
      BY <2>2, ResumesFirst, Queue DEF ContextThere, BaseInv
    <3>2. pc[k] = "context"
      BY <3>1 DEF BaseInv, JobsInv, Open
    <3>3. k \notin ToSet(reached) /\ "facade" \notin Using
      BY <3>2, Setup DEF BaseInv, CallsInv, TypeOK
    <3>4. /\ Unique(Tail(jobs)) /\ Tail(jobs) \in Seq(Job)
          /\ \A x, v : Has(Tail(jobs), x, v) <=> Waits(x, v) /\ ~(x = k /\ v = "facade")
      BY <3>1, TailHas, Queue DEF BaseInv
    <3>5. \A v \in Using : ~Waits(k, v)
      BY <3>3 DEF BaseInv, JobsInv, Open, Waits, Has
    <3> QED
      BY <2>2, <3>2, <3>3, <3>4, <3>5 DEF ContextThere, app
  <2>3. CASE \E how \in Kinds : CallOut(how) /\ k = called + 1
    BY <2>1, <2>3 DEF Waits
  <2>4. CASE ContextThere(k)
    BY <2>2, <2>4
  <2> QED
    BY <2>3, <2>4
<1>2. how \in Kinds /\ setup \in Setups /\ TypeOK
  BY DEF Kinds, BaseInv, TypeOK
<1>3. jobs' = rest \o Fan(k, how) /\ reached' = Append(reached, k)
  BY <1>1, <1>2, FanOutType
<1>4. \A x, v : Has(rest \o Fan(k, how), x, v) <=> Has(rest, x, v) \/ (x = k /\ v \in Using)
  <2>1. \A v : ~Has(rest, k, v) \/ v = "facade"
    <3>1. ASSUME NEW v, Has(rest, k, v) PROVE v \in Using \cup {"facade"}
      <4>1. PICK i \in 1..Len(rest) : rest[i][2] = v
        BY <3>1 DEF Has
      <4>2. rest[i] \in Job
        BY <4>1, ElementOfSeq
      <4> QED
        BY <4>1, <4>2, JobParts
    <3> QED
      BY <1>1, <3>1
  <2> QED
    BY <1>1, <1>2, <2>1, FanHas
<1>5. \A x, v : Waits(x, v)' <=> Has(rest, x, v) \/ (x = k /\ v \in Using)
  <2>1. PICK s : s = jobs'
    OBVIOUS
  <2>2. \A x, v : Has(s, x, v) <=> Has(rest, x, v) \/ (x = k /\ v \in Using)
    BY <1>3, <1>4, <2>1
  <2>3. \A x, v : Waits(x, v)' <=> Has(s, x, v)
    BY <2>1, <2>2 DEF Waits, Has
  <2> QED
    BY <2>2, <2>3
<1>6. \A x \in Calls \ {k} : pc'[x] = pc[x]
  BY <1>1, <1>2 DEF FanOut, TypeOK
<1> QED
  BY <1>1, <1>3, <1>5, <1>6

(* The steps that fan nothing out and let no adapter forward.              *)
Quiet ==
    /\ UNCHANGED <<setup, log, reached>> /\ \A x \in ToSet(reached) : kind'[x] = kind[x]
    /\ \A x, v : v \in Using => (Waits(x, v)' <=> Waits(x, v))
    /\ \A v \in Using : client'[v] = client[v] \/ reached = <<>>

LEMMA Steps ==
    ASSUME BaseInv, BaseInv', [Next]_vars
    PROVE  \/ Quiet
           \/ \E k \in Calls : (\E how \in Kinds : CallOut(how) /\ k = called + 1) \/ ContextThere(k)
           \/ \E k \in Calls, v \in Using : Forwards(k, v)
<1>1. ASSUME UNCHANGED <<setup, client, jobs, log, reached>>, \A x \in ToSet(reached) : kind'[x] = kind[x]
      PROVE  Quiet
  BY <1>1 DEF Quiet, Waits, Has
<1>2. CASE InitEnds
  <2>1. reached = <<>> /\ UNCHANGED <<setup, kind, jobs, log, reached>>
    BY <1>2 DEF InitEnds, BaseInv, EarlyInv
  <2> QED
    BY <2>1 DEF Quiet, Waits, Has
<1>3. ASSUME NEW how \in Kinds, Ignored(how) PROVE Quiet
  <2>1. /\ called < MaxCalls /\ kind' = [kind EXCEPT ![called + 1] = how]
        /\ UNCHANGED <<setup, client, jobs, log, reached>>
    BY <1>3 DEF Ignored, New
  <2> QED
    BY <1>1, <2>1, KindStays, ReachedOld
<1>4. ASSUME NEW how \in Kinds, CallOut(how) PROVE called + 1 \in Calls
  BY <1>4, NewCall DEF CallOut, New
<1>5. CASE CallIdentify
  <2> DEFINE j == <<called + 1, "facade", 1>>
             n == Len(jobs)
  <2>1. /\ called < MaxCalls /\ kind' = [kind EXCEPT ![called + 1] = "identify"]
        /\ jobs' = Append(jobs, j) /\ UNCHANGED <<setup, client, log, id, reached>>
    BY <1>5 DEF CallIdentify, New
  <2>2. \A x \in ToSet(reached) : kind'[x] = kind[x]
    BY <2>1, KindStays, ReachedOld
  <2>3. /\ Len(jobs') = n + 1 /\ n \in Nat /\ jobs'[n + 1][2] = "facade"
        /\ \A i \in 1..n : i \in 1..(n + 1) /\ jobs'[i] = jobs[i]
        /\ \A i \in 1..(n + 1) : i \in 1..n \/ i = n + 1
    <3>1. jobs \in Seq(Job) /\ j \in Job /\ j[2] = "facade"
      BY <2>1, JobsType, NewCall DEF BaseInv, Job
    <3> HIDE DEF j
    <3> QED
      BY <2>1, <3>1, Appended
  <2> HIDE DEF n
  <2>4. ASSUME NEW x, NEW v \in Using PROVE Waits(x, v)' <=> Waits(x, v)
    <3>1. v # "facade"
      BY Setup DEF BaseInv, TypeOK
    <3>2. ASSUME Waits(x, v)' PROVE Waits(x, v)
      <4>1. PICK i \in 1..(n + 1) : jobs'[i][1] = x /\ jobs'[i][2] = v
        BY <2>3, <3>2 DEF Waits, Has
      <4> QED
        BY <2>3, <3>1, <4>1 DEF Waits, Has, n
    <3>3. ASSUME Waits(x, v) PROVE Waits(x, v)'
      BY <2>3, <3>3 DEF Waits, Has, n
    <3> QED
      BY <3>2, <3>3
  <2> QED
    BY <2>1, <2>2, <2>4 DEF Quiet
<1>6. CASE CallFlush
  <2>1. /\ called < MaxCalls /\ kind' = [kind EXCEPT ![called + 1] = "flush"]
        /\ UNCHANGED <<setup, client, jobs, log, reached>>
    BY <1>6 DEF CallFlush, New
  <2> QED
    BY <1>1, <2>1, KindStays, ReachedOld
<1>7. CASE CallStop
  <2>1. /\ called < MaxCalls /\ kind' = [kind EXCEPT ![called + 1] = "stop"]
        /\ UNCHANGED <<setup, client, jobs, log, reached>>
    BY <1>7 DEF CallStop
  <2> QED
    BY <1>1, <2>1, KindStays, ReachedOld
<1>8. CASE AwaitsAgain
  <2>1. UNCHANGED <<setup, client, kind, log, reached>>
    BY <1>8 DEF AwaitsAgain, app
  <2>2. \A x, v : Waits(x, v)' <=> Waits(x, v)
    BY <1>8, AgainHas DEF BaseInv
  <2> QED
    BY <2>1, <2>2 DEF Quiet
<1>9. CASE VendorAnswers
  <2>1. UNCHANGED <<setup, client, kind, jobs, log, reached>>
    BY <1>9 DEF VendorAnswers, Answers, app
  <2> QED
    BY <1>1, <2>1
<1>10. CASE UNCHANGED vars
  <2>1. UNCHANGED <<setup, client, kind, jobs, log, reached>>
    BY <1>10 DEF vars
  <2> QED
    BY <1>1, <2>1
<1> QED
  BY <1>2, <1>3, <1>4, <1>5, <1>6, <1>7, <1>8, <1>9, <1>10 DEF Next, Runs

(* What an adapter that forwards does for an event. *)
LEMMA ForwardsEvent ==
    ASSUME BaseInv, NEW k \in Calls, NEW v \in Using, Forwards(k, v)
    PROVE  /\ UNCHANGED <<setup, client, kind, reached>>
           /\ \A w \in Using : Given(w) \subseteq Given(w)'
           /\ kind[k] \in Events /\ client[v] => k \in Given(v)'
           /\ kind[k] \in Events /\ client[v] /\ Adapter[v].waits # "never" => Accounted(k, k, v)'
<1> DEFINE event == kind[k] \in Events /\ client[v]
           entry == [call |-> k, id |-> id[v]]
           E == [call : Calls, id : Calls \cup {None}]
<1>1. UNCHANGED <<setup, client, kind, reached>>
  BY DEF Forwards, app
<1>2. log' = IF event THEN [log EXCEPT ![v] = Append(log[v], entry)] ELSE log
  BY DEF Forwards
<1>3. log \in [Using -> Seq(E)] /\ (entry \in E) /\ entry.call = k
  BY DEF BaseInv, TypeOK
<1> HIDE DEF entry, E
<1>4. ASSUME event
      PROVE  k \in Given(v)' /\ Given(v) \subseteq Given(v)'
  <2> DEFINE s == log[v]
  <2>1. s \in Seq(E) /\ log'[v] = Append(s, entry)
    BY <1>2, <1>3, <1>4
  <2> HIDE DEF s
  <2>2. /\ Append(s, entry) \in Seq(E) /\ Len(Append(s, entry)) = Len(s) + 1 /\ Len(s) \in Nat
        /\ \A i \in 1..Len(s) : i \in 1..(Len(s) + 1) /\ Append(s, entry)[i] = s[i]
        /\ Append(s, entry)[Len(s) + 1] = entry
    BY <1>3, <2>1, Appended
  <2>3. DOMAIN s = 1..Len(s) /\ DOMAIN log'[v] = 1..(Len(s) + 1)
    BY <2>1, <2>2, LenProperties
  <2>4. Len(s) + 1 \in DOMAIN log'[v] /\ log'[v][Len(s) + 1].call = k
    BY <1>3, <2>1, <2>2, <2>3
  <2>5. \A i \in DOMAIN s : i \in DOMAIN log'[v] /\ log'[v][i] = s[i]
    BY <2>1, <2>2, <2>3
  <2> QED
    BY <2>4, <2>5 DEF Given, s
<1>5. ASSUME NEW w \in Using PROVE Given(w) \subseteq Given(w)'
  <2>1. CASE event /\ w = v
    BY <1>4, <2>1
  <2>2. CASE ~(event /\ w = v)
    <3>1. log'[w] = log[w]
      BY <1>2, <1>3, <2>2
    <3> QED
      BY <3>1 DEF Given
  <2> QED
    BY <2>1, <2>2
<1>6. ASSUME event, Adapter[v].waits # "never" PROVE Accounted(k, k, v)'
  <2>1. Adapter[v].waits \in {"client", "always"} /\ kind[k] # "reset"
    <3>1. v \in Vendors
      BY Setup DEF BaseInv, TypeOK
    <3> QED
      BY <1>6, <3>1, AdapterFacts DEF Events
  <2>2. WaitsForVendor(k, v)
    BY <1>6, <2>1 DEF WaitsForVendor
  <2>3. asking' = asking \cup {<<k, v, {k}>>}
    BY <1>6, <2>2 DEF Forwards
  <2>4. PICK a \in asking' : a = <<k, v, {k}>>
    BY <2>3
  <2>5. a[1] = k /\ a[2] = v /\ k \in a[3]
    BY <2>4
  <2> QED
    BY <2>5 DEF Accounted
<1> QED
  BY <1>1, <1>4, <1>5, <1>6

LEMMA FlushKeeps ==
    ASSUME BaseInv, BaseInv', FlushInv, [Next]_vars
    PROVE  GivenInv' /\ AnsweredInv'
<1>1. \A s, k \in Calls, v \in Using : Accounted(s, k, v) => Accounted(s, k, v)'
  BY AccountStays DEF BaseInv
<1>2. ToSet(reached) \subseteq Calls
  <2>1. reached \in Seq(Calls)
    BY DEF BaseInv, TypeOK
  <2> QED
    BY <2>1, Members
<1>3. reached = <<>> => ToSet(reached) = {}
  <2>1. <<>> \in Seq(Calls) /\ Len(<<>>) = 0 /\ 1..0 = {}
    BY EmptySeq
  <2> QED
    BY <2>1, Members
<1> SUFFICES ASSUME NEW x \in Calls, NEW w \in Using', EventAt(x, w)'
             PROVE  /\ Waits(x, w)' \/ x \in Given(w)'
                    /\ ~Waits(x, w)' /\ Adapter[w].waits # "never" => Accounted(x, x, w)'
  BY DEF GivenInv, AnsweredInv
<1>4. CASE Quiet
  <2>1. w \in Using /\ x \in ToSet(reached)
    BY <1>4 DEF Quiet, Using, EventAt
  <2>2. EventAt(x, w)
    BY <1>3, <1>4, <2>1 DEF Quiet, EventAt
  <2>3. Given(w)' = Given(w) /\ (Waits(x, w)' <=> Waits(x, w))
    BY <1>4, <2>1 DEF Quiet, Given
  <2> QED
    BY <1>1, <2>1, <2>2, <2>3 DEF FlushInv, GivenInv, AnsweredInv
<1>5. ASSUME NEW k \in Calls, (\E how \in Kinds : CallOut(how) /\ k = called + 1) \/ ContextThere(k)
      PROVE  /\ Waits(x, w)' \/ x \in Given(w)'
             /\ ~Waits(x, w)' /\ Adapter[w].waits # "never" => Accounted(x, x, w)'
  <2>1. /\ k \notin ToSet(reached) /\ reached' = Append(reached, k)
        /\ \A v \in Using : Waits(k, v)'
        /\ \A y, v : v \in Using => (Waits(y, v) => Waits(y, v)')
        /\ UNCHANGED <<setup, client, log>> /\ \A y \in Calls \ {k} : kind'[y] = kind[y]
    BY <1>5, FannedOut
  <2>2. w \in Using
    BY <2>1 DEF Using
  <2>3. x \in ToSet(reached) \/ x = k
    BY <2>1, ReachedMore DEF EventAt, BaseInv
  <2>4. CASE x = k
    BY <2>1, <2>2, <2>4
  <2>5. CASE x # k
    <3>1. EventAt(x, w)
      BY <2>1, <2>2, <2>3, <2>5 DEF EventAt
    <3>2. Given(w)' = Given(w)
      BY <2>1 DEF Given
    <3> QED
      BY <1>1, <2>1, <2>2, <3>1, <3>2 DEF FlushInv, GivenInv, AnsweredInv
  <2> QED
    BY <2>4, <2>5
<1>6. ASSUME NEW k \in Calls, NEW v \in Using, Forwards(k, v)
      PROVE  /\ Waits(x, w)' \/ x \in Given(w)'
             /\ ~Waits(x, w)' /\ Adapter[w].waits # "never" => Accounted(x, x, w)'
  <2>1. /\ UNCHANGED <<setup, client, kind, reached>>
        /\ \A u \in Using : Given(u) \subseteq Given(u)'
        /\ kind[k] \in Events /\ client[v] => k \in Given(v)'
        /\ kind[k] \in Events /\ client[v] /\ Adapter[v].waits # "never" => Accounted(k, k, v)'
    BY <1>6, ForwardsEvent
  <2>2. \A y, u : Waits(y, u)' <=> Waits(y, u) /\ ~(y = k /\ u = v)
    BY <1>6, ForwardsHas
  <2>3. w \in Using /\ EventAt(x, w)
    BY <2>1 DEF EventAt, Using
  <2>4. CASE x = k /\ w = v
    BY <2>1, <2>3, <2>4 DEF EventAt
  <2>5. CASE ~(x = k /\ w = v)
    BY <1>1, <2>1, <2>2, <2>3, <2>5 DEF FlushInv, GivenInv, AnsweredInv
  <2> QED
    BY <2>4, <2>5
<1> QED
  BY <1>4, <1>5, <1>6, Steps

(* A call that has returned stays so, and its event was fanned out before. *)
LEMMA SettledStays ==
    ASSUME BaseInv, BaseInv', [Next]_vars, NEW k \in Calls, pc[k] = "settled"
    PROVE  pc'[k] = "settled" /\ \A v : EventAt(k, v)' => EventAt(k, v)
<1>1. pc'[k] = "settled"
  <2>1. ASSUME NEW x \in Calls, pc[x] # "settled", NEW now, pc' = [pc EXCEPT ![x] = now]
        PROVE  pc'[k] = "settled"
    BY <2>1 DEF BaseInv, TypeOK
  <2>2. ASSUME called < MaxCalls PROVE called + 1 \in Calls /\ pc[called + 1] = "none"
    BY <2>2, NewCall
  <2>3. ASSUME NEW x \in Calls, NEW v \in Using, Settle(x, v) PROVE pc'[k] = "settled"
    BY <2>3 DEF Settle, BaseInv, TypeOK
  <2>4. CASE InitEnds \/ AwaitsAgain \/ UNCHANGED vars
    BY <2>4 DEF InitEnds, AwaitsAgain, vars
  <2>5. ASSUME NEW how \in Kinds, Ignored(how) PROVE pc'[k] = "settled"
    BY <2>1, <2>2, <2>5 DEF Ignored, New
  <2>6. ASSUME NEW x \in Calls, (\E how \in Kinds : CallOut(how) /\ x = called + 1) \/ ContextThere(x)
        PROVE  pc'[k] = "settled"
    <3>1. pc[x] \in {"none", "context"} /\ \A y \in Calls \ {x} : pc'[y] = pc[y]
      BY <2>6, FannedOut
    <3> QED
      BY <3>1
  <2>7. ASSUME NEW how \in Kinds, CallOut(how) PROVE pc'[k] = "settled"
    <3>1. called + 1 \in Calls
      BY <2>2, <2>7 DEF CallOut, New
    <3> QED
      BY <2>6, <2>7, <3>1
  <2>8. CASE CallIdentify
    BY <2>1, <2>2, <2>8 DEF CallIdentify, New
  <2>9. CASE CallFlush
    BY <2>1, <2>2, <2>9 DEF CallFlush, New, Asks
  <2>10. CASE CallStop
    BY <2>1, <2>2, <2>10 DEF CallStop, Asks
  <2>11. ASSUME NEW x \in Calls, NEW v \in Using, Forwards(x, v) PROVE pc'[k] = "settled"
    BY <2>3, <2>11 DEF Forwards
  <2>12. CASE VendorAnswers
    <3>1. PICK ask \in asking : Answers(ask[1], ask[2], ask[3])
      BY <2>12 DEF VendorAnswers
    <3>2. ask[1] \in Calls /\ ask[2] \in Using /\ Settle(ask[1], ask[2])
      BY <3>1 DEF BaseInv, TypeOK, Answers
    <3> QED
      BY <2>3, <3>2
  <2> QED
    BY <2>4, <2>5, <2>6, <2>7, <2>8, <2>9, <2>10, <2>11, <2>12 DEF Next, Runs
<1>2. ASSUME NEW v, EventAt(k, v)' PROVE EventAt(k, v)
  <2>1. reached = <<>> => ToSet(reached) = {}
    <3>1. <<>> \in Seq(Calls) /\ Len(<<>>) = 0 /\ 1..0 = {}
      BY EmptySeq
    <3> QED
      BY <3>1, Members
  <2>2. CASE Quiet
    BY <1>2, <2>1, <2>2 DEF Quiet, EventAt, Using
  <2>3. ASSUME NEW x \in Calls, (\E how \in Kinds : CallOut(how) /\ x = called + 1) \/ ContextThere(x)
        PROVE  EventAt(k, v)
    <3>1. /\ pc[x] \in {"none", "context"} /\ x \notin ToSet(reached) /\ reached' = Append(reached, x)
          /\ UNCHANGED <<setup, client>> /\ \A y \in Calls \ {x} : kind'[y] = kind[y]
      BY <2>3, FannedOut
    <3>2. \A y : y \in ToSet(reached)' <=> y \in ToSet(reached) \/ y = x
      BY <3>1, ReachedMore DEF BaseInv
    <3> QED
      BY <1>2, <3>1, <3>2 DEF EventAt, Using
  <2>4. ASSUME NEW x \in Calls, NEW u \in Using, Forwards(x, u) PROVE EventAt(k, v)
    BY <1>2, <2>4, ForwardsEvent DEF EventAt, Using
  <2> QED
    BY <2>2, <2>3, <2>4, Steps
<1> QED
  BY <1>1, <1>2

(* The first shutdown is the one that asks the vendors; what it knew when  *)
(* it began is settled for good.                                           *)
LEMMA FirstStays ==
    ASSUME BaseInv, BaseInv', [Next]_vars, NEW s \in Calls, First(s)'
    PROVE  \/ First(s) /\ known'[s] = known[s]
           \/ CallStop /\ ~stopped /\ s = called + 1
<1>1. s \in Nat /\ called \in Nat /\ Calls \subseteq Nat /\ \A t \in 1..(s-1) : t \in Calls
  BY AdapterAssumption DEF Calls, BaseInv, TypeOK
<1>2. ASSUME \A x \in Calls : kind'[x] = "stop" => kind[x] = "stop" /\ known'[x] = known[x],
             \A x \in Calls : kind[x] = "stop" => kind'[x] = "stop"
      PROVE  First(s) /\ known'[s] = known[s]
  BY <1>1, <1>2 DEF First
<1>3. ASSUME called < MaxCalls, NEW how \in Kinds, how # "stop", kind' = [kind EXCEPT ![called + 1] = how],
             known' = known
      PROVE  First(s) /\ known'[s] = known[s]
  <2>1. called + 1 \in Calls /\ kind[called + 1] = "track" /\ kind'[called + 1] = how
    BY <1>3, NewCall DEF BaseInv, TypeOK
  <2>2. \A x \in Calls \ {called + 1} : kind'[x] = kind[x]
    BY <1>3, KindStays
  <2> QED
    BY <1>2, <1>3, <2>1, <2>2
<1>4. ASSUME UNCHANGED <<kind, known>> PROVE First(s) /\ known'[s] = known[s]
  BY <1>2, <1>4
<1>5. CASE InitEnds \/ AwaitsAgain \/ UNCHANGED vars
  <2>1. UNCHANGED <<kind, known>>
    BY <1>5 DEF InitEnds, AwaitsAgain, vars, app
  <2> QED
    BY <1>4, <2>1
<1>6. ASSUME NEW how \in Kinds, Ignored(how) \/ CallOut(how) PROVE First(s) /\ known'[s] = known[s]
  <2>1. called < MaxCalls /\ how # "stop" /\ kind' = [kind EXCEPT ![called + 1] = how] /\ known' = known
    BY <1>6 DEF Ignored, CallOut, New
  <2> QED
    BY <1>3, <2>1
<1>7. CASE CallIdentify
  <2>1. called < MaxCalls /\ kind' = [kind EXCEPT ![called + 1] = "identify"] /\ known' = known
    BY <1>7 DEF CallIdentify, New
  <2>2. "identify" \in Kinds /\ "identify" # "stop"
    BY DEF Kinds
  <2> QED
    BY <1>3, <2>1, <2>2
<1>8. CASE CallFlush
  <2>1. called < MaxCalls /\ kind' = [kind EXCEPT ![called + 1] = "flush"] /\ known' = known
    BY <1>8 DEF CallFlush, New
  <2>2. "flush" \in Kinds /\ "flush" # "stop"
    BY DEF Kinds
  <2> QED
    BY <1>3, <2>1, <2>2
<1>9. CASE CallStop
  <2>1. /\ called < MaxCalls /\ kind' = [kind EXCEPT ![called + 1] = "stop"]
        /\ known' = [known EXCEPT ![called + 1] = {k \in Calls : pc[k] = "settled"}]
    BY <1>9 DEF CallStop
  <2>2. called + 1 \in Calls /\ \A x \in Calls : x > called => kind[x] = "track"
    BY <2>1, NewCall DEF BaseInv, CallsInv
  <2>3. kind'[called + 1] = "stop" /\ \A x \in Calls \ {called + 1} : kind'[x] = kind[x] /\ known'[x] = known[x]
    BY <2>1, <2>2 DEF BaseInv, TypeOK
  <2>4. CASE s = called + 1
    <3>1. CASE stopped
      <4>1. PICK x \in Calls : kind[x] = "stop"
        BY <3>1 DEF BaseInv, EarlyInv
      <4>2. x \in Nat /\ x >= 1 /\ ~(x > called) /\ x # called + 1
        BY <1>1, <2>2, <4>1 DEF Calls
      <4>3. x \in 1..(s-1) /\ kind'[x] = "stop"
        BY <1>1, <2>3, <2>4, <4>1, <4>2
      <4> QED
        BY <4>3 DEF First
    <3> QED
      BY <1>9, <2>4, <3>1
  <2>5. CASE s # called + 1
    <3>1. kind[s] = "stop" /\ known'[s] = known[s]
      BY <2>3, <2>5 DEF First
    <3>2. ~(s > called)
      BY <2>2, <3>1
    <3>3. \A t \in 1..(s-1) : t # called + 1
      BY <1>1, <3>2
    <3>4. \A t \in 1..(s-1) : kind[t] # "stop"
      BY <1>1, <2>3, <3>3 DEF First
    <3> QED
      BY <3>1, <3>4 DEF First
  <2> QED
    BY <2>4, <2>5
<1>10. ASSUME NEW k \in Calls, ContextThere(k) PROVE First(s) /\ known'[s] = known[s]
  BY <1>4, <1>10 DEF ContextThere, app
<1>11. ASSUME NEW k \in Calls, NEW v \in Using, Forwards(k, v) PROVE First(s) /\ known'[s] = known[s]
  BY <1>4, <1>11 DEF Forwards, app
<1>12. CASE VendorAnswers
  <2>1. UNCHANGED <<kind, known>>
    BY <1>12 DEF VendorAnswers, Answers, app
  <2> QED
    BY <1>4, <2>1
<1> QED
  BY <1>5, <1>6, <1>7, <1>8, <1>9, <1>10, <1>11, <1>12 DEF Next, Runs

LEMMA StopKeeps ==
    ASSUME BaseInv, BaseInv', FlushInv, [Next]_vars
    PROVE  StopInv'
<1>1. \A s, k \in Calls, v \in Using : Accounted(s, k, v) => Accounted(s, k, v)'
  BY AccountStays DEF BaseInv
<1> SUFFICES ASSUME NEW s \in Calls, First(s)'
             PROVE  /\ \A k \in known'[s] : pc'[k] = "settled"
                    /\ \A k \in known'[s], v \in Using' :
                         EventAt(k, v)' /\ Adapter[v].flushes => Accounted(s, k, v)'
  BY DEF StopInv
<1>2. CASE First(s) /\ known'[s] = known[s]
  <2>1. \A k \in known[s] : k \in Calls /\ pc[k] = "settled"
    BY <1>2 DEF FlushInv, StopInv, BaseInv, TypeOK
  <2>2. \A k \in known[s] : pc'[k] = "settled" /\ \A v : EventAt(k, v)' => EventAt(k, v)
    BY <2>1, SettledStays
  <2>3. ASSUME NEW k \in known[s], NEW v, EventAt(k, v)', Adapter[v].flushes PROVE Accounted(s, k, v)'
    <3>1. EventAt(k, v) /\ k \in Calls
      BY <2>1, <2>2, <2>3
    <3>2. v \in Using
      BY <3>1 DEF EventAt
    <3>3. Accounted(s, k, v)
      BY <1>2, <2>3, <3>1, <3>2 DEF FlushInv, StopInv
    <3> QED
      BY <1>1, <3>1, <3>2, <3>3
  <2> QED
    BY <1>2, <2>2, <2>3
<1>3. CASE CallStop /\ ~stopped /\ s = called + 1
  <2>1. /\ called < MaxCalls /\ kind' = [kind EXCEPT ![s] = "stop"] /\ Asks(s)
        /\ known' = [known EXCEPT ![s] = {k \in Calls : pc[k] = "settled"}]
        /\ UNCHANGED <<setup, client, reached>>
    BY <1>3 DEF CallStop
  <2>2. known'[s] = {k \in Calls : pc[k] = "settled"} /\ pc[s] = "none"
    <3>1. pc[s] = "none"
      BY <1>3, <2>1, NewCall
    <3>2. known \in [Calls -> SUBSET Calls]
      BY DEF BaseInv, TypeOK
    <3> QED
      BY <2>1, <3>1, <3>2
  <2>3. \A k \in known'[s] : pc'[k] = "settled" /\ \A v : EventAt(k, v)' => EventAt(k, v)
    BY <2>2, SettledStays
  <2>4. ASSUME NEW k \in known'[s], NEW v, EventAt(k, v)', Adapter[v].flushes PROVE Accounted(s, k, v)'
    <3>1. k \in Calls /\ pc[k] = "settled" /\ EventAt(k, v)
      BY <2>2, <2>3, <2>4
    <3>2. v \in Using /\ client[v] /\ v # "facade"
      BY <3>1, Setup DEF EventAt, BaseInv, TypeOK
    <3>3. ~Waits(k, v)
      <4>1. pending[k] = {}
        BY <3>1 DEF BaseInv, CallsInv
      <4> QED
        BY <3>2, <4>1 DEF Waits, Has, BaseInv, JobsInv, Open
    <3>4. k \in Given(v)
      BY <3>1, <3>2, <3>3 DEF FlushInv, GivenInv
    <3>5. <<s, v, Given(v)>> \in asking'
      BY <2>1, <2>4, <3>2 DEF Asks, Flushing
    <3>6. PICK a \in asking' : a = <<s, v, Given(v)>>
      BY <3>5
    <3>7. a[1] = s /\ a[2] = v /\ k \in a[3]
      BY <3>4, <3>6
    <3> QED
      BY <3>7 DEF Accounted
  <2> QED
    BY <2>3, <2>4
<1> QED
  BY <1>2, <1>3, FirstStays

LEMMA FlushInvariant == Spec => []FlushInv
<1>1. BaseInv /\ BaseInv' /\ FlushInv /\ [Next]_vars => FlushInv'
  BY FlushKeeps, StopKeeps DEF FlushInv
<1> QED
  BY <1>1, FlushInit, BaseInvariant, PTL DEF Spec

(* Once the shutdown of a server has returned, every event whose call had  *)
(* returned before it is with the vendors that flush or confirm, unless    *)
(* one of the two calls reported a failure of that vendor.                 *)
THEOREM ShutdownFlushes == Spec => []FlushedOnReturn
<1>1. BaseInv /\ FlushInv => FlushedOnReturn
  <2> SUFFICES ASSUME BaseInv, FlushInv, NEW s \in Calls, kind[s] = "stop", pc[s] = "settled",
                      \A t \in 1..(s-1) : kind[t] # "stop", NEW k \in known[s], NEW v \in Using,
                      k \in ToSet(reached), kind[k] \in Events, client[v],
                      Adapter[v].flushes \/ Adapter[v].waits # "never",
                      v \notin failed[s] \cup failed[k]
               PROVE  k \in sent[v]
    BY DEF FlushedOnReturn
  <2>1. First(s) /\ EventAt(k, v) /\ k \in Calls /\ pc[k] = "settled" /\ v # "facade"
    BY Setup DEF First, EventAt, FlushInv, StopInv, BaseInv, TypeOK
  <2>2. pending[s] = {} /\ pending[k] = {}
    BY <2>1 DEF BaseInv, CallsInv
  <2>3. \A a \in asking : a[1] # s /\ a[1] # k
    BY <2>2 DEF BaseInv, AskInv
  <2>4. ~Waits(k, v)
    BY <2>1, <2>2 DEF Waits, Has, BaseInv, JobsInv, Open
  <2>5. CASE Adapter[v].flushes
    <3>1. Accounted(s, k, v)
      BY <2>1, <2>5 DEF FlushInv, StopInv
    <3> QED
      BY <2>3, <3>1 DEF Accounted
  <2>6. CASE Adapter[v].waits # "never"
    <3>1. Accounted(k, k, v)
      BY <2>1, <2>4, <2>6 DEF FlushInv, AnsweredInv
    <3> QED
      BY <2>3, <3>1 DEF Accounted
  <2> QED
    BY <2>5, <2>6
<1> QED
  BY <1>1, BaseInvariant, FlushInvariant, PTL
=============================================================================
