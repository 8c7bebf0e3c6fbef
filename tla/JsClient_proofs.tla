--------------------------- MODULE JsClient_proofs ---------------------------
(***************************************************************************)
(* The order in which the calls an app does not await reach the            *)
(* integrations.                                                           *)
(***************************************************************************)
EXTENDS JsClient, FiniteSetTheorems, FunctionTheorems, SequenceTheorems, WellFoundedInduction, TLAPS

Left(k) == pc[k] \notin {"none", "ready"}       \* the call has gone beyond ready
Over(k) == pc[k] \in {"integrations", "settled"}
Reached == ToSet(reached)

(* What each call is, and that a call leaves ready after those before it.  *)
CallInv ==
    /\ \A k \in Calls : pc[k] = "none" <=> k > called
    /\ \A k \in Calls : pc[k] = "identifying" => kind[k] = "track"
    /\ \A k \in Calls : pc[k] = "context" => kind[k] = "identify"
    /\ \A j, k \in Calls : k < j /\ Left(j) => Left(k)
    /\ initialized => ready
    /\ ~ready => jobs = <<>> /\ \A k \in Calls : ~Left(k)

(* j stands before k in a queue: no call that waits for the same thing is  *)
(* overtaken (p says where the calls stand, w what they wait for).         *)
MayPrecede(p, w, j, k) ==
    /\ j # k
    /\ p[j] = "ready" /\ p[k] = "ready" => j < k
    /\ p[j] = "identifying" /\ p[k] = "identifying" /\ w[j] = w[k] => j < k

Fair(s, p, w) == \A m, n \in 1..Len(s) : m < n => MayPrecede(p, w, s[m], s[n])

Runnable(k) ==
    \/ pc[k] = "ready" /\ ready
    \/ pc[k] = "identifying" /\ (waitsFor[k] = None \/ pc[waitsFor[k]] = "settled")
    \/ pc[k] = "context" /\ ~SlowContext

JobsInv ==
    /\ \A k \in Calls : k \in ToSet(jobs) <=> Runnable(k)
    /\ Fair(jobs, pc, waitsFor)

(* w is the latest identify call before k, or there is none. *)
IsLatest(w, k) ==
    /\ w = None \/ w \in Identifies(k)
    /\ \A i \in Identifies(k) : i <= w

WaitInv ==
    /\ identifying # None => kind[identifying] = "identify" /\ Left(identifying)
    /\ \A k \in Calls : kind[k] = "identify" /\ Left(k) => k <= identifying
    /\ \A t \in Calls : kind[t] = "track" /\ Left(t) => IsLatest(waitsFor[t], t)
    /\ \A t \in Calls : kind[t] = "track" /\ Over(t) /\ waitsFor[t] # None
         => pc[waitsFor[t]] = "settled"

SameVisitor(s, t) == kind[s] = "track" /\ kind[t] = "track" /\ s < t /\ waitsFor[s] = waitsFor[t]

ReachedInv ==
    /\ \A k \in Reached : Over(k)
    /\ \A k \in Calls : pc[k] = "integrations" => k \in Reached
    /\ \A k \in Calls : pc[k] = "settled" /\ k \notin Reached => ~initialized
    /\ \A s, t \in Calls : SameVisitor(s, t) /\ Over(t) => Over(s)
    /\ \A s, t \in Calls : SameVisitor(s, t) /\ t \in Reached => Before(s, t)

ClientInv == TypeOK /\ CallInv /\ JobsInv /\ WaitInv /\ ReachedInv
-----------------------------------------------------------------------------
(* Sequences and InOrder *)

LEMMA LeastNat == ASSUME NEW S, S \subseteq Nat, S # {} PROVE \E x \in S : \A y \in S : x <= y
<1> DEFINE R == {ss \in Nat \X Nat : ss[1] < ss[2]}
<1>1. IsWellFoundedOn(R, Nat)
  BY NatLessThanWellFounded DEF OpToRel
<1> HIDE DEF R
<1>2. PICK x \in S : \A y \in S : ~(<<y, x>> \in R)
  BY <1>1, WFMin
<1>3. ASSUME NEW y \in S PROVE x <= y
  <2>1. x \in Nat /\ y \in Nat /\ ~(y < x)
    BY <1>2 DEF R
  <2> QED
    BY <2>1
<1> QED
  BY <1>3

Increasing(s, n) == \A i, j \in 1..n : i < j => s[i] < s[j]

(* Every set of numbers up to n can be put in order: by a smallest n for   *)
(* which one could not.                                                    *)
LEMMA OrderExists ==
    ASSUME NEW n \in Nat, NEW S, S \subseteq 1..n
    PROVE  \E s \in [1..Cardinality(S) -> S] : Increasing(s, Cardinality(S))
<1> DEFINE Ordered(T) == \E s \in [1..Cardinality(T) -> T] : Increasing(s, Cardinality(T))
           Bad == {m \in Nat : \E T \in SUBSET (1..m) : ~Ordered(T)}
<1>1. Bad = {}
  <2> SUFFICES ASSUME Bad # {} PROVE FALSE
    OBVIOUS
  <2>1. PICK m \in Bad : \A y \in Bad : m <= y
    <3>1. Bad \subseteq Nat
      OBVIOUS
    <3> HIDE DEF Bad
    <3> QED
      BY <3>1, LeastNat
  <2>2. m \in Nat
    BY <2>1
  <2>3. PICK T \in SUBSET (1..m) : ~Ordered(T)
    BY <2>1
  <2>4. IsFiniteSet(T)
    <3>1. IsFiniteSet(1..m)
      BY <2>2, FS_Interval
    <3> QED
      BY <3>1, FS_Subset
  <2>5. m # 0
    <3> SUFFICES ASSUME m = 0 PROVE FALSE
      OBVIOUS
    <3>1. T = {}
      BY <2>2
    <3>2. Cardinality(T) = 0
      BY <3>1, FS_EmptySet
    <3>3. [i \in 1..0 |-> i] \in [1..0 -> T]
      OBVIOUS
    <3>4. Increasing([i \in 1..0 |-> i], 0)
      BY DEF Increasing
    <3> QED
      BY <3>2, <3>3, <3>4, <2>3
  <2>6. m - 1 \in Nat /\ m - 1 \notin Bad
    <3>1. m - 1 \in Nat /\ ~(m <= m - 1)
      BY <2>2, <2>5
    <3> HIDE DEF Bad
    <3> QED
      BY <3>1, <2>1
  <2>7. \A U \in SUBSET (1..(m - 1)) : Ordered(U)
    BY <2>6
  <2>8. CASE m \notin T
    <3>1. T \in SUBSET (1..(m - 1))
      BY <2>8, <2>2
    <3> QED
      BY <3>1, <2>7, <2>3
  <2>9. CASE m \in T
    <3> DEFINE U == T \ {m}
               c == Cardinality(U)
    <3>1. U \in SUBSET (1..(m - 1))
      BY <2>2
    <3>2. Cardinality(T) = c + 1 /\ c \in Nat
      <4>1. IsFiniteSet(U) /\ Cardinality(U) = Cardinality(T) - 1
        BY <2>9, <2>4, FS_RemoveElement
      <4>2. Cardinality(T) \in Nat /\ Cardinality(U) \in Nat
        BY <2>4, <4>1, FS_CardinalityType
      <4> QED
        BY <4>1, <4>2
    <3>3. PICK u \in [1..c -> U] : Increasing(u, c)
      BY <3>1, <2>7
    <3> HIDE DEF c
    <3> DEFINE s == [i \in 1..(c + 1) |-> IF i <= c THEN u[i] ELSE m]
    <3>4. s \in [1..(c + 1) -> T]
      <4>1. \A i \in 1..(c + 1) : (IF i <= c THEN u[i] ELSE m) \in T
        BY <3>2, <3>3, <2>9
      <4> QED
        BY <4>1
    <3>5. Increasing(s, c + 1)
      <4> SUFFICES ASSUME NEW i \in 1..(c + 1), NEW j \in 1..(c + 1), i < j
                   PROVE  s[i] < s[j]
        BY DEF Increasing
      <4>1. i <= c /\ i \in 1..c /\ s[i] = u[i] /\ u[i] \in U
        BY <3>2, <3>3
      <4>2. CASE j <= c
        <5>1. s[j] = u[j] /\ j \in 1..c
          BY <4>2, <3>2
        <5> QED
          BY <4>1, <5>1, <3>3 DEF Increasing
      <4>3. CASE ~(j <= c)
        <5>1. s[j] = m
          BY <4>3
        <5>2. u[i] \in 1..(m - 1)
          BY <4>1, <3>1
        <5> QED
          BY <4>1, <5>1, <5>2, <2>2
      <4> QED
        BY <4>2, <4>3
    <3> HIDE DEF s
    <3> QED
      BY <3>2, <3>4, <3>5, <2>3
  <2> QED
    BY <2>8, <2>9
<1> HIDE DEF Ordered
<1>2. n \notin Bad
  BY <1>1
<1>3. Ordered(S)
  BY <1>2
<1> QED
  BY <1>3 DEF Ordered

LEMMA InOrderProps ==
    ASSUME NEW S, S \subseteq Calls
    PROVE  /\ InOrder(S) \in Seq(Calls) /\ ToSet(InOrder(S)) = S
           /\ Increasing(InOrder(S), Len(InOrder(S)))
<1> DEFINE n == Cardinality(S)
           s == InOrder(S)
<1>1. IsFiniteSet(S) /\ n \in Nat
  <2>1. IsFiniteSet(Calls)
    BY ClientAssumption, FS_Interval DEF Calls
  <2>2. IsFiniteSet(S)
    BY <2>1, FS_Subset
  <2> QED
    BY <2>2, FS_CardinalityType
<1>2. \E r \in [1..n -> S] : Increasing(r, n)
  BY ClientAssumption, OrderExists DEF Calls
<1>3. s \in [1..n -> S] /\ Increasing(s, n)
  BY <1>2 DEF InOrder, Increasing
<1> HIDE DEF s, n
<1>4. s \in Seq(S) /\ Len(s) = n
  BY <1>1, <1>3, SeqDef
<1>5. s \in Seq(Calls)
  BY <1>4, SeqMonotonic
<1>6. s \in Injection(1..n, S)
  <2>1. ASSUME NEW i \in 1..n, NEW j \in 1..n, s[i] = s[j] PROVE i = j
    <3>1. s[i] \in Calls
      BY <1>3
    <3>2. s[i] \in Nat /\ s[j] \in Nat
      BY <2>1, <3>1 DEF Calls
    <3> QED
      BY <1>1, <1>3, <2>1, <3>2 DEF Increasing
  <2> QED
    BY <1>3, <2>1 DEF Injection, IsInjective
<1>7. Cardinality(1..n) = Cardinality(S)
  BY <1>1, FS_Interval DEF n
<1>8. s \in Surjection(1..n, S)
  BY <1>1, <1>6, <1>7, FS_Injection
<1>9. ToSet(s) = S
  BY <1>3, <1>8 DEF Surjection, ToSet
<1> QED
  BY <1>3, <1>4, <1>5, <1>9 DEF s

LEMMA AppendProps ==
    ASSUME NEW T, NEW s \in Seq(T), NEW k \in T
    PROVE  /\ Append(s, k) \in Seq(T) /\ Len(Append(s, k)) = Len(s) + 1
           /\ \A i \in 1..Len(s) : Append(s, k)[i] = s[i]
           /\ Append(s, k)[Len(s) + 1] = k
           /\ ToSet(Append(s, k)) = ToSet(s) \cup {k}
<1>1. Len(s) \in Nat /\ DOMAIN s = 1..Len(s)
  BY LenProperties
<1>2. Append(s, k) \in Seq(T) /\ Len(Append(s, k)) = Len(s) + 1
  OBVIOUS
<1>3. \A i \in 1..(Len(s) + 1) : Append(s, k)[i] = IF i <= Len(s) THEN s[i] ELSE k
  BY <1>1
<1>4. DOMAIN Append(s, k) = 1..(Len(s) + 1)
  BY <1>2, LenProperties
<1> HIDE <1>2
<1>5. ToSet(Append(s, k)) = ToSet(s) \cup {k}
  BY <1>1, <1>3, <1>4 DEF ToSet
<1> QED
  BY <1>1, <1>2, <1>3, <1>5

LEMMA TailProps ==
    ASSUME NEW T, NEW s \in Seq(T), s # <<>>
    PROVE  /\ Tail(s) \in Seq(T) /\ Len(Tail(s)) = Len(s) - 1 /\ Len(s) \in Nat \ {0}
           /\ \A i \in 1..Len(Tail(s)) : Tail(s)[i] = s[i + 1]
           /\ Head(s) = s[1] /\ Head(s) \in T
           /\ ToSet(s) = ToSet(Tail(s)) \cup {Head(s)}
<1>1. Len(s) \in Nat \ {0} /\ DOMAIN s = 1..Len(s)
  BY LenProperties, EmptySeq
<1>2. /\ Head(s) \in T /\ Head(s) = s[1] /\ Tail(s) \in Seq(T) /\ Len(Tail(s)) = Len(s) - 1
      /\ \A i \in 1..Len(Tail(s)) : Tail(s)[i] = s[i + 1]
  BY HeadTailProperties
<1>3. DOMAIN Tail(s) = 1..(Len(s) - 1)
  BY <1>2, LenProperties
<1>4. ASSUME NEW x \in ToSet(s) PROVE x \in ToSet(Tail(s)) \cup {Head(s)}
  <2>1. PICK i \in 1..Len(s) : x = s[i]
    BY <1>1 DEF ToSet
  <2>2. CASE i = 1
    BY <2>1, <2>2, <1>2
  <2>3. CASE i # 1
    <3>1. i - 1 \in 1..(Len(s) - 1) /\ Tail(s)[i - 1] = s[i]
      BY <2>3, <1>1, <1>2
    <3> QED
      BY <2>1, <3>1, <1>3 DEF ToSet
  <2> QED
    BY <2>2, <2>3
<1>5. \A x \in ToSet(Tail(s)) \cup {Head(s)} : x \in ToSet(s)
  <2>1. Head(s) \in ToSet(s)
    BY <1>1, <1>2 DEF ToSet
  <2>2. ASSUME NEW x \in ToSet(Tail(s)) PROVE x \in ToSet(s)
    <3>1. PICK i \in 1..(Len(s) - 1) : x = Tail(s)[i]
      BY <1>3 DEF ToSet
    <3>2. i + 1 \in 1..Len(s) /\ x = s[i + 1]
      BY <3>1, <1>1, <1>2
    <3> QED
      BY <3>2, <1>1 DEF ToSet
  <2> QED
    BY <2>1, <2>2
<1> QED
  BY <1>1, <1>2, <1>4, <1>5

LEMMA ConcatSet ==
    ASSUME NEW T, NEW s \in Seq(T), NEW r \in Seq(T)
    PROVE  ToSet(s \o r) = ToSet(s) \cup ToSet(r)
<1> DEFINE c == s \o r
<1>1. /\ Len(s) \in Nat /\ DOMAIN s = 1..Len(s) /\ Len(r) \in Nat /\ DOMAIN r = 1..Len(r)
  BY LenProperties
<1>2. /\ c \in Seq(T) /\ Len(c) = Len(s) + Len(r)
      /\ \A i \in 1..(Len(s) + Len(r)) : c[i] = IF i <= Len(s) THEN s[i] ELSE r[i - Len(s)]
  BY ConcatProperties
<1>3. DOMAIN c = 1..(Len(s) + Len(r))
  BY <1>2, LenProperties
<1> HIDE DEF c
<1>4. ASSUME NEW x \in ToSet(c) PROVE x \in ToSet(s) \cup ToSet(r)
  <2>1. PICK i \in 1..(Len(s) + Len(r)) : x = c[i]
    BY <1>3 DEF ToSet
  <2>2. CASE i <= Len(s)
    <3>1. i \in 1..Len(s) /\ x = s[i]
      BY <2>1, <2>2, <1>1, <1>2
    <3> QED
      BY <3>1, <1>1 DEF ToSet
  <2>3. CASE ~(i <= Len(s))
    <3>1. i - Len(s) \in 1..Len(r) /\ x = r[i - Len(s)]
      BY <2>1, <2>3, <1>1, <1>2
    <3> QED
      BY <3>1, <1>1 DEF ToSet
  <2> QED
    BY <2>2, <2>3
<1>5. ASSUME NEW x \in ToSet(s) PROVE x \in ToSet(c)
  <2>1. PICK i \in 1..Len(s) : x = s[i]
    BY <1>1 DEF ToSet
  <2>2. i \in 1..(Len(s) + Len(r)) /\ c[i] = x
    BY <2>1, <1>1, <1>2
  <2> QED
    BY <2>2, <1>3 DEF ToSet
<1>6. ASSUME NEW x \in ToSet(r) PROVE x \in ToSet(c)
  <2>1. PICK i \in 1..Len(r) : x = r[i]
    BY <1>1 DEF ToSet
  <2>2. i + Len(s) \in 1..(Len(s) + Len(r)) /\ c[i + Len(s)] = x
    <3>1. /\ i + Len(s) \in 1..(Len(s) + Len(r)) /\ ~(i + Len(s) <= Len(s))
          /\ (i + Len(s)) - Len(s) = i
      BY <1>1
    <3>2. c[i + Len(s)] = r[(i + Len(s)) - Len(s)]
      BY <3>1, <1>2
    <3> QED
      BY <2>1, <3>1, <3>2
  <2> QED
    BY <2>2, <1>3 DEF ToSet
<1> QED
  BY <1>4, <1>5, <1>6 DEF c
LEMMA AppendSet ==
    ASSUME NEW s \in Seq(Calls), NEW k \in Calls
    PROVE  ToSet(Append(s, k)) = ToSet(s) \cup {k}
  BY AppendProps

LEMMA FairTail ==
    ASSUME NEW s \in Seq(Calls), s # <<>>, NEW p, NEW w, Fair(s, p, w)
    PROVE  /\ Fair(Tail(s), p, w) /\ Head(s) \notin ToSet(Tail(s))
           /\ \A j \in ToSet(Tail(s)) : MayPrecede(p, w, Head(s), j)
<1>1. /\ Tail(s) \in Seq(Calls) /\ Len(Tail(s)) = Len(s) - 1 /\ Len(s) \in Nat \ {0}
      /\ \A i \in 1..Len(Tail(s)) : Tail(s)[i] = s[i + 1]
      /\ Head(s) = s[1]
  BY TailProps
<1>2. Fair(Tail(s), p, w)
  <2> SUFFICES ASSUME NEW m \in 1..Len(Tail(s)), NEW n \in 1..Len(Tail(s)), m < n
               PROVE  MayPrecede(p, w, Tail(s)[m], Tail(s)[n])
    BY DEF Fair
  <2>1. m + 1 \in 1..Len(s) /\ n + 1 \in 1..Len(s) /\ m + 1 < n + 1
    BY <1>1
  <2>2. MayPrecede(p, w, s[m + 1], s[n + 1])
    BY <2>1 DEF Fair
  <2> QED
    BY <2>2, <1>1
<1>3. ASSUME NEW j \in ToSet(Tail(s)) PROVE MayPrecede(p, w, Head(s), j)
  <2>1. DOMAIN Tail(s) = 1..Len(Tail(s))
    BY <1>1, LenProperties
  <2>2. PICK i \in 1..Len(Tail(s)) : j = Tail(s)[i]
    BY <2>1 DEF ToSet
  <2>3. i + 1 \in 1..Len(s) /\ 1 < i + 1 /\ 1 \in 1..Len(s) /\ j = s[i + 1]
    BY <2>2, <1>1
  <2>4. MayPrecede(p, w, s[1], s[i + 1])
    BY <2>3 DEF Fair
  <2> QED
    BY <2>3, <2>4, <1>1
<1>4. Head(s) \notin ToSet(Tail(s))
  BY <1>3 DEF MayPrecede
<1> QED
  BY <1>2, <1>3, <1>4

LEMMA FairAppend ==
    ASSUME NEW s \in Seq(Calls), NEW k \in Calls, NEW p, NEW w, Fair(s, p, w),
           \A j \in ToSet(s) : MayPrecede(p, w, j, k)
    PROVE  Fair(Append(s, k), p, w)
<1> DEFINE a == Append(s, k)
<1>1. /\ Len(a) = Len(s) + 1 /\ Len(s) \in Nat /\ DOMAIN s = 1..Len(s)
      /\ \A i \in 1..Len(s) : a[i] = s[i]
      /\ a[Len(s) + 1] = k
  BY AppendProps, LenProperties
<1> HIDE DEF a
<1> SUFFICES ASSUME NEW m \in 1..Len(a), NEW n \in 1..Len(a), m < n
             PROVE  MayPrecede(p, w, a[m], a[n])
  BY DEF Fair, a
<1>2. m \in 1..Len(s) /\ a[m] = s[m]
  BY <1>1
<1>3. CASE n \in 1..Len(s)
  <2>1. a[n] = s[n]
    BY <1>1, <1>3
  <2> QED
    BY <2>1, <1>2, <1>3 DEF Fair
<1>4. CASE n = Len(s) + 1
  <2>1. s[m] \in ToSet(s)
    BY <1>1, <1>2 DEF ToSet
  <2> QED
    BY <2>1, <1>1, <1>2, <1>4
<1> QED
  BY <1>1, <1>3, <1>4

LEMMA FairConcat ==
    ASSUME NEW s \in Seq(Calls), NEW r \in Seq(Calls), NEW p, NEW w, Fair(s, p, w), Fair(r, p, w),
           \A j \in ToSet(s), k \in ToSet(r) : MayPrecede(p, w, j, k)
    PROVE  Fair(s \o r, p, w)
<1> DEFINE c == s \o r
<1>1. /\ Len(s) \in Nat /\ DOMAIN s = 1..Len(s) /\ Len(r) \in Nat /\ DOMAIN r = 1..Len(r)
  BY LenProperties
<1>2. /\ c \in Seq(Calls) /\ Len(c) = Len(s) + Len(r)
      /\ \A i \in 1..(Len(s) + Len(r)) : c[i] = IF i <= Len(s) THEN s[i] ELSE r[i - Len(s)]
  BY ConcatProperties
<1> HIDE DEF c
<1> SUFFICES ASSUME NEW m \in 1..Len(c), NEW n \in 1..Len(c), m < n
             PROVE  MayPrecede(p, w, c[m], c[n])
  BY DEF Fair, c
<1>3. CASE n <= Len(s)
  <2>1. m \in 1..Len(s) /\ n \in 1..Len(s) /\ c[m] = s[m] /\ c[n] = s[n]
    BY <1>1, <1>2, <1>3
  <2> QED
    BY <2>1 DEF Fair
<1>4. CASE m <= Len(s) /\ Len(s) < n
  <2>1. m \in 1..Len(s) /\ n - Len(s) \in 1..Len(r) /\ c[m] = s[m] /\ c[n] = r[n - Len(s)]
    BY <1>1, <1>2, <1>4
  <2>2. c[m] \in ToSet(s) /\ c[n] \in ToSet(r)
    BY <2>1, <1>1 DEF ToSet
  <2> QED
    BY <2>2
<1>5. CASE Len(s) < m
  <2> DEFINE x == m - Len(s)
             y == n - Len(s)
  <2>1. x \in 1..Len(r) /\ y \in 1..Len(r) /\ x < y /\ c[m] = r[x] /\ c[n] = r[y]
    BY <1>1, <1>2, <1>5
  <2> HIDE DEF x, y
  <2> QED
    BY <2>1 DEF Fair
<1> QED
  BY <1>1, <1>2, <1>3, <1>4, <1>5

LEMMA FairSame ==
    ASSUME NEW s \in Seq(Calls), NEW p, NEW w, NEW q, NEW v, Fair(s, p, w),
           \A j \in ToSet(s) : q[j] = p[j] /\ v[j] = w[j]
    PROVE  Fair(s, q, v)
<1>1. DOMAIN s = 1..Len(s)
  BY LenProperties
<1> SUFFICES ASSUME NEW m \in 1..Len(s), NEW n \in 1..Len(s), m < n
             PROVE  MayPrecede(q, v, s[m], s[n])
  BY DEF Fair
<1>2. s[m] \in ToSet(s) /\ s[n] \in ToSet(s)
  BY <1>1 DEF ToSet
<1>3. MayPrecede(p, w, s[m], s[n])
  BY DEF Fair
<1> QED
  BY <1>2, <1>3 DEF MayPrecede

(* Calls put in order may all wait for the same thing. *)
LEMMA FairInOrder ==
    ASSUME NEW S, S \subseteq Calls, NEW p, NEW w
    PROVE  Fair(InOrder(S), p, w)
<1> DEFINE s == InOrder(S)
<1>1. s \in Seq(Calls) /\ Increasing(s, Len(s))
  BY InOrderProps
<1> HIDE DEF s
<1> SUFFICES ASSUME NEW m \in 1..Len(s), NEW n \in 1..Len(s), m < n
             PROVE  MayPrecede(p, w, s[m], s[n])
  BY DEF Fair, s
<1>2. s[m] \in Nat /\ s[n] \in Nat
  <2>1. s[m] \in Calls /\ s[n] \in Calls
    BY <1>1, ElementOfSeq
  <2> QED
    BY <2>1 DEF Calls
<1>3. s[m] < s[n]
  BY <1>1 DEF Increasing
<1> QED
  BY <1>2, <1>3 DEF MayPrecede

-----------------------------------------------------------------------------
(* Types *)

LEMMA TypeInit == Init => TypeOK
<1> SUFFICES ASSUME Init PROVE TypeOK
  OBVIOUS
<1>1. <<>> \in Seq(Calls)
  BY EmptySeq
<1>2. called \in 0..MaxCalls
  BY ClientAssumption DEF Init
<1>3. kind \in [Calls -> Kinds]
  BY DEF Init, Kinds
<1> QED
  BY <1>1, <1>2, <1>3 DEF Init, TypeOK

LEMMA TypeNext == ASSUME TypeOK, [Next]_vars PROVE TypeOK'
<1> USE ClientAssumption DEF TypeOK, app
<1>1. ASSUME NEW how \in Kinds, Call(how) PROVE TypeOK'
  <2>1. called + 1 \in Calls
    BY <1>1 DEF Call, Calls
  <2>2. Append(jobs, called + 1) \in Seq(Calls)
    BY <2>1
  <2> QED
    BY <1>1, <2>1, <2>2 DEF Call
<1>2. ASSUME InitEnds PROVE TypeOK'
  <2> DEFINE S == {k \in Calls : pc[k] = "ready"}
  <2>1. InOrder(S) \in Seq(Calls)
    BY InOrderProps
  <2> QED
    BY <1>2, <2>1 DEF InitEnds
<1>3. ASSUME NEW k \in Calls, CallStep(k) PROVE TypeOK'
  <2>1. jobs # <<>> => Tail(jobs) \in Seq(Calls) /\ Append(Tail(jobs), k) \in Seq(Calls)
    <3> SUFFICES ASSUME jobs # <<>> PROVE Tail(jobs) \in Seq(Calls) /\ Append(Tail(jobs), k) \in Seq(Calls)
      OBVIOUS
    <3>1. Tail(jobs) \in Seq(Calls)
      BY TailProps
    <3> QED
      BY <3>1, AppendProps
  <2>2. Append(reached, k) \in Seq(Calls)
    BY AppendProps
  <2>3. jobs \o Released(k) \in Seq(Calls)
    <3> DEFINE S == {t \in Calls : pc[t] = "identifying" /\ waitsFor[t] = k}
    <3>1. InOrder(S) \in Seq(Calls)
      BY InOrderProps
    <3> QED
      BY <3>1, ConcatProperties DEF Released
  <2>4. CASE TrackReady(k)
    BY <2>1, <2>4 DEF TrackReady, Runs, LatestIdentify
  <2>5. CASE TrackGoes(k)
    BY <2>1, <2>2, <2>5 DEF TrackGoes, Runs, FacadeTakes, FanOut, Ignored
  <2>6. CASE IdentifyReady(k)
    BY <2>1, <2>6 DEF IdentifyReady, Runs, Ignored
  <2>7. CASE ContextThere(k)
    BY <2>1, <2>2, <2>7 DEF ContextThere, Runs, FanOut
  <2>8. CASE OtherReady(k)
    BY <2>1, <2>2, <2>8 DEF OtherReady, Runs, FacadeTakes, FanOut, Ignored
  <2>9. CASE Settles(k)
    BY <2>3, <2>9 DEF Settles, None
  <2> QED
    BY <1>3, <2>4, <2>5, <2>6, <2>7, <2>8, <2>9 DEF CallStep
<1>4. CASE UNCHANGED vars
  BY <1>4 DEF vars
<1> QED
  BY <1>1, <1>2, <1>3, <1>4 DEF Next
-----------------------------------------------------------------------------
(* The call at the head of the queue *)

LEMMA RunsProps ==
    ASSUME ClientInv, NEW k \in Calls, NEW from, Runs(k, from)
    PROVE  /\ jobs # <<>> /\ Tail(jobs) \in Seq(Calls)
           /\ pc[k] = from /\ k \in ToSet(jobs) /\ Runnable(k) /\ ready
           /\ ToSet(Tail(jobs)) = ToSet(jobs) \ {k}
           /\ Fair(Tail(jobs), pc, waitsFor)
           /\ \A j \in ToSet(jobs) \ {k} : MayPrecede(pc, waitsFor, k, j)
<1>1. jobs \in Seq(Calls) /\ jobs # <<>> /\ Head(jobs) = k /\ pc[k] = from /\ Fair(jobs, pc, waitsFor)
  BY DEF Runs, ClientInv, TypeOK, JobsInv
<1>2. /\ Tail(jobs) \in Seq(Calls) /\ k \in ToSet(jobs)
      /\ ToSet(jobs) = ToSet(Tail(jobs)) \cup {k}
  BY <1>1, TailProps
<1>3. /\ Fair(Tail(jobs), pc, waitsFor) /\ k \notin ToSet(Tail(jobs))
      /\ \A j \in ToSet(Tail(jobs)) : MayPrecede(pc, waitsFor, k, j)
  BY <1>1, FairTail
<1>4. Runnable(k)
  BY <1>2 DEF ClientInv, JobsInv
<1>5. ready
  BY <1>1 DEF ClientInv, CallInv
<1> QED
  BY <1>1, <1>2, <1>3, <1>4, <1>5

(* The call that leaves ready is the next one. *)
LEMMA NextToLeave ==
    ASSUME ClientInv, NEW k \in Calls, Runs(k, "ready")
    PROVE  /\ pc[k] = "ready" /\ k <= called
           /\ \A j \in Calls : j < k => Left(j)
           /\ \A j \in Calls : k <= j => ~Left(j)
<1>1. /\ pc[k] = "ready" /\ ready /\ \A j \in ToSet(jobs) \ {k} : MayPrecede(pc, waitsFor, k, j)
  BY RunsProps
<1>2. k <= called
  BY <1>1 DEF ClientInv, CallInv, TypeOK, Calls
<1>3. ASSUME NEW j \in Calls, j < k PROVE Left(j)
  <2>1. pc[j] # "none"
    BY <1>2, <1>3 DEF ClientInv, CallInv, TypeOK, Calls
  <2>2. ASSUME pc[j] = "ready" PROVE FALSE
    <3>1. j \in ToSet(jobs)
      BY <2>2, <1>1 DEF ClientInv, JobsInv, Runnable
    <3>2. MayPrecede(pc, waitsFor, k, j)
      BY <3>1, <1>1, <1>3 DEF Calls
    <3> QED
      BY <3>2, <2>2, <1>1, <1>3 DEF MayPrecede, Calls
  <2> QED
    BY <2>1, <2>2 DEF Left
<1>4. ~Left(k)
  BY <1>1 DEF Left
<1>5. ASSUME NEW j \in Calls, k <= j PROVE ~Left(j)
  <2>1. j = k \/ k < j
    BY <1>5 DEF Calls
  <2> QED
    BY <2>1, <1>4 DEF ClientInv, CallInv
<1> QED
  BY <1>1, <1>2, <1>3, <1>5

(* What a track call waits for. *)
LEMMA WaitedFor ==
    ASSUME ClientInv, NEW t \in Calls, kind[t] = "track", Left(t), waitsFor[t] # None
    PROVE  /\ waitsFor[t] \in Calls /\ waitsFor[t] < t
           /\ kind[waitsFor[t]] = "identify" /\ Left(waitsFor[t])
<1>1. waitsFor[t] \in Identifies(t)
  BY DEF ClientInv, WaitInv, IsLatest
<1>2. waitsFor[t] \in Calls /\ waitsFor[t] < t /\ kind[waitsFor[t]] = "identify"
  BY <1>1, ClientAssumption DEF Identifies, Calls
<1> QED
  BY <1>2 DEF ClientInv, CallInv

-----------------------------------------------------------------------------
(* What a step of call k does to each part of the invariant *)

Moves(k, to) ==
    /\ pc' = [pc EXCEPT ![k] = to]
    /\ to \in {"identifying", "context", "integrations", "settled"}
    /\ UNCHANGED <<ready, called, kind>>

LEMMA CallKept ==
    ASSUME ClientInv, NEW k \in Calls, NEW to, Moves(k, to), initialized' => initialized,
           ready, Left(k) \/ Runs(k, "ready"),
           to = "identifying" => kind[k] = "track", to = "context" => kind[k] = "identify"
    PROVE  CallInv'
<1> USE DEF ClientInv, Moves
<1>1. pc \in [Calls -> {"none", "ready", "identifying", "context", "integrations", "settled"}]
  BY DEF TypeOK
<1>2. \A j \in Calls : pc'[j] = IF j = k THEN to ELSE pc[j]
  BY <1>1
<1>3. pc[k] # "none" /\ ~(k > called)
  BY NextToLeave DEF Left, CallInv
<1>4. \A j \in Calls : pc'[j] = "none" <=> j > called'
  BY <1>2, <1>3 DEF CallInv
<1>5. \A j \in Calls : (Left(j))' <=> (j = k \/ Left(j))
  BY <1>2 DEF Left
<1>6. \A j \in Calls : j < k => Left(j)
  BY NextToLeave DEF CallInv
<1>7. \A i, j \in Calls : i < j /\ (Left(j))' => (Left(i))'
  BY <1>5, <1>6 DEF CallInv
<1> QED
  BY <1>2, <1>4, <1>7 DEF CallInv

LEMMA WaitKept ==
    ASSUME ClientInv, NEW k \in Calls, NEW to, Moves(k, to), pc[k] # "settled",
           UNCHANGED <<waitsFor, identifying>>, Left(k) \/ kind[k] \notin {"track", "identify"},
           kind[k] = "track" /\ to \in {"integrations", "settled"} /\ waitsFor[k] # None
             => pc[waitsFor[k]] = "settled"
    PROVE  WaitInv'
<1> USE DEF ClientInv, Moves
<1>1. pc \in [Calls -> {"none", "ready", "identifying", "context", "integrations", "settled"}]
  BY DEF TypeOK
<1>2. \A j \in Calls : pc'[j] = IF j = k THEN to ELSE pc[j]
  BY <1>1
<1>3. \A j \in Calls : kind[j] \in {"track", "identify"} => ((Left(j))' <=> Left(j))
  BY <1>2 DEF Left
<1>4. identifying \in Calls \cup {None}
  BY DEF TypeOK
<1>5. \A j \in Calls : pc[j] = "settled" => pc'[j] = "settled"
  BY <1>2
<1>6. identifying' # None => kind'[identifying'] = "identify" /\ (Left(identifying))'
  BY <1>3, <1>4 DEF WaitInv
<1>7. \A j \in Calls : kind'[j] = "identify" /\ (Left(j))' => j <= identifying'
  BY <1>3 DEF WaitInv
<1>8. \A t \in Calls : kind'[t] = "track" /\ (Left(t))' => (IsLatest(waitsFor[t], t))'
  BY <1>3 DEF WaitInv, IsLatest, Identifies
<1>9. ASSUME NEW t \in Calls, kind'[t] = "track", (Over(t))', waitsFor'[t] # None
      PROVE  pc'[waitsFor'[t]] = "settled"
  <2>1. Left(t)
    BY <1>9, <1>3 DEF Over, Left
  <2>2. waitsFor[t] \in Calls
    BY <2>1, <1>9, WaitedFor
  <2>3. pc[waitsFor[t]] = "settled"
    BY <1>2, <1>9 DEF Over, WaitInv
  <2> QED
    BY <2>2, <2>3, <1>5
<1> QED
  BY <1>6, <1>7, <1>8, <1>9 DEF WaitInv, Left

LEMMA BeforeAppend ==
    ASSUME TypeOK, NEW k \in Calls, reached' = Append(reached, k)
    PROVE  /\ Reached' = Reached \cup {k}
           /\ \A i, j \in Calls : Before(i, j) => (Before(i, j))'
           /\ \A i \in Reached : (Before(i, k))'
<1>1. /\ reached \in Seq(Calls) /\ Len(reached) \in Nat /\ DOMAIN reached = 1..Len(reached)
  BY LenProperties DEF TypeOK
<1>2. /\ Len(reached') = Len(reached) + 1
      /\ \A i \in 1..Len(reached) : reached'[i] = reached[i]
      /\ reached'[Len(reached) + 1] = k
      /\ Reached' = Reached \cup {k}
  BY <1>1, AppendProps DEF Reached
<1>3. ASSUME NEW i \in Calls, NEW j \in Calls, Before(i, j) PROVE (Before(i, j))'
  <2>1. PICK m, n \in 1..Len(reached) : m < n /\ reached[m] = i /\ reached[n] = j
    BY <1>3 DEF Before
  <2>2. /\ m \in 1..Len(reached') /\ n \in 1..Len(reached')
        /\ reached'[m] = i /\ reached'[n] = j
    BY <1>1, <1>2, <2>1
  <2> QED
    BY <2>1, <2>2 DEF Before
<1>4. ASSUME NEW i \in Reached PROVE (Before(i, k))'
  <2>1. PICK m \in 1..Len(reached) : reached[m] = i
    BY <1>1 DEF Reached, ToSet
  <2>2. /\ m \in 1..Len(reached') /\ Len(reached) + 1 \in 1..Len(reached') /\ m < Len(reached) + 1
        /\ reached'[m] = i /\ reached'[Len(reached) + 1] = k
    BY <1>1, <1>2, <2>1
  <2> QED
    BY <2>2 DEF Before
<1> QED
  BY <1>2, <1>3, <1>4

(* The facade fans out call k, or ignores it. *)
LEMMA ReachedTakes ==
    ASSUME ClientInv, NEW k \in Calls, NEW to, Moves(k, to), ~Over(k),
           UNCHANGED <<waitsFor, initialized>>,
           \/ to = "integrations" /\ reached' = Append(reached, k)
           \/ to = "settled" /\ reached' = reached /\ ~initialized,
           kind[k] = "track" /\ to = "integrations" => initialized,
           \A s \in Calls : SameVisitor(s, k) => Over(s)
    PROVE  ReachedInv'
<1> USE DEF ClientInv, Moves
<1>1. pc \in [Calls -> {"none", "ready", "identifying", "context", "integrations", "settled"}]
  BY DEF TypeOK
<1>2. \A j \in Calls : pc'[j] = IF j = k THEN to ELSE pc[j]
  BY <1>1
<1>3. \A j \in Calls : (Over(j))' <=> (j = k \/ Over(j))
  BY <1>2 DEF Over
<1>4. Reached \subseteq Calls /\ k \notin Reached
  <2>1. DOMAIN reached = 1..Len(reached)
    BY LenProperties DEF TypeOK
  <2>2. \A i \in 1..Len(reached) : reached[i] \in Calls
    BY ElementOfSeq DEF TypeOK
  <2> QED
    BY <2>1, <2>2 DEF Reached, ToSet, ReachedInv
<1>5. Reached' = IF to = "integrations" THEN Reached \cup {k} ELSE Reached
  BY BeforeAppend DEF Reached
<1>6. \A j \in Reached' : (Over(j))'
  BY <1>3, <1>4, <1>5 DEF ReachedInv
<1>7. \A j \in Calls : pc'[j] = "integrations" => j \in Reached'
  BY <1>2, <1>5 DEF ReachedInv
<1>8. \A j \in Calls : pc'[j] = "settled" /\ j \notin Reached' => ~initialized'
  BY <1>2, <1>5 DEF ReachedInv
<1>9. \A s, t \in Calls : (SameVisitor(s, t))' <=> SameVisitor(s, t)
  BY DEF SameVisitor
<1>10. \A s, t \in Calls : (SameVisitor(s, t))' /\ (Over(t))' => (Over(s))'
  BY <1>3, <1>9 DEF ReachedInv
<1>11. ASSUME NEW s \in Calls, NEW t \in Calls, SameVisitor(s, t), t \in Reached'
       PROVE  (Before(s, t))'
  <2>1. CASE t # k
    <3>1. Before(s, t)
      BY <2>1, <1>5, <1>11 DEF ReachedInv
    <3>2. CASE to = "integrations"
      BY <3>1, <3>2, BeforeAppend
    <3>3. CASE to = "settled"
      BY <3>1, <3>3 DEF Before
    <3> QED
      BY <3>2, <3>3
  <2>2. CASE t = k
    <3>1. to = "integrations" /\ kind[k] = "track" /\ initialized
      BY <2>2, <1>4, <1>5, <1>11 DEF SameVisitor
    <3>2. s \in Reached
      BY <3>1, <2>2, <1>11 DEF ReachedInv, Over
    <3> QED
      BY <3>1, <3>2, <2>2, BeforeAppend
  <2> QED
    BY <2>1, <2>2
<1> QED
  BY <1>6, <1>7, <1>8, <1>9, <1>10, <1>11 DEF ReachedInv

(* Call k moves on without being fanned out or ignored. *)
LEMMA ReachedKept ==
    ASSUME ClientInv, NEW k \in Calls, NEW to, Moves(k, to),
           UNCHANGED reached, initialized' => initialized,
           \/ to = "settled" /\ pc[k] = "integrations" /\ UNCHANGED waitsFor
           \/ /\ to \in {"identifying", "context"} /\ Runs(k, "ready")
              /\ \A j \in Calls \ {k} : waitsFor'[j] = waitsFor[j]
    PROVE  ReachedInv'
<1> USE DEF ClientInv, Moves
<1>1. pc \in [Calls -> {"none", "ready", "identifying", "context", "integrations", "settled"}]
  BY DEF TypeOK
<1>2. \A j \in Calls : pc'[j] = IF j = k THEN to ELSE pc[j]
  BY <1>1
<1>3. \A j \in Calls : (Over(j))' <=> Over(j)
  BY <1>2, RunsProps DEF Over
<1>4. Reached' = Reached /\ \A s, t \in Calls : (Before(s, t))' <=> Before(s, t)
  BY DEF Reached, Before
<1>5. Reached \subseteq Calls
  <2>1. DOMAIN reached = 1..Len(reached)
    BY LenProperties DEF TypeOK
  <2>2. \A i \in 1..Len(reached) : reached[i] \in Calls
    BY ElementOfSeq DEF TypeOK
  <2> QED
    BY <2>1, <2>2 DEF Reached, ToSet
<1>6. /\ \A j \in Reached' : (Over(j))'
      /\ \A j \in Calls : pc'[j] = "integrations" => j \in Reached'
      /\ \A j \in Calls : pc'[j] = "settled" /\ j \notin Reached' => ~initialized'
  BY <1>2, <1>3, <1>4, <1>5 DEF ReachedInv
<1>7. ASSUME NEW s \in Calls, NEW t \in Calls, (SameVisitor(s, t))', Over(t)
      PROVE  SameVisitor(s, t)
  <2>1. CASE UNCHANGED waitsFor
    BY <2>1, <1>7 DEF SameVisitor
  <2>2. CASE Runs(k, "ready") /\ \A j \in Calls \ {k} : waitsFor'[j] = waitsFor[j]
    <3>1. Left(t)
      BY <1>7 DEF Over, Left
    <3>2. s < t /\ ~(k <= t)
      BY <3>1, <2>2, <1>7, NextToLeave DEF SameVisitor
    <3>3. s # k /\ t # k
      BY <3>2 DEF Calls
    <3> QED
      BY <3>3, <2>2, <1>7 DEF SameVisitor
  <2> QED
    BY <2>1, <2>2
<1>8. ASSUME NEW s \in Calls, NEW t \in Calls, (SameVisitor(s, t))', Over(t)
      PROVE  (Over(s))'
  BY <1>3, <1>7, <1>8 DEF ReachedInv
<1>9. ASSUME NEW s \in Calls, NEW t \in Calls, (SameVisitor(s, t))', t \in Reached'
      PROVE  (Before(s, t))'
  BY <1>4, <1>7, <1>9 DEF ReachedInv
<1> QED
  BY <1>3, <1>6, <1>8, <1>9 DEF ReachedInv
(* Call k takes a step that releases no other call. *)
LEMMA OthersKept ==
    ASSUME ClientInv, NEW k \in Calls, NEW to, Moves(k, to), pc[k] # "settled",
           \A j \in Calls \ {k} : waitsFor'[j] = waitsFor[j],
           to = "settled" => \A t \in Calls : pc[t] = "identifying" => waitsFor[t] # k
    PROVE  /\ \A j \in Calls \ {k} : (Runnable(j))' <=> Runnable(j)
           /\ \A j \in Calls \ {k} : pc'[j] = pc[j]
<1> USE DEF Moves
<1>1. pc \in [Calls -> {"none", "ready", "identifying", "context", "integrations", "settled"}]
  BY DEF ClientInv, TypeOK
<1>2. \A j \in Calls : pc'[j] = IF j = k THEN to ELSE pc[j]
  BY <1>1
<1>3. \A j \in Calls : waitsFor[j] \in Calls \cup {None}
  BY DEF ClientInv, TypeOK
<1>4. ASSUME NEW j \in Calls \ {k} PROVE (Runnable(j))' <=> Runnable(j)
  <2>1. ASSUME pc[j] = "identifying", waitsFor[j] # None
        PROVE  pc'[waitsFor[j]] = "settled" <=> pc[waitsFor[j]] = "settled"
    <3>1. waitsFor[j] \in Calls
      BY <1>3, <2>1
    <3>2. CASE waitsFor[j] = k
      <4>1. to # "settled"
        BY <2>1, <3>2
      <4> QED
        BY <1>2, <3>1, <3>2, <4>1
    <3>3. CASE waitsFor[j] # k
      BY <1>2, <3>1, <3>3
    <3> QED
      BY <3>2, <3>3
  <2> QED
    BY <2>1, <1>2 DEF Runnable
<1> QED
  BY <1>2, <1>4

(* Call k leaves the queue, and joins its end again if it may run on. *)
LEMMA JobsKept ==
    ASSUME ClientInv, NEW k \in Calls, NEW to, Moves(k, to), NEW from, Runs(k, from),
           \A j \in Calls \ {k} : waitsFor'[j] = waitsFor[j], waitsFor' \in [Calls -> Calls \cup {None}],
           to = "settled" => \A t \in Calls : pc[t] = "identifying" => waitsFor[t] # k,
           jobs' = IF (Runnable(k))' THEN Append(Tail(jobs), k) ELSE Tail(jobs),
           to = "identifying" => from = "ready"
    PROVE  JobsInv'
<1>1. /\ Tail(jobs) \in Seq(Calls) /\ ToSet(Tail(jobs)) = ToSet(jobs) \ {k}
      /\ Fair(Tail(jobs), pc, waitsFor) /\ pc[k] = from /\ Runnable(k)
  BY RunsProps
<1>2. pc[k] # "settled"
  BY <1>1 DEF Runnable
<1>3. /\ \A j \in Calls \ {k} : (Runnable(j))' <=> Runnable(j)
      /\ \A j \in Calls \ {k} : pc'[j] = pc[j]
  BY <1>2, OthersKept
<1>4. ToSet(jobs) \subseteq Calls
  <2>1. jobs \in Seq(Calls) /\ DOMAIN jobs = 1..Len(jobs)
    BY LenProperties DEF ClientInv, TypeOK
  <2>2. \A i \in 1..Len(jobs) : jobs[i] \in Calls
    BY <2>1, ElementOfSeq
  <2> QED
    BY <2>1, <2>2 DEF ToSet
<1> DEFINE tail == Tail(jobs)
<1>5. /\ tail \in Seq(Calls) /\ Fair(tail, pc, waitsFor)
      /\ \A j \in ToSet(tail) : pc'[j] = pc[j] /\ waitsFor'[j] = waitsFor[j]
  BY <1>1, <1>3, <1>4
<1>6. pc'[k] = to /\ to # "ready"
  BY DEF Moves, ClientInv, TypeOK
<1>7. ASSUME NEW j \in ToSet(tail) PROVE MayPrecede(pc', waitsFor', j, k)
  <2>1. j \in Calls /\ j # k /\ pc'[j] = pc[j]
    BY <1>1, <1>3, <1>4
  <2>2. ASSUME pc[j] = "identifying", to = "identifying" PROVE j < k
    <3>1. ~(k <= j)
      BY <2>1, <2>2, NextToLeave DEF Left
    <3> QED
      BY <3>1, <2>1 DEF Calls
  <2> QED
    BY <2>1, <2>2, <1>6 DEF MayPrecede
<1>8. CASE (Runnable(k))'
  <2>1. jobs' = Append(tail, k)
    BY <1>8
  <2> HIDE DEF tail
  <2>2. Fair(tail, pc', waitsFor')
    BY <1>5, FairSame
  <2>3. Fair(jobs', pc', waitsFor') /\ ToSet(jobs') = ToSet(tail) \cup {k}
    BY <2>1, <2>2, <1>5, <1>7, FairAppend, AppendSet
  <2>4. \A j \in Calls : j \in ToSet(jobs') <=> (Runnable(j))'
    BY <2>3, <1>1, <1>3, <1>8 DEF ClientInv, JobsInv, tail
  <2> QED
    BY <2>3, <2>4 DEF JobsInv
<1>9. CASE ~(Runnable(k))'
  <2>1. jobs' = tail
    BY <1>9
  <2>2. \A j \in Calls : j \in ToSet(jobs') <=> (Runnable(j))'
    BY <2>1, <1>1, <1>3, <1>9 DEF ClientInv, JobsInv
  <2> HIDE DEF tail
  <2>3. Fair(tail, pc', waitsFor')
    BY <1>5, FairSame
  <2> QED
    BY <2>1, <2>2, <2>3 DEF JobsInv
<1> QED
  BY <1>8, <1>9

-----------------------------------------------------------------------------
(* The actions *)

Rest == CallInv /\ JobsInv /\ WaitInv /\ ReachedInv

LEMMA CallKeeps == ASSUME ClientInv, NEW how \in Kinds, Call(how) PROVE Rest'
<1> DEFINE k == called + 1
<1> USE DEF ClientInv, Calls
<1>1. /\ k \in Calls /\ called' = k /\ pc[k] = "none"
      /\ pc' = [pc EXCEPT ![k] = "ready"] /\ kind' = [kind EXCEPT ![k] = how]
      /\ jobs' = IF ready THEN Append(jobs, k) ELSE jobs
      /\ UNCHANGED <<ready, initialized, waitsFor, identifying, reached>>
  <2>1. k \in Calls /\ k > called
    BY ClientAssumption DEF Call, TypeOK
  <2> QED
    BY <2>1 DEF Call, CallInv
<1> HIDE DEF k
<1>2. /\ pc \in [Calls -> {"none", "ready", "identifying", "context", "integrations", "settled"}]
      /\ kind \in [Calls -> Kinds] /\ waitsFor \in [Calls -> Calls \cup {None}]
      /\ called \in Nat /\ MaxCalls \in Nat /\ identifying \in Calls \cup {None}
  BY ClientAssumption DEF TypeOK
<1>3. \A j \in Calls : /\ pc'[j] = IF j = k THEN "ready" ELSE pc[j]
                       /\ kind'[j] = IF j = k THEN how ELSE kind[j]
  BY <1>1, <1>2
<1>4. \A j \in Calls : /\ (Left(j))' <=> Left(j)
                       /\ (Over(j))' <=> Over(j)
                       /\ Left(j) => j < k
                       /\ Left(j) => kind'[j] = kind[j]
  <2>1. \A j \in Calls : (j > called) <=> ~(j < k)
    BY <1>2 DEF k
  <2> QED
    BY <2>1, <1>1, <1>3 DEF Left, Over, CallInv
<1>5. CallInv'
  <2>1. \A j \in Calls : (j > called') <=> (j > called /\ j # k)
    BY <1>1, <1>2 DEF k
  <2>2. \A j \in Calls : pc'[j] = "none" <=> j > called'
    BY <2>1, <1>1, <1>3 DEF CallInv
  <2>3. \A i, j \in Calls : i < j /\ (Left(j))' => (Left(i))'
    BY <1>4 DEF CallInv
  <2>4. ~ready' => jobs' = <<>> /\ \A j \in Calls : ~(Left(j))'
    BY <1>1, <1>4 DEF CallInv
  <2>5. \A j \in Calls : /\ pc'[j] = "identifying" => kind'[j] = "track"
                         /\ pc'[j] = "context" => kind'[j] = "identify"
    BY <1>1, <1>3 DEF CallInv
  <2> QED
    BY <1>1, <2>2, <2>3, <2>4, <2>5 DEF CallInv
<1>6. \A j \in Calls : (Runnable(j))' <=> (Runnable(j) \/ (j = k /\ ready))
  <2> SUFFICES ASSUME NEW j \in Calls
               PROVE  (Runnable(j))' <=> (Runnable(j) \/ (j = k /\ ready))
    OBVIOUS
  <2>1. ASSUME waitsFor[j] # None
        PROVE  pc'[waitsFor[j]] = "settled" <=> pc[waitsFor[j]] = "settled"
    <3>1. waitsFor[j] \in Calls
      BY <2>1, <1>2
    <3> QED
      BY <3>1, <1>1, <1>3
  <2> QED
    BY <2>1, <1>1, <1>3 DEF Runnable
<1>7. JobsInv'
  <2>1. jobs \in Seq(Calls) /\ Fair(jobs, pc, waitsFor)
    BY DEF TypeOK, JobsInv
  <2>2. \A j \in Calls : j \in ToSet(jobs) <=> Runnable(j)
    BY DEF JobsInv
  <2>3. ToSet(jobs) \subseteq Calls
    <3>1. DOMAIN jobs = 1..Len(jobs)
      BY <2>1, LenProperties
    <3>2. \A i \in 1..Len(jobs) : jobs[i] \in Calls
      BY <2>1, ElementOfSeq
    <3> QED
      BY <3>1, <3>2 DEF ToSet
  <2>4. k \notin ToSet(jobs)
    BY <2>2, <1>1 DEF Runnable
  <2>5. Fair(jobs, pc', waitsFor')
    <3>1. \A j \in ToSet(jobs) : pc'[j] = pc[j] /\ waitsFor'[j] = waitsFor[j]
      BY <2>3, <2>4, <1>1, <1>3
    <3> QED
      BY <3>1, <2>1, FairSame
  <2>6. CASE ready
    <3>1. jobs' = Append(jobs, k)
      BY <2>6, <1>1
    <3>2. ASSUME NEW j \in ToSet(jobs) PROVE MayPrecede(pc', waitsFor', j, k)
      <4>1. j \in Calls /\ j # k /\ pc[j] # "none"
        BY <2>2, <2>3, <2>4 DEF Runnable
      <4>2. j < k
        BY <4>1, <1>2 DEF CallInv, k
      <4> QED
        BY <4>1, <4>2 DEF MayPrecede
    <3>3. Fair(jobs', pc', waitsFor')
      BY <3>1, <3>2, <2>1, <2>5, <1>1, FairAppend
    <3>4. ToSet(jobs') = ToSet(jobs) \cup {k}
      BY <3>1, <2>1, <1>1, AppendSet
    <3> QED
      BY <3>3, <3>4, <2>2, <2>6, <1>6 DEF JobsInv
  <2>7. CASE ~ready
    <3>1. jobs' = jobs
      BY <2>7, <1>1
    <3> QED
      BY <3>1, <2>2, <2>5, <2>7, <1>6 DEF JobsInv
  <2> QED
    BY <2>6, <2>7
<1>8. \A j \in Calls : Left(j) => Identifies(j)' = Identifies(j)
  <2> SUFFICES ASSUME NEW j \in Calls, Left(j) PROVE Identifies(j)' = Identifies(j)
    OBVIOUS
  <2>1. j < k
    BY <1>4
  <2>2. \A i \in 1..(j - 1) : i \in Calls /\ i # k
    BY <2>1, <1>2, <1>1
  <2> QED
    BY <2>2, <1>3 DEF Identifies
<1>9. WaitInv'
  <2>1. identifying' # None => kind'[identifying'] = "identify" /\ (Left(identifying))'
    BY <1>1, <1>2, <1>4 DEF WaitInv
  <2>2. \A j \in Calls : kind'[j] = "identify" /\ (Left(j))' => j <= identifying'
    BY <1>1, <1>4 DEF WaitInv
  <2>3. \A t \in Calls : kind'[t] = "track" /\ (Left(t))' => (IsLatest(waitsFor[t], t))'
    BY <1>1, <1>4, <1>8 DEF WaitInv, IsLatest
  <2>4. ASSUME NEW t \in Calls, kind'[t] = "track", (Over(t))', waitsFor'[t] # None
        PROVE  pc'[waitsFor'[t]] = "settled"
    <3>1. Over(t) /\ Left(t) /\ kind[t] = "track"
      BY <2>4, <1>4 DEF Over, Left
    <3>2. waitsFor[t] \in Calls /\ pc[waitsFor[t]] = "settled"
      BY <3>1, <2>4, <1>1, <1>2 DEF WaitInv
    <3> QED
      BY <3>2, <1>1, <1>3
  <2> QED
    BY <2>1, <2>2, <2>3, <2>4 DEF WaitInv, Left
<1>10. Reached' = Reached /\ Reached \subseteq Calls
  <2>1. reached \in Seq(Calls) /\ DOMAIN reached = 1..Len(reached)
    BY LenProperties DEF TypeOK
  <2>2. \A i \in 1..Len(reached) : reached[i] \in Calls
    BY <2>1, ElementOfSeq
  <2> QED
    BY <2>1, <2>2, <1>1 DEF Reached, ToSet
<1>11. ReachedInv'
  <2>1. /\ \A j \in Reached' : (Over(j))'
        /\ \A j \in Calls : pc'[j] = "integrations" => j \in Reached'
        /\ \A j \in Calls : pc'[j] = "settled" /\ j \notin Reached' => ~initialized'
    BY <1>1, <1>3, <1>4, <1>10 DEF ReachedInv
  <2>2. ASSUME NEW s \in Calls, NEW t \in Calls, (SameVisitor(s, t))', Over(t)
        PROVE  SameVisitor(s, t)
    <3>1. Left(t) /\ s < t
      BY <2>2 DEF Over, Left, SameVisitor
    <3>2. Left(s)
      BY <3>1 DEF CallInv
    <3> QED
      BY <3>1, <3>2, <2>2, <1>1, <1>4 DEF SameVisitor
  <2>3. \A s, t \in Calls : (SameVisitor(s, t))' /\ (Over(t))' => (Over(s))'
    BY <2>2, <1>4 DEF ReachedInv
  <2>4. \A s, t \in Calls : (SameVisitor(s, t))' /\ t \in Reached' => (Before(s, t))'
    BY <2>2, <1>1, <1>10 DEF ReachedInv, Before
  <2> QED
    BY <2>1, <2>3, <2>4 DEF ReachedInv
<1> QED
  BY <1>5, <1>7, <1>9, <1>11 DEF Rest
LEMMA InitEndsKeeps == ASSUME ClientInv, InitEnds PROVE Rest'
<1> USE DEF ClientInv
<1> DEFINE S == {k \in Calls : pc[k] = "ready"}
<1>1. /\ ~ready /\ ready' = TRUE /\ initialized' = TRUE /\ jobs' = InOrder(S)
      /\ UNCHANGED <<called, kind, pc, waitsFor, identifying, reached>>
      /\ \A k \in Calls : ~Left(k)
  BY DEF InitEnds, app, CallInv
<1>2. /\ ToSet(InOrder(S)) = S /\ Fair(InOrder(S), pc', waitsFor')
  <2>1. S \subseteq Calls
    OBVIOUS
  <2> HIDE DEF S
  <2> QED
    BY <2>1, InOrderProps, FairInOrder
<1>3. CallInv'
  BY <1>1 DEF CallInv, Left
<1>4. JobsInv'
  BY <1>1, <1>2 DEF JobsInv, Runnable, Left
<1>5. WaitInv'
  BY <1>1 DEF WaitInv, IsLatest, Identifies, Left, Over
<1>6. ReachedInv'
  <2>1. \A k \in Calls : pc[k] # "settled"
    BY <1>1 DEF Left
  <2> QED
    BY <1>1, <2>1 DEF ReachedInv, Reached, Over, SameVisitor, Before
<1> QED
  BY <1>3, <1>4, <1>5, <1>6 DEF Rest

LEMMA TrackReadyKeeps == ASSUME ClientInv, NEW k \in Calls, TrackReady(k) PROVE Rest'
<1>1. /\ Runs(k, "ready") /\ kind[k] = "track" /\ Moves(k, "identifying")
      /\ waitsFor' = [waitsFor EXCEPT ![k] = identifying]
      /\ UNCHANGED <<initialized, identifying, reached>>
      /\ jobs' = IF identifying = None \/ pc[identifying] = "settled"
                   THEN Append(Tail(jobs), k) ELSE Tail(jobs)
  BY DEF TrackReady, LatestIdentify, Moves, app
<1>2. /\ pc[k] = "ready" /\ ready /\ k <= called
      /\ \A j \in Calls : j < k => Left(j)
      /\ \A j \in Calls : k <= j => ~Left(j)
  BY <1>1, RunsProps, NextToLeave
<1>3. /\ pc \in [Calls -> {"none", "ready", "identifying", "context", "integrations", "settled"}]
      /\ waitsFor \in [Calls -> Calls \cup {None}] /\ identifying \in Calls \cup {None}
  BY DEF ClientInv, TypeOK
<1>4. /\ \A j \in Calls : waitsFor'[j] = IF j = k THEN identifying ELSE waitsFor[j]
      /\ \A j \in Calls : pc'[j] = IF j = k THEN "identifying" ELSE pc[j]
      /\ waitsFor' \in [Calls -> Calls \cup {None}]
  BY <1>1, <1>3 DEF Moves
<1>5. CallInv'
  BY <1>1, <1>2, CallKept
<1>6. identifying # None => identifying \in Calls /\ identifying < k /\ kind[identifying] = "identify"
  BY <1>2, <1>3 DEF ClientInv, WaitInv, Calls
<1>7. JobsInv'
  <2>1. (Runnable(k))' <=> (identifying = None \/ pc[identifying] = "settled")
    <3>1. identifying # None => pc'[identifying] = pc[identifying]
      BY <1>4, <1>6 DEF Calls
    <3> QED
      BY <3>1, <1>4 DEF Runnable
  <2>2. jobs' = IF (Runnable(k))' THEN Append(Tail(jobs), k) ELSE Tail(jobs)
    BY <1>1, <2>1
  <2> QED
    BY <2>2, <1>1, <1>4, JobsKept
<1>8. ReachedInv'
  BY <1>1, <1>4, ReachedKept
<1>9. WaitInv'
  <2>1. /\ \A j \in Calls : (Left(j))' <=> (j = k \/ Left(j))
        /\ \A j \in Calls : (Over(j))' <=> Over(j)
        /\ \A j \in Calls : pc'[j] = "settled" <=> pc[j] = "settled"
        /\ \A j \in Calls : Identifies(j)' = Identifies(j)
        /\ kind' = kind /\ identifying' = identifying
    BY <1>1, <1>2, <1>4 DEF Left, Over, Identifies, Moves
  <2>2. identifying' # None => kind'[identifying'] = "identify" /\ (Left(identifying))'
    BY <1>3, <2>1 DEF ClientInv, WaitInv
  <2>3. \A j \in Calls : kind'[j] = "identify" /\ (Left(j))' => j <= identifying'
    BY <1>1, <2>1 DEF ClientInv, WaitInv
  <2>4. ASSUME NEW t \in Calls, kind'[t] = "track", (Left(t))'
        PROVE  (IsLatest(waitsFor[t], t))'
    <3>1. CASE t # k
      BY <3>1, <2>1, <2>4, <1>4 DEF ClientInv, WaitInv, IsLatest
    <3>2. CASE t = k
      <4>1. identifying = None \/ identifying \in Identifies(k)
        BY <1>6, ClientAssumption DEF Identifies, Calls
      <4>2. \A i \in Identifies(k) : i \in Calls /\ i < k /\ kind[i] = "identify"
        BY ClientAssumption DEF Identifies, Calls
      <4>3. \A i \in Identifies(k) : i <= identifying
        BY <4>2, <1>2 DEF ClientInv, WaitInv
      <4> QED
        BY <3>2, <4>1, <4>3, <2>1, <1>4 DEF IsLatest
    <3> QED
      BY <3>1, <3>2
  <2>5. ASSUME NEW t \in Calls, kind'[t] = "track", (Over(t))', waitsFor'[t] # None
        PROVE  pc'[waitsFor'[t]] = "settled"
    <3>1. Over(t) /\ kind[t] = "track" /\ t # k
      BY <2>1, <2>5, <1>4 DEF Over
    <3>2. waitsFor'[t] = waitsFor[t] /\ waitsFor[t] \in Calls /\ pc[waitsFor[t]] = "settled"
      BY <3>1, <2>5, <1>3, <1>4 DEF ClientInv, WaitInv
    <3> QED
      BY <3>2, <2>1
  <2> QED
    BY <2>2, <2>3, <2>4, <2>5 DEF WaitInv, Left
<1> QED
  BY <1>5, <1>7, <1>8, <1>9 DEF Rest

LEMMA TrackGoesKeeps == ASSUME ClientInv, NEW k \in Calls, TrackGoes(k) PROVE Rest'
<1>1. /\ Runs(k, "identifying") /\ jobs' = Tail(jobs)
      /\ UNCHANGED <<ready, initialized, called, kind, waitsFor, identifying>>
  BY DEF TrackGoes, app
<1>2. /\ pc[k] = "identifying" /\ Runnable(k) /\ ready
      /\ \A j \in ToSet(jobs) \ {k} : MayPrecede(pc, waitsFor, k, j)
  BY <1>1, RunsProps
<1>3. kind[k] = "track" /\ Left(k) /\ ~Over(k)
  BY <1>2 DEF ClientInv, CallInv, Left, Over
<1>4. PICK to \in {"integrations", "settled"} :
        /\ Moves(k, to)
        /\ \/ to = "integrations" /\ reached' = Append(reached, k) /\ initialized
           \/ to = "settled" /\ reached' = reached /\ ~initialized
  BY <1>1, <1>3 DEF TrackGoes, FacadeTakes, FanOut, Ignored, Moves
<1>5. CallInv'
  BY <1>1, <1>2, <1>3, <1>4, CallKept
<1>6. waitsFor[k] # None => pc[waitsFor[k]] = "settled"
  BY <1>2 DEF Runnable
<1>7. WaitInv'
  BY <1>1, <1>2, <1>3, <1>4, <1>6, WaitKept
<1>8. ~(Runnable(k))'
  BY <1>4 DEF Runnable, Moves, ClientInv, TypeOK
<1>9. \A t \in Calls : pc[t] = "identifying" => waitsFor[t] # k
  <2> SUFFICES ASSUME NEW t \in Calls, pc[t] = "identifying", waitsFor[t] = k PROVE FALSE
    OBVIOUS
  <2>1. kind[t] = "track" /\ Left(t) /\ waitsFor[t] # None
    BY DEF ClientInv, CallInv, Left, Calls, None
  <2> QED
    BY <2>1, <1>3, WaitedFor
<1>10. JobsInv'
  BY <1>1, <1>4, <1>8, <1>9, JobsKept DEF ClientInv, TypeOK
<1>11. ASSUME NEW s \in Calls, SameVisitor(s, k) PROVE Over(s)
  <2>1. Left(s) /\ kind[s] = "track" /\ s < k /\ waitsFor[s] = waitsFor[k]
    BY <1>3, <1>11 DEF ClientInv, CallInv, SameVisitor
  <2>2. ASSUME pc[s] = "identifying" PROVE FALSE
    <3>1. s \in ToSet(jobs)
      BY <2>1, <2>2, <1>2 DEF ClientInv, JobsInv, Runnable
    <3>2. MayPrecede(pc, waitsFor, k, s)
      BY <3>1, <2>1, <1>2 DEF Calls
    <3> QED
      BY <3>2, <2>1, <2>2, <1>2 DEF MayPrecede, Calls
  <2> QED
    BY <2>1, <2>2 DEF ClientInv, TypeOK, CallInv, Left, Over
<1>12. ReachedInv'
  BY <1>1, <1>3, <1>4, <1>11, ReachedTakes
<1> QED
  BY <1>5, <1>7, <1>10, <1>12 DEF Rest
LEMMA IdentifyReadyKeeps == ASSUME ClientInv, NEW k \in Calls, IdentifyReady(k) PROVE Rest'
<1>1. /\ Runs(k, "ready") /\ kind[k] = "identify" /\ identifying' = k
      /\ UNCHANGED <<ready, initialized, called, kind, waitsFor, reached>>
      /\ jobs' = IF initialized /\ ~SlowContext THEN Append(Tail(jobs), k) ELSE Tail(jobs)
  BY DEF IdentifyReady, Ignored, app
<1>2. /\ pc[k] = "ready" /\ ready /\ ~Over(k)
      /\ \A j \in Calls : j < k => Left(j)
      /\ \A j \in Calls : k <= j => ~Left(j)
  BY <1>1, RunsProps, NextToLeave DEF Over
<1> DEFINE to == IF initialized THEN "context" ELSE "settled"
<1>3. Moves(k, to)
  BY <1>1 DEF IdentifyReady, Ignored, Moves
<1>4. (to = "context" /\ initialized) \/ (to = "settled" /\ ~initialized)
  BY DEF ClientInv, TypeOK
<1> HIDE DEF to
<1>5. /\ pc \in [Calls -> {"none", "ready", "identifying", "context", "integrations", "settled"}]
      /\ waitsFor \in [Calls -> Calls \cup {None}] /\ identifying \in Calls \cup {None}
  BY DEF ClientInv, TypeOK
<1>6. \A j \in Calls : pc'[j] = IF j = k THEN to ELSE pc[j]
  BY <1>3, <1>5 DEF Moves
<1>7. CallInv'
  BY <1>1, <1>2, <1>3, <1>4, CallKept
<1>8. \A t \in Calls : pc[t] = "identifying" => waitsFor[t] # k
  <2> SUFFICES ASSUME NEW t \in Calls, pc[t] = "identifying", waitsFor[t] = k PROVE FALSE
    OBVIOUS
  <2>1. kind[t] = "track" /\ Left(t) /\ waitsFor[t] # None
    BY DEF ClientInv, CallInv, Left, Calls, None
  <2>2. Left(k)
    BY <2>1, WaitedFor
  <2> QED
    BY <2>2, <1>2 DEF Left
<1>9. JobsInv'
  <2>1. (Runnable(k))' <=> initialized /\ ~SlowContext
    BY <1>4, <1>6 DEF Runnable
  <2>2. jobs' = IF (Runnable(k))' THEN Append(Tail(jobs), k) ELSE Tail(jobs)
    BY <1>1, <2>1
  <2> QED
    BY <2>2, <1>1, <1>3, <1>4, <1>5, <1>8, JobsKept
<1>10. ReachedInv'
  <2>1. CASE initialized
    BY <2>1, <1>1, <1>3, <1>4, ReachedKept
  <2>2. CASE ~initialized
    <3>1. \A s \in Calls : ~SameVisitor(s, k)
      BY <1>1 DEF SameVisitor
    <3> QED
      BY <3>1, <2>2, <1>1, <1>2, <1>3, <1>4, ReachedTakes
  <2> QED
    BY <2>1, <2>2
<1>11. WaitInv'
  <2>1. /\ \A j \in Calls : (Left(j))' <=> (j = k \/ Left(j))
        /\ \A j \in Calls : pc[j] = "settled" => pc'[j] = "settled"
        /\ \A j \in Calls : Identifies(j)' = Identifies(j)
        /\ k \in Calls /\ k # None
    BY <1>1, <1>2, <1>4, <1>6 DEF Left, Identifies, Calls, None
  <2>2. kind'[identifying'] = "identify" /\ (Left(identifying))'
    BY <1>1, <1>4, <1>6 DEF Left
  <2>3. \A j \in Calls : kind'[j] = "identify" /\ (Left(j))' => j <= identifying'
    <3>1. \A j \in Calls : ~(k <= j) => j <= k
      BY DEF Calls
    <3> QED
      BY <3>1, <1>1, <1>2, <2>1 DEF Calls
  <2>4. \A t \in Calls : kind'[t] = "track" /\ (Left(t))' => (IsLatest(waitsFor[t], t))'
    BY <1>1, <2>1 DEF ClientInv, WaitInv, IsLatest
  <2>5. ASSUME NEW t \in Calls, kind'[t] = "track", (Over(t))', waitsFor'[t] # None
        PROVE  pc'[waitsFor'[t]] = "settled"
    <3>1. Over(t) /\ kind[t] = "track" /\ t # k
      BY <1>1, <1>6, <2>5 DEF Over
    <3>2. waitsFor[t] \in Calls /\ pc[waitsFor[t]] = "settled"
      BY <3>1, <2>5, <1>1, <1>5 DEF ClientInv, WaitInv
    <3> QED
      BY <3>2, <2>1, <1>1
  <2> QED
    BY <2>2, <2>3, <2>4, <2>5 DEF WaitInv, Left
<1> QED
  BY <1>7, <1>9, <1>10, <1>11 DEF Rest

LEMMA ContextThereKeeps == ASSUME ClientInv, NEW k \in Calls, ContextThere(k) PROVE Rest'
<1>1. /\ pc[k] = "context" /\ Moves(k, "integrations") /\ reached' = Append(reached, k)
      /\ UNCHANGED <<initialized, waitsFor, identifying>>
  BY DEF ContextThere, FanOut, Moves, app, Runs
<1>2. kind[k] = "identify" /\ Left(k) /\ ~Over(k) /\ ready
  BY <1>1 DEF ClientInv, CallInv, Left, Over
<1>3. CallInv'
  BY <1>1, <1>2, CallKept
<1>4. WaitInv'
  BY <1>1, <1>2, WaitKept
<1>5. ReachedInv'
  <2>1. \A s \in Calls : ~SameVisitor(s, k)
    BY <1>2 DEF SameVisitor
  <2> QED
    BY <2>1, <1>1, <1>2, ReachedTakes
<1>6. pc'[k] = "integrations" /\ ~(Runnable(k))'
  BY <1>1 DEF Runnable, Moves, ClientInv, TypeOK
<1>7. JobsInv'
  <2>1. CASE SlowContext
    <3>1. jobs' = jobs /\ jobs \in Seq(Calls)
      BY <2>1 DEF ContextThere, ClientInv, TypeOK
    <3>2. /\ \A j \in Calls \ {k} : (Runnable(j))' <=> Runnable(j)
          /\ \A j \in Calls \ {k} : pc'[j] = pc[j]
      BY <1>1, OthersKept
    <3>3. /\ k \notin ToSet(jobs) /\ \A j \in Calls : j \in ToSet(jobs) <=> Runnable(j)
          /\ Fair(jobs, pc, waitsFor)
      BY <2>1, <1>1 DEF Runnable, ClientInv, JobsInv
    <3>4. ToSet(jobs) \subseteq Calls
      <4>1. DOMAIN jobs = 1..Len(jobs)
        BY <3>1, LenProperties
      <4>2. \A i \in 1..Len(jobs) : jobs[i] \in Calls
        BY <3>1, ElementOfSeq
      <4> QED
        BY <4>1, <4>2 DEF ToSet
    <3>5. \A j \in ToSet(jobs) : pc'[j] = pc[j] /\ waitsFor'[j] = waitsFor[j]
      BY <3>2, <3>3, <3>4, <1>1
    <3>6. Fair(jobs, pc', waitsFor')
      BY <3>1, <3>3, <3>5, FairSame
    <3> QED
      BY <3>1, <3>2, <3>3, <3>6, <1>6 DEF JobsInv
  <2>2. CASE ~SlowContext
    <3>1. Runs(k, "context") /\ jobs' = Tail(jobs)
      BY <2>2 DEF ContextThere
    <3> QED
      BY <3>1, <1>1, <1>6, JobsKept DEF ClientInv, TypeOK
  <2> QED
    BY <2>1, <2>2
<1> QED
  BY <1>3, <1>4, <1>5, <1>7 DEF Rest

LEMMA OtherReadyKeeps == ASSUME ClientInv, NEW k \in Calls, OtherReady(k) PROVE Rest'
<1>1. /\ Runs(k, "ready") /\ kind[k] \in {"reset", "flush", "shutdown"} /\ jobs' = Tail(jobs)
      /\ UNCHANGED <<ready, initialized, called, kind, waitsFor, identifying>>
  BY DEF OtherReady, app
<1>2. pc[k] = "ready" /\ ready /\ ~Over(k)
  BY <1>1, RunsProps DEF Over
<1>3. PICK to \in {"integrations", "settled"} :
        /\ Moves(k, to)
        /\ \/ to = "integrations" /\ reached' = Append(reached, k)
           \/ to = "settled" /\ reached' = reached /\ ~initialized
  BY <1>1 DEF OtherReady, FacadeTakes, FanOut, Ignored, Moves
<1>4. CallInv'
  BY <1>1, <1>2, <1>3, CallKept
<1>5. WaitInv'
  BY <1>1, <1>2, <1>3, WaitKept
<1>6. ~(Runnable(k))'
  BY <1>3 DEF Runnable, Moves, ClientInv, TypeOK
<1>7. \A t \in Calls : pc[t] = "identifying" => waitsFor[t] # k
  <2> SUFFICES ASSUME NEW t \in Calls, pc[t] = "identifying", waitsFor[t] = k PROVE FALSE
    OBVIOUS
  <2>1. kind[t] = "track" /\ Left(t) /\ waitsFor[t] # None
    BY DEF ClientInv, CallInv, Left, Calls, None
  <2> QED
    BY <2>1, <1>1, WaitedFor
<1>8. JobsInv'
  BY <1>1, <1>3, <1>6, <1>7, JobsKept DEF ClientInv, TypeOK
<1>9. \A s \in Calls : ~SameVisitor(s, k)
  BY <1>1 DEF SameVisitor
<1>10. ReachedInv'
  BY <1>1, <1>2, <1>3, <1>9, ReachedTakes
<1> QED
  BY <1>4, <1>5, <1>8, <1>10 DEF Rest

LEMMA SettlesKeeps == ASSUME ClientInv, NEW k \in Calls, Settles(k) PROVE Rest'
<1> DEFINE S == {t \in Calls : pc[t] = "identifying" /\ waitsFor[t] = k}
           freed == InOrder(S)
<1>1. /\ pc[k] = "integrations" /\ Moves(k, "settled") /\ jobs' = jobs \o freed
      /\ UNCHANGED <<waitsFor, identifying, reached>> /\ (initialized' => initialized)
  BY DEF Settles, Moves, app, Released
<1>2. Left(k) /\ ready
  BY <1>1 DEF ClientInv, CallInv, Left
<1>3. CallInv'
  BY <1>1, <1>2, CallKept
<1>4. kind[k] = "track" /\ waitsFor[k] # None => pc[waitsFor[k]] = "settled"
  BY <1>1 DEF ClientInv, WaitInv, Over
<1>5. WaitInv'
  BY <1>1, <1>2, <1>4, WaitKept
<1>6. ReachedInv'
  BY <1>1, ReachedKept
<1>7. /\ pc \in [Calls -> {"none", "ready", "identifying", "context", "integrations", "settled"}]
      /\ waitsFor \in [Calls -> Calls \cup {None}] /\ jobs \in Seq(Calls)
  BY DEF ClientInv, TypeOK
<1>8. \A j \in Calls : pc'[j] = IF j = k THEN "settled" ELSE pc[j]
  BY <1>1, <1>7 DEF Moves
<1>9. /\ freed \in Seq(Calls) /\ ToSet(freed) = S /\ Fair(freed, pc', waitsFor')
  <2>1. S \subseteq Calls
    OBVIOUS
  <2> HIDE DEF S
  <2> QED
    BY <2>1, InOrderProps, FairInOrder
<1> HIDE DEF freed
<1>10. \A j \in Calls : j \in ToSet(jobs) <=> Runnable(j)
  BY DEF ClientInv, JobsInv
<1>11. ToSet(jobs) \subseteq Calls
  <2>1. DOMAIN jobs = 1..Len(jobs)
    BY <1>7, LenProperties
  <2>2. \A i \in 1..Len(jobs) : jobs[i] \in Calls
    BY <1>7, ElementOfSeq
  <2> QED
    BY <2>1, <2>2 DEF ToSet
<1>12. k \notin ToSet(jobs)
  BY <1>1, <1>10 DEF Runnable
<1>13. k # None
  BY DEF Calls, None
<1>14. \A j \in Calls : (Runnable(j))' <=> (Runnable(j) \/ j \in S)
  <2> SUFFICES ASSUME NEW j \in Calls PROVE (Runnable(j))' <=> (Runnable(j) \/ j \in S)
    OBVIOUS
  <2>1. CASE j = k
    BY <2>1, <1>1, <1>8 DEF Runnable
  <2>2. CASE j # k
    <3>1. pc'[j] = pc[j] /\ waitsFor'[j] = waitsFor[j]
      BY <2>2, <1>1, <1>8
    <3>2. waitsFor[j] # None =>
            (pc'[waitsFor[j]] = "settled" <=> pc[waitsFor[j]] = "settled" \/ waitsFor[j] = k)
      BY <1>7, <1>8
    <3> QED
      BY <3>1, <3>2, <1>1, <1>2, <1>13 DEF Runnable, Moves
  <2> QED
    BY <2>1, <2>2
<1>15. \A j \in ToSet(jobs), t \in ToSet(freed) : MayPrecede(pc', waitsFor', j, t)
  <2> SUFFICES ASSUME NEW j \in ToSet(jobs), NEW t \in S PROVE MayPrecede(pc', waitsFor', j, t)
    BY <1>9
  <2>1. j \in Calls /\ Runnable(j) /\ j # k /\ t # k
    BY <1>1, <1>10, <1>11, <1>12
  <2>2. pc'[j] = pc[j] /\ pc'[t] = "identifying" /\ waitsFor'[t] = k /\ waitsFor'[j] = waitsFor[j]
    BY <2>1, <1>1, <1>8
  <2>3. ~(pc[j] = "identifying" /\ waitsFor[j] = k)
    BY <2>1, <1>1, <1>13 DEF Runnable
  <2> QED
    BY <2>2, <2>3 DEF MayPrecede
<1>16. JobsInv'
  <2>1. \A j \in ToSet(jobs) : pc'[j] = pc[j] /\ waitsFor'[j] = waitsFor[j]
    BY <1>1, <1>8, <1>11, <1>12
  <2>2. Fair(jobs, pc', waitsFor')
    BY <2>1, <1>7, FairSame DEF ClientInv, JobsInv
  <2>3. Fair(jobs', pc', waitsFor')
    BY <2>2, <1>1, <1>7, <1>9, <1>15, FairConcat
  <2>4. ToSet(jobs') = ToSet(jobs) \cup S
    BY <1>1, <1>7, <1>9, ConcatSet
  <2> QED
    BY <2>3, <2>4, <1>10, <1>14 DEF JobsInv
<1> QED
  BY <1>3, <1>5, <1>6, <1>16 DEF Rest

-----------------------------------------------------------------------------
(* The theorems *)

LEMMA ClientInit == Init => ClientInv
<1> SUFFICES ASSUME Init PROVE ClientInv
  OBVIOUS
<1>1. /\ TypeOK /\ called = 0 /\ ~ready /\ ~initialized /\ identifying = None
      /\ \A k \in Calls : pc[k] = "none" /\ kind[k] = "track"
      /\ jobs = <<>> /\ reached = <<>>
  BY TypeInit DEF Init
<1>2. Len(jobs) = 0 /\ ToSet(jobs) = {} /\ Reached = {}
  BY <1>1 DEF ToSet, Reached
<1>3. CallInv
  BY <1>1 DEF CallInv, Left, Calls
<1>4. JobsInv
  BY <1>1, <1>2 DEF JobsInv, Runnable, Fair
<1>5. WaitInv
  BY <1>1 DEF WaitInv, Left, Over
<1>6. ReachedInv
  BY <1>1, <1>2 DEF ReachedInv, Over
<1> QED
  BY <1>1, <1>3, <1>4, <1>5, <1>6 DEF ClientInv

LEMMA ClientNext == ASSUME ClientInv, [Next]_vars PROVE ClientInv'
<1>1. TypeOK'
  BY TypeNext DEF ClientInv
<1>2. ASSUME NEW k \in Calls, CallStep(k) PROVE Rest'
  BY <1>2, TrackReadyKeeps, TrackGoesKeeps, IdentifyReadyKeeps, ContextThereKeeps,
     OtherReadyKeeps, SettlesKeeps DEF CallStep
<1>3. ASSUME UNCHANGED vars PROVE Rest'
  <2>1. CallInv'
    BY <1>3 DEF vars, ClientInv, CallInv, Left
  <2>2. JobsInv'
    BY <1>3 DEF vars, ClientInv, JobsInv, Runnable
  <2>3. WaitInv'
    BY <1>3 DEF vars, ClientInv, WaitInv, Left, Over, IsLatest, Identifies
  <2>4. ReachedInv'
    <3>1. Reached' = Reached /\ \A i, j \in Calls : (Before(i, j))' <=> Before(i, j)
      BY <1>3 DEF vars, Reached, Before
    <3> QED
      BY <3>1, <1>3 DEF vars, ClientInv, ReachedInv, Over, SameVisitor
  <2> QED
    BY <2>1, <2>2, <2>3, <2>4 DEF Rest
<1>4. ASSUME NEW how \in Kinds, Call(how) PROVE Rest'
  BY <1>4, CallKeeps
<1>5. ASSUME InitEnds PROVE Rest'
  BY <1>5, InitEndsKeeps
<1>6. Rest'
  BY <1>2, <1>3, <1>4, <1>5 DEF Next
<1> QED
  BY <1>1, <1>6 DEF ClientInv, Rest

LEMMA ClientInvariant == Spec => []ClientInv
<1>1. ClientInv /\ [Next]_vars => ClientInv'
  BY ClientNext
<1> QED
  BY <1>1, ClientInit, PTL DEF Spec

(* The latest identify call is the greatest of those before the track.     *)
LEMMA LatestIsMax ==
    ASSUME NEW t \in Calls, NEW w, IsLatest(w, t), Identifies(t) # {}
    PROVE  w = Max(Identifies(t)) /\ w \in Identifies(t)
<1>1. \A i \in Identifies(t) : i \in Nat /\ i # None
  BY ClientAssumption DEF Identifies, Calls, None
<1>2. w \in Identifies(t) /\ \A i \in Identifies(t) : w >= i
  BY <1>1 DEF IsLatest, None
<1>3. ASSUME NEW v \in Identifies(t), \A i \in Identifies(t) : v >= i PROVE v = w
  BY <1>1, <1>2, <1>3
<1> QED
  BY <1>2, <1>3 DEF Max

LEMMA ReachedCalls == ASSUME TypeOK PROVE ToSet(reached) \subseteq Calls
<1>1. reached \in Seq(Calls) /\ DOMAIN reached = 1..Len(reached)
  BY LenProperties DEF TypeOK
<1>2. \A i \in 1..Len(reached) : reached[i] \in Calls
  BY <1>1, ElementOfSeq
<1> QED
  BY <1>1, <1>2 DEF ToSet

LEMMA WaitsAlike ==
    ASSUME ClientInv, NEW s \in Calls, NEW t \in Calls, Left(s), Left(t),
           kind[s] = "track", kind[t] = "track", Identifies(s) = Identifies(t)
    PROVE  waitsFor[s] = waitsFor[t]
<1>1. IsLatest(waitsFor[s], s) /\ IsLatest(waitsFor[t], t)
  BY DEF ClientInv, WaitInv
<1>2. CASE Identifies(s) = {}
  BY <1>1, <1>2 DEF IsLatest
<1>3. CASE Identifies(s) # {}
  BY <1>1, <1>3, LatestIsMax
<1> QED
  BY <1>2, <1>3

LEMMA ClientInvMeans == ASSUME ClientInv PROVE IdentifiedFirst /\ SameVisitorOrder
<1>1. ToSet(reached) \subseteq Calls /\ \A k \in ToSet(reached) : Over(k) /\ Left(k)
  BY ReachedCalls DEF ClientInv, ReachedInv, Reached, Over, Left
<1>2. IdentifiedFirst
  <2> SUFFICES ASSUME NEW t \in ToSet(reached), kind[t] = "track", Identifies(t) # {}
               PROVE  pc[Max(Identifies(t))] = "settled"
    BY DEF IdentifiedFirst
  <2>1. t \in Calls /\ Over(t) /\ IsLatest(waitsFor[t], t)
    BY <1>1 DEF ClientInv, WaitInv
  <2>2. waitsFor[t] = Max(Identifies(t)) /\ waitsFor[t] # None
    <3>1. waitsFor[t] \in Identifies(t)
      BY <2>1, LatestIsMax
    <3> QED
      BY <2>1, <3>1, LatestIsMax, ClientAssumption DEF Identifies, None, Calls
  <2> QED
    BY <2>1, <2>2 DEF ClientInv, WaitInv
<1>3. SameVisitorOrder
  <2> SUFFICES ASSUME NEW s \in ToSet(reached), NEW t \in ToSet(reached),
                      kind[s] = "track", kind[t] = "track", s < t, Identifies(s) = Identifies(t)
               PROVE  Before(s, t)
    BY DEF SameVisitorOrder
  <2>1. s \in Calls /\ t \in Calls /\ waitsFor[s] = waitsFor[t]
    BY <1>1, WaitsAlike
  <2> QED
    BY <2>1 DEF ClientInv, ReachedInv, SameVisitor, Reached
<1> QED
  BY <1>2, <1>3

(* Every variable of the client keeps its type, for any number of calls.   *)
THEOREM TypeCorrect == Spec => []TypeOK
<1>1. ClientInv => TypeOK
  BY DEF ClientInv
<1> QED
  BY <1>1, ClientInvariant, PTL

(* An event tracked after an identify call reaches the integrations only   *)
(* when the latest such call is over (browser.ts: track awaits ready and   *)
(* then identifying).                                                      *)
THEOREM IdentityComesFirst == Spec => []IdentifiedFirst
  BY ClientInvariant, ClientInvMeans, PTL

(* Events of one visitor reach the integrations in the order of the calls, *)
(* whenever init ends and however long the identify calls take.            *)
THEOREM OrderKept == Spec => []SameVisitorOrder
  BY ClientInvariant, ClientInvMeans, PTL
=============================================================================
