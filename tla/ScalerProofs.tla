----------------------------- MODULE ScalerProofs -----------------------------
(***************************************************************************)
(* What the scaler's handlers answer is right, for any number of calls,    *)
(* hosts, fetches and changes of the routing table.                        *)
(*                                                                         *)
(* A handler adds up the counts of its hosts one after the other.  The     *)
(* invariant says of a handler that runs: what it has added up so far lies *)
(* between the sums of the smallest and of the largest counts that it      *)
(* could see of the hosts it has handled (Within); and where it stands     *)
(* tells what it has found out about the host it is at (AtHost).           *)
(***************************************************************************)
EXTENDS Scaler, SumTheorems

Hosts == Host \cup {Interceptor}

-----------------------------------------------------------------------------
(***************************************************************************)
(* Counts.                                                                 *)
(***************************************************************************)
\* A range that has 0 in it still has when Observe widens it.
LEMMA StillAround0 ==
  /\ \A a, b \in Int : a <= b /\ b <= 0 => a <= 0
  /\ \A a, b \in Int : 0 <= a /\ a <= b => 0 <= b
OBVIOUS

\* Saved counts are integers, of finitely many hosts.
LEMMA CountMapFacts ==
  ASSUME NEW m \in CountMaps
  PROVE  /\ DOMAIN m \subseteq Host /\ IsFiniteSet(DOMAIN m)
         /\ \A h \in DOMAIN m : m[h] \in Int
         /\ Sum(m) \in Int
<1>1. PICK S \in SUBSET Host : m \in [S -> Sizes]
  BY DEF CountMaps
<1>2. DOMAIN m = S /\ \A h \in S : m[h] \in Int
  BY <1>1, CountsAssumption, Zenon
<1>3. IsFiniteSet(S)
  BY <1>1, CountsAssumption, FS_Subset
<1>4. SumFunctionOnSet(m, DOMAIN m) \in Int
  BY <1>2, <1>3, SumType
<1>. QED BY <1>2, <1>3, <1>4 DEF Sum, SumFunction

\* Before the first fetch there are no counts, and their sum is 0.
LEMMA NoCountsSum == NoCounts \in CountMaps /\ Sum(NoCounts) = 0
<1>1. NoCounts \in [{} -> Sizes] /\ DOMAIN NoCounts = {}
  BY DEF NoCounts
<1>. QED BY <1>1, SumEmpty DEF CountMaps, Sum, SumFunction

\* What the counts say of a sequence of hosts is a sequence of integers.
LEMMA ViewFacts ==
  ASSUME NEW hs \in Seq(Hosts), NEW m \in CountMaps
  PROVE  /\ View(hs, m) \in Seq(Int) /\ Len(View(hs, m)) = Len(hs)
         /\ \A i \in 1..Len(hs) :
              /\ View(hs, m)[i] \in Int
              /\ hs[i] = Interceptor => View(hs, m)[i] = Sum(m)
              /\ hs[i] # Interceptor /\ hs[i] \in DOMAIN m => View(hs, m)[i] = m[hs[i]]
              /\ hs[i] # Interceptor /\ hs[i] \notin DOMAIN m => View(hs, m)[i] = 0
<1>1. /\ Sum(m) \in Int
      /\ \A h \in DOMAIN m : m[h] \in Int
  BY CountMapFacts
<1>2. DOMAIN hs = 1..Len(hs) /\ Len(hs) \in Nat
  OBVIOUS
<1>3. \A i \in 1..Len(hs) :
        View(hs, m)[i] = IF hs[i] = Interceptor THEN Sum(m)
                         ELSE IF hs[i] \in DOMAIN m THEN m[hs[i]] ELSE 0
  BY <1>2 DEF View, Get
<1>4. \A i \in 1..Len(hs) : View(hs, m)[i] \in Int
  BY <1>1, <1>3
<1>5. DOMAIN View(hs, m) = 1..Len(hs)
  BY <1>2 DEF View
<1>6. View(hs, m) = [i \in 1..Len(hs) |-> View(hs, m)[i]]
  BY <1>2 DEF View
<1>. HIDE DEF View
<1>7. View(hs, m) \in [1..Len(hs) -> Int]
  BY <1>4, <1>6
<1>8. View(hs, m) \in Seq(Int) /\ Len(View(hs, m)) = Len(hs)
  BY <1>2, <1>7
<1>. QED BY <1>3, <1>4, <1>8

-----------------------------------------------------------------------------
(***************************************************************************)
(* One pass over the hosts hs: td is left to do, s is the sum so far, l    *)
(* and h are the smallest and largest counts seen, m the counts saved now. *)
(***************************************************************************)
Handled(hs, td) == Len(hs) - Len(td)

Within(hs, td, s, l, h, m) ==
  /\ Len(td) <= Len(hs)
  /\ \A j \in 1..Len(td) : td[j] = hs[Handled(hs, td) + j]
  /\ Len(l) = Len(hs) /\ Len(h) = Len(hs)
  /\ \A i \in 1..Len(hs) : l[i] <= View(hs, m)[i] /\ View(hs, m)[i] <= h[i]
  /\ SumFunctionOnSet(l, 1..Handled(hs, td)) <= s
  /\ s <= SumFunctionOnSet(h, 1..Handled(hs, td))

\* When the pass begins nothing is added up, and the counts are those of now.
LEMMA WithinBegin ==
  ASSUME NEW hs \in Seq(Hosts), NEW m \in CountMaps
  PROVE  Within(hs, hs, 0, View(hs, m), View(hs, m), m)
<1>1. Len(hs) \in Nat /\ Handled(hs, hs) = 0 /\ 1..0 = {}
  BY DEF Handled
<1>2. SumFunctionOnSet(View(hs, m), 1..Handled(hs, hs)) = 0
  BY <1>1, SumEmpty
<1>. QED BY <1>1, <1>2, ViewFacts DEF Within

\* The sum of a longer prefix.
LEMMA PrefixSum ==
  ASSUME NEW l \in Seq(Int), NEW k \in Nat, k < Len(l)
  PROVE  /\ SumFunctionOnSet(l, 1..k) \in Int
         /\ SumFunctionOnSet(l, 1..(k + 1)) = SumFunctionOnSet(l, 1..k) + l[k + 1]
<1>. DEFINE D == 1..k
            x == k + 1
<1>1. x \notin D /\ l[x] \in Int /\ \A y \in D : l[y] \in Int
  OBVIOUS
<1>2. IsFiniteSet(D)
  BY FS_Interval
<1>3. D \cup {x} = 1..(k + 1)
  OBVIOUS
<1>4. /\ SumFunctionOnSet(l, D) \in Int
      /\ SumFunctionOnSet(l, D \cup {x}) = SumFunctionOnSet(l, D) + l[x]
  <2>. HIDE DEF D, x
  <2>. QED BY <1>1, <1>2, SumAdd, SumType
<1>. QED BY <1>3, <1>4, Zenon

\* One more host, with a count that lies between those seen of it.
LEMMA WithinAdd ==
  ASSUME NEW hs \in Seq(Hosts), NEW td \in Seq(Hosts), NEW s \in Int,
         NEW l \in Seq(Int), NEW h \in Seq(Int), NEW m \in CountMaps,
         Within(hs, td, s, l, h, m), td # << >>,
         NEW n \in Int, l[Handled(hs, td) + 1] <= n, n <= h[Handled(hs, td) + 1]
  PROVE  Within(hs, Tail(td), s + n, l, h, m)
<1>. DEFINE k == Handled(hs, td)
<1>1. /\ Len(td) \in Nat \ {0} /\ Len(hs) \in Nat /\ Len(td) <= Len(hs)
      /\ Tail(td) \in Seq(Hosts) /\ Len(Tail(td)) = Len(td) - 1
      /\ \A j \in 1..Len(Tail(td)) : Tail(td)[j] = td[j + 1]
  BY DEF Within
<1>2. k \in Nat /\ k < Len(hs) /\ Handled(hs, Tail(td)) = k + 1
  BY <1>1 DEF Handled
<1>3. \A j \in 1..Len(Tail(td)) : Tail(td)[j] = hs[Handled(hs, Tail(td)) + j]
  <2>. SUFFICES ASSUME NEW j \in 1..Len(Tail(td))
                PROVE  Tail(td)[j] = hs[Handled(hs, Tail(td)) + j]
    OBVIOUS
  <2>1. j + 1 \in 1..Len(td) /\ k + (j + 1) = (k + 1) + j
    BY <1>1, <1>2
  <2>2. td[j + 1] = hs[k + (j + 1)]
    BY <2>1 DEF Within
  <2>. QED BY <1>1, <1>2, <2>1, <2>2
<1>4. k < Len(l) /\ k < Len(h) /\ l[k + 1] \in Int /\ h[k + 1] \in Int
  BY <1>2, SMT DEF Within
<1>5. /\ SumFunctionOnSet(l, 1..(k + 1)) <= s + n
      /\ s + n <= SumFunctionOnSet(h, 1..(k + 1))
  <2>1. SumFunctionOnSet(l, 1..k) \in Int /\ SumFunctionOnSet(h, 1..k) \in Int
    BY <1>2, <1>4, PrefixSum
  <2>2. /\ SumFunctionOnSet(l, 1..(k + 1)) = SumFunctionOnSet(l, 1..k) + l[k + 1]
        /\ SumFunctionOnSet(h, 1..(k + 1)) = SumFunctionOnSet(h, 1..k) + h[k + 1]
    BY <1>2, <1>4, PrefixSum, Zenon
  <2>3. SumFunctionOnSet(l, 1..k) <= s /\ s <= SumFunctionOnSet(h, 1..k)
    BY DEF Within
  <2>4. l[k + 1] <= n /\ n <= h[k + 1]
    OBVIOUS
  <2>5. /\ SumFunctionOnSet(l, 1..k) + l[k + 1] <= s + n
        /\ s + n <= SumFunctionOnSet(h, 1..k) + h[k + 1]
    <3>. DEFINE a == SumFunctionOnSet(l, 1..k)
                b == SumFunctionOnSet(h, 1..k)
                x == l[k + 1]
                y == h[k + 1]
    <3>1. a \in Int /\ b \in Int /\ x \in Int /\ y \in Int
          /\ a <= s /\ s <= b /\ x <= n /\ n <= y
      BY <2>1, <2>3, <2>4, <1>4
    <3>2. a + x <= s + n /\ s + n <= b + y
      <4>. HIDE DEF a, b, x, y
      <4>. QED BY <3>1
    <3>. QED BY <3>2
  <2>. QED BY <2>2, <2>5
<1>6. Len(Tail(td)) <= Len(hs)
  BY <1>1
<1>. QED BY <1>2, <1>3, <1>5, <1>6 DEF Within

\* Other counts are saved: the range of what was seen becomes wider.
LEMMA WithinObserve ==
  ASSUME NEW hs \in Seq(Hosts), NEW td \in Seq(Hosts), NEW s \in Int,
         NEW l \in Seq(Int), NEW h \in Seq(Int), NEW m \in CountMaps,
         Within(hs, td, s, l, h, m),
         NEW l2 \in Seq(Int), NEW h2 \in Seq(Int), NEW m2 \in CountMaps,
         Len(l2) = Len(hs), Len(h2) = Len(hs),
         \A i \in 1..Len(hs) : /\ l2[i] <= l[i] /\ l2[i] <= View(hs, m2)[i]
                               /\ h[i] <= h2[i] /\ View(hs, m2)[i] <= h2[i]
  PROVE  Within(hs, td, s, l2, h2, m2)
<1>. DEFINE D == 1..Handled(hs, td)
<1>1. /\ Len(hs) \in Nat /\ Len(td) \in Nat /\ Handled(hs, td) \in Nat
      /\ Handled(hs, td) <= Len(hs) /\ Len(l) = Len(hs) /\ Len(h) = Len(hs)
  BY DEF Within, Handled
<1>2. IsFiniteSet(D)
  BY <1>1, FS_Interval
<1>3. /\ \A i \in D : l2[i] \in Int /\ l[i] \in Int /\ l2[i] <= l[i]
      /\ \A i \in D : h[i] \in Int /\ h2[i] \in Int /\ h[i] <= h2[i]
  <2>. SUFFICES ASSUME NEW i \in D
                PROVE  /\ l2[i] \in Int /\ l[i] \in Int /\ l2[i] <= l[i]
                       /\ h[i] \in Int /\ h2[i] \in Int /\ h[i] <= h2[i]
    OBVIOUS
  <2>1. i \in 1..Len(hs)
    BY <1>1
  <2>2. \A q \in Seq(Int) : Len(q) = Len(hs) => q[i] \in Int
    BY <2>1
  <2>3. l2[i] \in Int /\ l[i] \in Int /\ h[i] \in Int /\ h2[i] \in Int
    BY <1>1, <2>2
  <2>. QED BY <2>1, <2>3
<1>4. /\ SumFunctionOnSet(l2, D) <= SumFunctionOnSet(l, D)
      /\ SumFunctionOnSet(h, D) <= SumFunctionOnSet(h2, D)
      /\ SumFunctionOnSet(l2, D) \in Int /\ SumFunctionOnSet(l, D) \in Int
      /\ SumFunctionOnSet(h2, D) \in Int /\ SumFunctionOnSet(h, D) \in Int
  <2>. HIDE DEF D
  <2>. QED BY <1>2, <1>3, SumMonotonic, SumType
<1>5. SumFunctionOnSet(l, D) <= s /\ s <= SumFunctionOnSet(h, D)
  BY DEF Within
<1>6. SumFunctionOnSet(l2, D) <= s /\ s <= SumFunctionOnSet(h2, D)
  <2>. HIDE DEF D
  <2>. QED BY <1>4, <1>5
<1>. QED BY <1>6 DEF Within

\* After the last host the sum lies between those of the counts seen.
LEMMA WithinTotal ==
  ASSUME NEW hs \in Seq(Hosts), NEW s \in Int, NEW l \in Seq(Int), NEW h \in Seq(Int),
         NEW m \in CountMaps, Within(hs, << >>, s, l, h, m)
  PROVE  /\ Total(l) \in Int /\ Total(h) \in Int
         /\ Total(l) <= s /\ s <= Total(h)
<1>. DEFINE D == 1..Len(hs)
<1>1. /\ Handled(hs, << >>) = Len(hs) /\ Len(hs) \in Nat
      /\ DOMAIN l = D /\ DOMAIN h = D
  BY DEF Within, Handled
<1>2. IsFiniteSet(D)
  BY <1>1, FS_Interval
<1>3. (\A i \in D : l[i] \in Int) /\ \A i \in D : h[i] \in Int
  <2>1. \A q \in Seq(Int) : \A i \in DOMAIN q : q[i] \in Int
    OBVIOUS
  <2>. QED BY <1>1, <2>1
<1>4. SumFunctionOnSet(l, D) \in Int /\ SumFunctionOnSet(h, D) \in Int
  <2>. HIDE DEF D
  <2>. QED BY <1>2, <1>3, SumType
<1>5. Total(l) = SumFunctionOnSet(l, D) /\ Total(h) = SumFunctionOnSet(h, D)
  BY <1>1 DEF Total, SumFunction
<1>6. SumFunctionOnSet(l, D) <= s /\ s <= SumFunctionOnSet(h, D)
  BY <1>1 DEF Within
<1>. QED BY <1>4, <1>5, <1>6

\* The smaller and the larger of two counts.
LEMMA MinMax ==
  ASSUME NEW a \in Int, NEW b \in Int
  PROVE  /\ Min({a, b}) \in Int /\ Min({a, b}) <= a /\ Min({a, b}) <= b
         /\ Max({a, b}) \in Int /\ Max({a, b}) >= a /\ Max({a, b}) >= b
<1>1. \E x \in {a, b} : \A y \in {a, b} : x =< y
  OBVIOUS
<1>2. \E x \in {a, b} : \A y \in {a, b} : x >= y
  OBVIOUS
<1>3. Min({a, b}) \in {a, b} /\ \A y \in {a, b} : Min({a, b}) =< y
  BY <1>1 DEF Min
<1>4. Max({a, b}) \in {a, b} /\ \A y \in {a, b} : Max({a, b}) >= y
  BY <1>2 DEF Max
<1>. QED BY <1>3, <1>4

\* Two sequences of counts, of which the smaller and the larger are picked.
LEMMA PickFacts ==
  ASSUME NEW v \in Seq(Int), NEW w \in Seq(Int), Len(v) = Len(w)
  PROVE  /\ Pick(Min, v, w) \in Seq(Int) /\ Len(Pick(Min, v, w)) = Len(v)
         /\ Pick(Max, v, w) \in Seq(Int) /\ Len(Pick(Max, v, w)) = Len(v)
         /\ \A i \in 1..Len(v) : /\ Pick(Min, v, w)[i] <= v[i] /\ Pick(Min, v, w)[i] <= w[i]
                                 /\ v[i] <= Pick(Max, v, w)[i] /\ w[i] <= Pick(Max, v, w)[i]
<1>. DEFINE n == Len(v)
            P == [i \in 1..n |-> Min({v[i], w[i]})]
            Q == [i \in 1..n |-> Max({v[i], w[i]})]
<1>1. n \in Nat /\ DOMAIN v = 1..n /\ \A i \in 1..n : v[i] \in Int /\ w[i] \in Int
  OBVIOUS
<1>2. Pick(Min, v, w) = P /\ Pick(Max, v, w) = Q
  BY <1>1 DEF Pick
<1>3. \A i \in 1..n : /\ P[i] \in Int /\ P[i] <= v[i] /\ P[i] <= w[i]
                      /\ Q[i] \in Int /\ v[i] <= Q[i] /\ w[i] <= Q[i]
  BY <1>1, MinMax, Zenon
<1>4. P \in [1..n -> Int] /\ Q \in [1..n -> Int]
  BY <1>3, Zenon
<1>5. P \in Seq(Int) /\ Len(P) = n /\ Q \in Seq(Int) /\ Len(Q) = n
  <2>. HIDE DEF P, Q, n
  <2>. QED BY <1>1, <1>4
<1>. QED BY <1>2, <1>3, <1>5, Zenon

-----------------------------------------------------------------------------
(***************************************************************************)
(* The invariant.                                                          *)
(***************************************************************************)
Replies == {"none", "error", "active", "inactive", "metric", "counts", "interceptor",
            "http-requests"}

\* The counts and their sum belong together, whatever fetches fail.
CountsOK == allCounts \in CountMaps /\ aggregateCount = Sum(allCounts)

GroupOK ==
  /\ table \subseteq Host
  /\ running \subseteq Member
  /\ ctx \in {"new", "up", "done", "exit"}

\* Only a /queue_ping that is in its fetch holds pingMut or waits for it, and once.
LockOK ==
  /\ fetching = (holder # NoOne)
  /\ holder \in Fetcher \cup {NoOne}
  /\ waiting \subseteq Fetcher
  /\ \A c \in Call : c \in waiting \/ c = holder => pc[c] = "fetch"
  /\ holder \in Call => holder \notin waiting

CallsOK ==
  /\ pc \in [Call -> {"idle", "count", "route", "log", "total", "tick", "send", "fetch"}]
  /\ op \in [Call -> {"none", "IsActive", "StreamIsActive", "GetMetrics",
                       "GetMetricSpec", "queue", "queue_ping"}]
  /\ ref \in [Call -> Refs \cup {<< >>, <<Interceptor>>}]
  /\ todo \in [Call -> Seq(Hosts)]
  /\ sum \in [Call -> Int]
  /\ reply \in [Call -> Replies]
  /\ lo \in [Call -> Seq(Int)]
  /\ hi \in [Call -> Seq(Int)]
  /\ steady \in [Call -> SUBSET Host]

\* What a handler at w of the operation o has found out about the host it is at: it
\* had no count, it is the interceptor, it had no route while the handler ran.
AtHost(w, o, hs, td, s, l, h, st) ==
  /\ w \in {"route", "total"} => td # << >>
  /\ w = "route" /\ o # "GetMetricSpec" /\ Head(td) # Interceptor =>
       l[Handled(hs, td) + 1] <= 0 /\ 0 <= h[Handled(hs, td) + 1]
  /\ w = "total" => Head(td) = Interceptor
  /\ w = "log" /\ hs # << >> => \E i \in DOMAIN hs : hs[i] \notin st \cup {Interceptor}
  /\ w = "fetch" => o = "queue_ping" /\ td = hs /\ s = 0
  /\ o \in {"queue", "queue_ping"} => hs = <<Interceptor>>

Running(w) == w \notin {"idle", "tick", "send"}

CallInv(w, o, hs, td, s, l, h, st, m, t) ==
  /\ w \in {"tick", "send"} => o = "StreamIsActive"
  /\ Running(w) => /\ Within(hs, td, s, l, h, m)
                   /\ AtHost(w, o, hs, td, s, l, h, st)
                   /\ st \subseteq t

CallInvOf(c) == CallInv(pc[c], op[c], ref[c], todo[c], sum[c], lo[c], hi[c], steady[c],
                        allCounts, table)

ScalerInv ==
  /\ CountsOK
  /\ GroupOK
  /\ LockOK
  /\ CallsOK
  /\ \A c \in Call : CallInvOf(c)

\* Where and what calls are, one by one.
LEMMA CallTypes ==
  ASSUME CallsOK, NEW c \in Call
  PROVE  /\ pc[c] \in {"idle", "count", "route", "log", "total", "tick", "send", "fetch"}
         /\ op[c] \in {"none", "IsActive", "StreamIsActive", "GetMetrics",
                       "GetMetricSpec", "queue", "queue_ping"}
         /\ ref[c] \in Seq(Hosts) /\ todo[c] \in Seq(Hosts) /\ sum[c] \in Int
         /\ lo[c] \in Seq(Int) /\ hi[c] \in Seq(Int) /\ steady[c] \in SUBSET Host
         /\ reply[c] \in Replies
<1>1. ref[c] \in Seq(Hosts)
  <2>1. << >> \in Seq(Hosts) /\ <<Interceptor>> \in Seq(Hosts)
    BY DEF Hosts
  <2>2. Refs \subseteq Seq(Hosts)
    BY RefsAssumption DEF Hosts
  <2>3. ref[c] \in Refs \cup {<< >>, <<Interceptor>>}
    BY DEF CallsOK
  <2>. QED BY <2>1, <2>2, <2>3, Zenon
<1>. QED BY <1>1 DEF CallsOK

\* The host that a running handler is at is the next one of its ScaledObject.
LEMMA HostAt ==
  ASSUME NEW hs \in Seq(Hosts), NEW td \in Seq(Hosts), td # << >>,
         NEW s, NEW l, NEW h, NEW m, Within(hs, td, s, l, h, m)
  PROVE  /\ Handled(hs, td) + 1 \in 1..Len(hs)
         /\ Head(td) = hs[Handled(hs, td) + 1]
<1>1. Len(td) \in Nat \ {0} /\ Len(hs) \in Nat /\ Len(td) <= Len(hs) /\ Head(td) = td[1]
  BY DEF Within
<1>2. 1 \in 1..Len(td)
  BY <1>1
<1>3. td[1] = hs[Handled(hs, td) + 1]
  BY <1>2 DEF Within
<1>. QED BY <1>1, <1>3 DEF Handled

\* The scaler before its first fetch.
LEMMA InitScaler == Init => ScalerInv
<1>. SUFFICES ASSUME Init PROVE ScalerInv
  OBVIOUS
<1>1. CountsOK
  BY NoCountsSum DEF Init, InitCounts, CountsOK
<1>2. GroupOK
  BY DEF Init, GroupOK
<1>3. LockOK
  BY CallAssumption, Zenon DEF Init, InitCounts, LockOK, Fetcher, NoOne
<1>4. CallsOK
  BY DEF Init, CallsOK, Replies
<1>5. ASSUME NEW c \in Call PROVE CallInvOf(c)
  BY DEF Init, CallInvOf, CallInv, Running
<1>. QED BY <1>1, <1>2, <1>3, <1>4, <1>5 DEF ScalerInv

-----------------------------------------------------------------------------
(***************************************************************************)
(* Steps of one call.                                                      *)
(***************************************************************************)
\* Only the call c moves.
OnlyCall(c) ==
  /\ UNCHANGED <<allCounts, aggregateCount, table, running, ctx>>
  /\ \A d \in Call \ {c} :
       /\ pc'[d] = pc[d] /\ op'[d] = op[d] /\ ref'[d] = ref[d] /\ todo'[d] = todo[d]
       /\ sum'[d] = sum[d] /\ lo'[d] = lo[d] /\ hi'[d] = hi[d] /\ steady'[d] = steady[d]

\* The calls that do not move keep what is known of them.
LEMMA OnlyCallStep ==
  ASSUME ScalerInv, NEW c \in Call, OnlyCall(c), LockOK', CallsOK', CallInvOf(c)'
  PROVE  ScalerInv'
<1>1. CountsOK' /\ GroupOK'
  BY Zenon DEF ScalerInv, OnlyCall, CountsOK, GroupOK
<1>2. ASSUME NEW d \in Call, d # c PROVE CallInvOf(d)'
  BY <1>2 DEF ScalerInv, OnlyCall, CallInvOf
<1>. QED BY <1>1, <1>2 DEF ScalerInv

\* A call that is not in its fetch has nothing to do with the lock.
LEMMA LockKept ==
  ASSUME LockOK, NEW c \in Call, pc[c] # "fetch", UNCHANGED <<fetching, holder, waiting>>,
         \A d \in Call \ {c} : pc'[d] = pc[d]
  PROVE  LockOK'
BY DEF LockOK

\* A handler that returns leaves nothing behind, a stream keeps its hosts.
LEMMA AnswerFacts ==
  ASSUME CallsOK, NEW c \in Call, NEW r \in Replies, Answer(c, r)
  PROVE  /\ CallsOK'
         /\ pc'[c] = "idle" \/ (pc'[c] = "send" /\ op'[c] = "StreamIsActive")
         /\ \A d \in Call \ {c} :
              /\ pc'[d] = pc[d] /\ op'[d] = op[d] /\ ref'[d] = ref[d] /\ todo'[d] = todo[d]
              /\ sum'[d] = sum[d] /\ lo'[d] = lo[d] /\ hi'[d] = hi[d] /\ steady'[d] = steady[d]
         /\ reply' = [reply EXCEPT ![c] = r]
<1>1. reply' \in [Call -> Replies] /\ reply' = [reply EXCEPT ![c] = r]
  BY DEF CallsOK, Answer
<1>2. CASE /\ Become(c, "send") /\ op[c] = "StreamIsActive"
           /\ UNCHANGED <<op, ref, todo, sum, historyVars>>
  <2>1. pc' = [pc EXCEPT ![c] = "send"] /\ UNCHANGED <<op, ref, todo, sum, lo, hi, steady>>
    BY <1>2 DEF Become, historyVars
  <2>. QED BY <1>1, <1>2, <2>1 DEF CallsOK
<1>3. CASE Leave(c)
  <2>1. << >> \in Seq(Hosts) /\ << >> \in Seq(Int)
    OBVIOUS
  <2>2. CallsOK'
    BY <1>1, <1>3, <2>1 DEF CallsOK, Leave, Become
  <2>3. pc'[c] = "idle"
    BY <1>3 DEF CallsOK, Leave, Become
  <2>4. \A d \in Call \ {c} :
          /\ pc'[d] = pc[d] /\ op'[d] = op[d] /\ ref'[d] = ref[d] /\ todo'[d] = todo[d]
          /\ sum'[d] = sum[d] /\ lo'[d] = lo[d] /\ hi'[d] = hi[d] /\ steady'[d] = steady[d]
    BY <1>3, ZenonT(40) DEF CallsOK, Leave, Become
  <2>. QED BY <1>1, <2>2, <2>3, <2>4, Zenon
<1>. QED BY <1>2, <1>3 DEF Answer

\* A handler that holds no lock returns.
LEMMA AnswerStep ==
  ASSUME ScalerInv, NEW c \in Call, NEW r \in Replies, Answer(c, r), pc[c] # "fetch",
         UNCHANGED <<savedVars, table, groupVars, lockVars>>
  PROVE  ScalerInv'
<1>1. /\ CallsOK' /\ OnlyCall(c)
      /\ pc'[c] = "idle" \/ (pc'[c] = "send" /\ op'[c] = "StreamIsActive")
  BY AnswerFacts, Zenon DEF ScalerInv, OnlyCall, savedVars, groupVars
<1>2. LockOK'
  BY <1>1, LockKept, Zenon DEF ScalerInv, OnlyCall, savedVars, lockVars
<1>3. CallInvOf(c)'
  BY <1>1, Zenon DEF CallInvOf, CallInv, Running
<1>. QED BY <1>1, <1>2, <1>3, OnlyCallStep

\* A handler adds a count that lies between those seen of its host.
LEMMA AddStep ==
  ASSUME ScalerInv, NEW c \in Call, pc[c] \in {"count", "route", "total"}, todo[c] # << >>,
         NEW n \in Int,
         lo[c][Handled(ref[c], todo[c]) + 1] <= n, n <= hi[c][Handled(ref[c], todo[c]) + 1],
         AddCount(c, n), UNCHANGED <<savedVars, table, groupVars, lockVars>>
  PROVE  ScalerInv'
<1>1. /\ UNCHANGED <<op, ref, reply, lo, hi, steady>>
      /\ pc' = [pc EXCEPT ![c] = "count"]
      /\ sum' = [sum EXCEPT ![c] = sum[c] + n]
      /\ todo' = [todo EXCEPT ![c] = Tail(todo[c])]
  BY Zenon DEF AddCount, Become, historyVars
<1>2. CallsOK /\ ref[c] \in Seq(Hosts) /\ todo[c] \in Seq(Hosts) /\ sum[c] \in Int
      /\ lo[c] \in Seq(Int) /\ hi[c] \in Seq(Int) /\ allCounts \in CountMaps
  BY CallTypes DEF ScalerInv, CountsOK
<1>3. Tail(todo[c]) \in Seq(Hosts) /\ sum[c] + n \in Int
  BY <1>2, SMT
<1>4. CallsOK'
  BY <1>1, <1>2, <1>3, Zenon DEF CallsOK
<1>5. OnlyCall(c)
  BY <1>1, <1>2, Zenon DEF OnlyCall, savedVars, groupVars, CallsOK
<1>6. LockOK'
  BY <1>5, LockKept DEF ScalerInv, OnlyCall, savedVars, lockVars
<1>7. /\ pc'[c] = "count" /\ op'[c] = op[c] /\ ref'[c] = ref[c] /\ todo'[c] = Tail(todo[c])
      /\ sum'[c] = sum[c] + n /\ lo'[c] = lo[c] /\ hi'[c] = hi[c] /\ steady'[c] = steady[c]
      /\ allCounts' = allCounts /\ table' = table
  BY <1>1, <1>2 DEF CallsOK, savedVars
<1>8. CallInvOf(c)'
  <2>1. /\ Within(ref[c], todo[c], sum[c], lo[c], hi[c], allCounts)
        /\ op[c] \in {"queue", "queue_ping"} => ref[c] = <<Interceptor>>
        /\ steady[c] \subseteq table
    BY Zenon DEF ScalerInv, CallInvOf, CallInv, Running, AtHost
  <2>2. Within(ref[c], Tail(todo[c]), sum[c] + n, lo[c], hi[c], allCounts)
    BY <1>2, <2>1, WithinAdd, ZenonT(40)
  <2>3. AtHost("count", op[c], ref[c], Tail(todo[c]), sum[c] + n, lo[c], hi[c], steady[c])
    BY <2>1 DEF AtHost
  <2>. QED BY <1>7, <2>1, <2>2, <2>3, Zenon DEF CallInvOf, CallInv
<1>. QED BY <1>4, <1>5, <1>6, <1>8, OnlyCallStep, Zenon

\* A handler learns something about the host it is at.
LEMMA MoveStep ==
  ASSUME ScalerInv, NEW c \in Call, pc[c] \in {"count", "route"},
         NEW w \in {"route", "total", "log"}, Become(c, w),
         AtHost(w, op[c], ref[c], todo[c], sum[c], lo[c], hi[c], steady[c]),
         UNCHANGED <<op, ref, sum, todo, reply, historyVars>>,
         UNCHANGED <<savedVars, table, groupVars, lockVars>>
  PROVE  ScalerInv'
<1>1. /\ UNCHANGED <<op, ref, sum, todo, reply, lo, hi, steady>>
      /\ UNCHANGED <<allCounts, aggregateCount, fetching, table, running, ctx, holder, waiting>>
      /\ pc' = [pc EXCEPT ![c] = w]
  BY Zenon DEF Become, historyVars, savedVars, groupVars, lockVars
<1>2. CallsOK' /\ OnlyCall(c) /\ pc'[c] = w
  BY <1>1 DEF ScalerInv, CallsOK, OnlyCall
<1>3. LockOK'
  BY <1>1, <1>2, LockKept, Zenon DEF ScalerInv, OnlyCall
<1>4. CallInvOf(c)'
  <2>1. Within(ref[c], todo[c], sum[c], lo[c], hi[c], allCounts) /\ steady[c] \subseteq table
    BY Zenon DEF ScalerInv, CallInvOf, CallInv, Running
  <2>. QED BY <1>1, <1>2, <2>1, Zenon DEF CallInvOf, CallInv
<1>. QED BY <1>2, <1>3, <1>4, OnlyCallStep, Zenon

\* A pass over the hosts hs begins.
LEMMA BeginStep ==
  ASSUME ScalerInv, NEW c \in Call, NEW hs \in Refs \cup {<< >>, <<Interceptor>>}, Begin(c, hs),
         NEW w \in {"count", "route", "log", "tick", "fetch"}, Become(c, w),
         NEW o \in {"IsActive", "StreamIsActive", "GetMetrics", "GetMetricSpec", "queue",
                    "queue_ping"},
         op' = [op EXCEPT ![c] = o], ref' = [ref EXCEPT ![c] = hs], reply' \in [Call -> Replies],
         UNCHANGED <<allCounts, aggregateCount, table, groupVars>>, LockOK',
         w = "route" => o = "GetMetricSpec" /\ hs # << >>,
         w = "log" => hs = << >>,
         w = "fetch" => o = "queue_ping",
         w = "tick" => o = "StreamIsActive",
         o \in {"queue", "queue_ping"} => hs = <<Interceptor>>
  PROVE  ScalerInv'
<1>. DEFINE v == View(hs, allCounts)
<1>1. hs \in Seq(Hosts)
  <2>1. << >> \in Seq(Hosts) /\ <<Interceptor>> \in Seq(Hosts) /\ Refs \subseteq Seq(Hosts)
    BY RefsAssumption DEF Hosts
  <2>. QED BY <2>1, Zenon
<1>2. v \in Seq(Int) /\ allCounts \in CountMaps /\ table \subseteq Host
  BY <1>1, ViewFacts DEF ScalerInv, CountsOK, GroupOK
<1>. HIDE DEF v
<1>3. /\ pc' = [pc EXCEPT ![c] = w] /\ todo' = [todo EXCEPT ![c] = hs]
      /\ sum' = [sum EXCEPT ![c] = 0] /\ lo' = [lo EXCEPT ![c] = v]
      /\ hi' = [hi EXCEPT ![c] = v] /\ steady' = [steady EXCEPT ![c] = table]
  BY DEF Begin, Become, v
<1>4. CallsOK
  BY DEF ScalerInv
<1>5. CallsOK'
  <2>1. pc' \in [Call -> {"idle", "count", "route", "log", "total", "tick", "send", "fetch"}]
    BY <1>3, <1>4 DEF CallsOK
  <2>2. /\ op' \in [Call -> {"none", "IsActive", "StreamIsActive", "GetMetrics",
                             "GetMetricSpec", "queue", "queue_ping"}]
        /\ ref' \in [Call -> Refs \cup {<< >>, <<Interceptor>>}]
    BY <1>4 DEF CallsOK
  <2>3. todo' \in [Call -> Seq(Hosts)] /\ sum' \in [Call -> Int]
    BY <1>1, <1>3, <1>4 DEF CallsOK
  <2>4. lo' \in [Call -> Seq(Int)] /\ hi' \in [Call -> Seq(Int)]
    BY <1>2, <1>3, <1>4, Zenon DEF CallsOK
  <2>5. steady' \in [Call -> SUBSET Host]
    BY <1>2, <1>3, <1>4, Zenon DEF CallsOK
  <2>. QED BY <2>1, <2>2, <2>3, <2>4, <2>5, Zenon DEF CallsOK
<1>6. OnlyCall(c)
  BY <1>3, <1>4, Zenon DEF OnlyCall, CallsOK, groupVars
<1>7. /\ pc'[c] = w /\ op'[c] = o /\ ref'[c] = hs /\ todo'[c] = hs /\ sum'[c] = 0
      /\ lo'[c] = v /\ hi'[c] = v /\ steady'[c] = table
  BY <1>3, <1>4, Zenon DEF CallsOK
<1>8. Within(hs, hs, 0, v, v, allCounts)
  BY <1>1, <1>2, WithinBegin, Zenon DEF v
<1>9. AtHost(w, o, hs, hs, 0, v, v, table)
  BY Zenon DEF AtHost
<1>10. CallInvOf(c)'
  BY <1>7, <1>8, <1>9 DEF CallInvOf, CallInv
<1>. QED BY <1>5, <1>6, <1>10, OnlyCallStep

\* A server accepts a call, which is idle, so it waits for no lock.
LEMMA AcceptStep ==
  ASSUME ScalerInv, NEW c \in Call,
         \/ \E o \in {"IsActive", "GetMetrics", "GetMetricSpec"} :
              \E hs \in Refs : CallRPC(c, o, hs)
         \/ \E hs \in Refs : OpenStream(c, hs)
         \/ GetQueue(c)
         \/ PingQueue(c)
  PROVE  ScalerInv'
<1>. USE DEF Accept, savedVars
<1>1. reply' \in [Call -> Replies]
  <2>1. reply' = [reply EXCEPT ![c] = "none"]
    BY DEF CallRPC, OpenStream, GetQueue, PingQueue
  <2>. QED BY <2>1, ZenonT(40) DEF ScalerInv, CallsOK, Replies
<1>2. pc[c] = "idle" /\ pc \in [Call -> {"idle", "count", "route", "log", "total", "tick",
                                         "send", "fetch"}]
  BY DEF CallRPC, OpenStream, GetQueue, PingQueue, ScalerInv, CallsOK
<1>3. ASSUME UNCHANGED <<fetching, holder, waiting>>, NEW w, Become(c, w) PROVE LockOK'
  BY <1>2, <1>3, LockKept DEF ScalerInv, Become
<1>4. ASSUME NEW o \in {"IsActive", "GetMetrics", "GetMetricSpec"}, NEW hs \in Refs,
             CallRPC(c, o, hs)
      PROVE  ScalerInv'
  <2>1. LockOK'
    BY <1>3, <1>4, Zenon DEF CallRPC
  <2>2. PICK w \in {"count", "route", "log"} :
          /\ Become(c, w)
          /\ w = "route" => o = "GetMetricSpec" /\ hs # << >>
          /\ w = "log" => hs = << >>
    BY <1>4 DEF CallRPC, GetHosts
  <2>. QED BY <1>1, <1>4, <2>1, <2>2, BeginStep, Zenon DEF CallRPC
<1>5. ASSUME NEW hs \in Refs, OpenStream(c, hs) PROVE ScalerInv'
  <2>1. LockOK'
    BY <1>3, <1>5 DEF OpenStream
  <2>. QED BY <1>1, <1>5, <2>1, BeginStep, Zenon DEF OpenStream
<1>6. CASE GetQueue(c)
  <2>1. LockOK'
    BY <1>3, <1>6 DEF GetQueue
  <2>. QED BY <1>1, <1>6, <2>1, BeginStep, Zenon DEF GetQueue
<1>7. CASE PingQueue(c)
  <2>1. /\ UNCHANGED <<fetching, holder>> /\ waiting' = waiting \cup {c}
        /\ pc' = [pc EXCEPT ![c] = "fetch"]
    BY <1>7 DEF PingQueue, Become
  <2>2. LockOK'
    BY <1>2, <2>1, Zenon DEF LockOK, ScalerInv, Fetcher
  <2>. QED BY <1>1, <1>7, <2>2, BeginStep, Zenon DEF PingQueue
<1>. QED BY <1>4, <1>5, <1>6, <1>7, Zenon

\* What a running handler knows of the host it is at.
LEMMA SeenAt ==
  ASSUME ScalerInv, NEW c \in Call, Running(pc[c]), todo[c] # << >>,
         NEW k, k = Handled(ref[c], todo[c]) + 1
  PROVE  /\ k \in 1..Len(ref[c]) /\ k \in DOMAIN ref[c] /\ ref[c][k] = Head(todo[c])
         /\ lo[c][k] <= View(ref[c], allCounts)[k] /\ View(ref[c], allCounts)[k] <= hi[c][k]
         /\ ref[c] \in Seq(Hosts) /\ allCounts \in CountMaps
<1>1. /\ ref[c] \in Seq(Hosts) /\ todo[c] \in Seq(Hosts) /\ allCounts \in CountMaps
      /\ Within(ref[c], todo[c], sum[c], lo[c], hi[c], allCounts)
  BY CallTypes, Zenon DEF ScalerInv, CountsOK, CallInvOf, CallInv
<1>2. k \in 1..Len(ref[c]) /\ ref[c][k] = Head(todo[c])
  BY <1>1, HostAt, Zenon
<1>3. k \in DOMAIN ref[c]
  BY <1>1, <1>2
<1>. QED BY <1>1, <1>2, <1>3, Zenon DEF Within

\* getHostCount, up to the counts.
LEMMA ReadCountStep ==
  ASSUME ScalerInv, NEW c \in Call, ReadCount(c)
  PROVE  ScalerInv'
<1>. DEFINE h == Head(todo[c])
            k == Handled(ref[c], todo[c]) + 1
            v == View(ref[c], allCounts)
<1>1. /\ pc[c] = "count" /\ todo[c] # << >>
      /\ UNCHANGED <<savedVars, table, groupVars, lockVars>>
      /\ \/ Answer(c, "active")
         \/ h \in DOMAIN allCounts /\ AddCount(c, allCounts[h])
         \/ /\ h \notin DOMAIN allCounts /\ Become(c, "route")
            /\ UNCHANGED <<op, ref, sum, todo, reply, historyVars>>
  BY ZenonT(40) DEF ReadCount
<1>2. /\ k \in 1..Len(ref[c]) /\ ref[c][k] = h /\ lo[c][k] <= v[k] /\ v[k] <= hi[c][k]
      /\ ref[c] \in Seq(Hosts) /\ allCounts \in CountMaps
  BY <1>1, SeenAt DEF Running
<1>3. /\ h # Interceptor /\ h \in DOMAIN allCounts => v[k] = allCounts[h]
      /\ h # Interceptor /\ h \notin DOMAIN allCounts => v[k] = 0
  BY <1>2, ViewFacts, ZenonT(40)
<1>4. CASE Answer(c, "active")
  BY <1>1, <1>4, AnswerStep, Zenon DEF Replies
<1>5. CASE h \in DOMAIN allCounts /\ AddCount(c, allCounts[h])
  <2>1. h # Interceptor /\ allCounts[h] \in Int
    BY <1>2, <1>5, CountMapFacts, RefsAssumption, Zenon
  <2>2. lo[c][k] <= allCounts[h] /\ allCounts[h] <= hi[c][k]
    BY <1>2, <1>3, <1>5, <2>1, Zenon
  <2>. QED BY <1>1, <1>5, <2>1, <2>2, AddStep
<1>6. CASE /\ h \notin DOMAIN allCounts /\ Become(c, "route")
           /\ UNCHANGED <<op, ref, sum, todo, reply, historyVars>>
  <2>1. AtHost("count", op[c], ref[c], todo[c], sum[c], lo[c], hi[c], steady[c])
    BY <1>1, Zenon DEF ScalerInv, CallInvOf, CallInv, Running
  <2>2. h # Interceptor => lo[c][k] <= 0 /\ 0 <= hi[c][k]
    BY <1>2, <1>3, <1>6, Zenon
  <2>3. AtHost("route", op[c], ref[c], todo[c], sum[c], lo[c], hi[c], steady[c])
    BY <1>1, <2>1, <2>2, Zenon DEF AtHost
  <2>. QED BY <1>1, <1>6, <2>3, MoveStep, Zenon
<1>. QED BY <1>1, <1>4, <1>5, <1>6

\* getHostCount, the routing table: no route means none while the handler ran.
LEMMA FindRouteStep ==
  ASSUME ScalerInv, NEW c \in Call, FindRoute(c)
  PROVE  ScalerInv'
<1>. DEFINE h == Head(todo[c])
            k == Handled(ref[c], todo[c]) + 1
<1>1. /\ pc[c] = "route" /\ op[c] # "GetMetricSpec"
      /\ UNCHANGED <<savedVars, table, groupVars, lockVars>>
      /\ \/ h \in table /\ AddCount(c, 0)
         \/ /\ h \notin table /\ h = Interceptor /\ Become(c, "total")
            /\ UNCHANGED <<op, ref, sum, todo, reply, historyVars>>
         \/ /\ h \notin table /\ h # Interceptor /\ Become(c, "log")
            /\ UNCHANGED <<op, ref, sum, todo, reply, historyVars>>
  BY DEF FindRoute
<1>2. /\ AtHost("route", op[c], ref[c], todo[c], sum[c], lo[c], hi[c], steady[c])
      /\ steady[c] \subseteq table /\ table \subseteq Host
  BY <1>1, Zenon DEF ScalerInv, CallInvOf, CallInv, Running, GroupOK
<1>3. todo[c] # << >> /\ (h # Interceptor => lo[c][k] <= 0 /\ 0 <= hi[c][k])
  BY <1>1, <1>2, Zenon DEF AtHost
<1>4. k \in DOMAIN ref[c] /\ ref[c][k] = h
  BY <1>1, <1>3, SeenAt, Zenon DEF Running
<1>5. CASE h \in table /\ AddCount(c, 0)
  <2>1. h # Interceptor
    BY <1>2, <1>5, RefsAssumption
  <2>. QED BY <1>1, <1>3, <1>5, <2>1, AddStep, SMT
<1>6. CASE /\ h \notin table /\ h = Interceptor /\ Become(c, "total")
           /\ UNCHANGED <<op, ref, sum, todo, reply, historyVars>>
  <2>1. AtHost("total", op[c], ref[c], todo[c], sum[c], lo[c], hi[c], steady[c])
    BY <1>2, <1>3, <1>6 DEF AtHost
  <2>. QED BY <1>1, <1>6, <2>1, MoveStep, ZenonT(40)
<1>7. CASE /\ h \notin table /\ h # Interceptor /\ Become(c, "log")
           /\ UNCHANGED <<op, ref, sum, todo, reply, historyVars>>
  <2>1. ref[c][k] \notin steady[c] \cup {Interceptor}
    BY <1>2, <1>4, <1>7, Zenon
  <2>2. AtHost("log", op[c], ref[c], todo[c], sum[c], lo[c], hi[c], steady[c])
    BY <1>2, <1>4, <2>1, Zenon DEF AtHost
  <2>. QED BY <1>1, <1>7, <2>2, MoveStep, Zenon
<1>. QED BY <1>1, <1>5, <1>6, <1>7, ZenonT(40)

\* pinger.aggregate() is the sum of the counts, for the interceptor and for /queue.
LEMMA ReadAggregateStep ==
  ASSUME ScalerInv, NEW c \in Call, ReadAggregate(c) \/ ReadAllCounts(c)
  PROVE  ScalerInv'
<1>. DEFINE k == Handled(ref[c], todo[c]) + 1
<1>1. /\ pc[c] \in {"total", "count"} /\ AddCount(c, aggregateCount)
      /\ UNCHANGED <<savedVars, table, groupVars, lockVars>>
      /\ \/ pc[c] = "total"
         \/ todo[c] # << >> /\ op[c] \in {"queue", "queue_ping"}
  BY Zenon DEF ReadAggregate, ReadAllCounts
<1>2. AtHost(pc[c], op[c], ref[c], todo[c], sum[c], lo[c], hi[c], steady[c])
  BY <1>1, ZenonT(40) DEF ScalerInv, CallInvOf, CallInv, Running
<1>3. todo[c] # << >>
  BY <1>1, <1>2, Zenon DEF AtHost
<1>4. /\ k \in 1..Len(ref[c]) /\ ref[c][k] = Head(todo[c])
      /\ lo[c][k] <= View(ref[c], allCounts)[k] /\ View(ref[c], allCounts)[k] <= hi[c][k]
      /\ ref[c] \in Seq(Hosts) /\ allCounts \in CountMaps
  BY <1>1, <1>3, SeenAt, Zenon DEF Running
<1>5. ref[c][k] = Interceptor
  <2>1. CASE pc[c] = "total"
    BY <1>2, <1>4, <2>1, ZenonT(40) DEF AtHost
  <2>2. CASE op[c] \in {"queue", "queue_ping"}
    <3>1. ref[c] = <<Interceptor>>
      BY <1>2, <2>2, Zenon DEF AtHost
    <3>. QED BY <1>4, <3>1
  <2>. QED BY <1>1, <2>1, <2>2, Zenon
<1>6. aggregateCount \in Int /\ View(ref[c], allCounts)[k] = aggregateCount
  BY <1>4, <1>5, ViewFacts, CountMapFacts, ZenonT(40) DEF ScalerInv, CountsOK
<1>. QED BY <1>1, <1>3, <1>4, <1>6, AddStep, Zenon

\* The ways a handler ends that has no more to look at.
LEMMA EndStep ==
  ASSUME ScalerInv, NEW c \in Call, GetMetricSpec(c) \/ LogError(c) \/ Finish(c)
  PROVE  ScalerInv'
<1>1. pc[c] # "fetch" /\ UNCHANGED <<savedVars, table, groupVars, lockVars>>
  BY DEF GetMetricSpec, LogError, Finish
<1>2. PICK r \in Replies : Answer(c, r)
  <2>1. CASE GetMetricSpec(c)
    BY <2>1, Zenon DEF GetMetricSpec, Replies
  <2>2. CASE LogError(c)
    BY <2>2 DEF LogError, Replies
  <2>3. CASE Finish(c)
    BY <2>3, Zenon DEF Finish, Result, Replies
  <2>. QED BY <2>1, <2>2, <2>3, Zenon
<1>. QED BY <1>1, <1>2, AnswerStep

\* A stream.
LEMMA StreamStep ==
  ASSUME ScalerInv, NEW c \in Call, StreamTick(c) \/ Send(c) \/ StreamEnds(c)
  PROVE  ScalerInv'
<1>1. /\ pc[c] \in {"tick", "send"} /\ op[c] = "StreamIsActive"
      /\ UNCHANGED <<savedVars, table, groupVars, lockVars>>
  BY Zenon DEF StreamTick, Send, StreamEnds, ScalerInv, CallInvOf, CallInv
<1>2. CASE Answer(c, "error")
  BY <1>1, <1>2, AnswerStep DEF Replies
<1>3. CASE Become(c, "count") /\ Begin(c, ref[c]) /\ UNCHANGED <<op, ref, reply>>
  <2>1. LockOK'
    <3>1. \A d \in Call \ {c} : pc'[d] = pc[d]
      BY <1>3 DEF Become, ScalerInv, CallsOK
    <3>. QED BY <1>1, <3>1, LockKept DEF ScalerInv, savedVars, lockVars
  <2>2. op' = [op EXCEPT ![c] = "StreamIsActive"] /\ ref' = [ref EXCEPT ![c] = ref[c]]
    BY <1>1, <1>3 DEF ScalerInv, CallsOK
  <2>3. reply' \in [Call -> Replies] /\ ref[c] \in Refs \cup {<< >>, <<Interceptor>>}
    BY <1>3 DEF ScalerInv, CallsOK
  <2>. QED BY <1>1, <1>3, <2>1, <2>2, <2>3, BeginStep, ZenonT(40) DEF savedVars
<1>4. CASE /\ pc' = [pc EXCEPT ![c] = "tick"]
           /\ UNCHANGED <<op, ref, todo, sum, reply, lo, hi, steady>>
  <2>1. CallsOK' /\ OnlyCall(c) /\ pc'[c] = "tick" /\ op'[c] = "StreamIsActive"
    BY <1>1, <1>4 DEF ScalerInv, CallsOK, OnlyCall, savedVars, groupVars
  <2>2. LockOK'
    BY <1>1, <2>1, LockKept, Zenon DEF ScalerInv, OnlyCall, savedVars, lockVars
  <2>3. CallInvOf(c)'
    BY <2>1, Zenon DEF CallInvOf, CallInv, Running
  <2>. QED BY <2>1, <2>2, <2>3, OnlyCallStep, ZenonT(40)
<1>5. CASE Leave(c) /\ reply' = reply
  <2>1. << >> \in Seq(Hosts) /\ << >> \in Seq(Int)
    OBVIOUS
  <2>2. CallsOK'
    BY <1>5, <2>1 DEF ScalerInv, CallsOK, Leave, Become
  <2>3. OnlyCall(c) /\ pc'[c] = "idle"
    BY <1>1, <1>5 DEF ScalerInv, CallsOK, Leave, Become, OnlyCall, savedVars, groupVars
  <2>4. LockOK'
    BY <1>1, <2>3, LockKept, Zenon DEF ScalerInv, OnlyCall, savedVars, lockVars
  <2>5. CallInvOf(c)'
    BY <2>3, Zenon DEF CallInvOf, CallInv, Running
  <2>. QED BY <2>2, <2>3, <2>4, <2>5, OnlyCallStep
<1>. QED
  BY <1>2, <1>3, <1>4, <1>5 DEF StreamTick, Send, StreamEnds, Become, historyVars

\* What a handler does.
LEMMA HandlerStep ==
  ASSUME ScalerInv, NEW c \in Call, Handler(c) \/ StreamEnds(c)
  PROVE  ScalerInv'
BY ReadCountStep, FindRouteStep, ReadAggregateStep, EndStep, StreamStep, ZenonT(40) DEF Handler

-----------------------------------------------------------------------------
(***************************************************************************)
(* Fetches, the routing table and the errgroup.                            *)
(***************************************************************************)
\* pingMut is locked for a fetch; or someone waits for it.
LEMMA LockStep ==
  ASSUME ScalerInv, UNCHANGED <<allCounts, aggregateCount, callVars>>, LockOK', GroupOK',
         table' = table
  PROVE  ScalerInv'
<1>1. UNCHANGED <<pc, op, ref, todo, sum, reply, lo, hi, steady>>
  BY Zenon DEF callVars, historyVars
<1>2. CountsOK' /\ CallsOK'
  BY <1>1 DEF ScalerInv, CountsOK, CallsOK
<1>3. ASSUME NEW c \in Call PROVE CallInvOf(c)'
  BY <1>1, Zenon DEF ScalerInv, CallInvOf
<1>. QED BY <1>2, <1>3 DEF ScalerInv

\* The updater is a member of the errgroup like the others.
LEMMA UpdaterIsMember ==
  ASSUME \/ \E m \in Member \ {"updater"} : MemberFails(m) \/ MemberStops(m)
         \/ UpdaterReturns
  PROVE  \E m \in Member : MemberFails(m) \/ MemberStops(m)
BY Zenon DEF UpdaterReturns, Member

\* Steps that change who holds or wants pingMut, or which members run.
LEMMA GroupStep ==
  ASSUME ScalerInv,
         \/ \E f \in Fetcher : BeginFetch(f)
         \/ Tick
         \/ \E m \in Member : MemberFails(m) \/ MemberStops(m)
         \/ Restart
  PROVE  ScalerInv'
<1>1. UNCHANGED <<allCounts, aggregateCount, callVars, table>>
  BY DEF BeginFetch, Tick, MemberFails, MemberStops, Restart, Lock, savedVars
<1>2. pc' = pc
  BY <1>1, Zenon DEF callVars
<1>3. GroupOK'
  BY DEF BeginFetch, Tick, MemberFails, MemberStops, Restart, ScalerInv, GroupOK, groupVars
<1>4. LockOK'
  <2>1. ASSUME NEW f \in Fetcher, BeginFetch(f) PROVE LockOK'
    <3>1. f # NoOne
      BY CallAssumption DEF Fetcher, NoOne
    <3>2. /\ holder = NoOne /\ fetching' = TRUE /\ holder' = f
          /\ f \in waiting /\ waiting' = waiting \ {f}
      BY <2>1, Zenon DEF BeginFetch, Lock, ScalerInv, LockOK
    <3>3. fetching' = (holder' # NoOne)
      BY <3>1, <3>2, Zenon
    <3>. QED BY <1>2, <3>2, <3>3 DEF ScalerInv, LockOK
  <2>2. CASE Tick
    BY <1>2, <2>2, CallAssumption, Zenon DEF Tick, ScalerInv, LockOK, Fetcher, savedVars
  <2>3. ASSUME NEW m \in Member, MemberFails(m) \/ MemberStops(m) PROVE LockOK'
    BY <1>2, <2>3 DEF MemberFails, MemberStops, ScalerInv, LockOK, savedVars, lockVars
  <2>4. CASE Restart
    BY <1>2, <2>4, CallAssumption, Zenon DEF Restart, ScalerInv, LockOK, Fetcher, savedVars
  <2>. QED BY <2>1, <2>2, <2>3, <2>4, ZenonT(40)
<1>. QED BY <1>1, <1>3, <1>4, LockStep, ZenonT(40)

\* What Observe notes: a /queue_ping that has just fetched sees these counts, the
\* other calls that run see a wider range.
LEMMA ObserveFacts ==
  ASSUME ScalerInv, Observe, allCounts' \in CountMaps
  PROVE  /\ lo' \in [Call -> Seq(Int)] /\ hi' \in [Call -> Seq(Int)]
         /\ \A c \in Call :
              /\ c = holder => /\ lo'[c] = View(ref[c], allCounts')
                               /\ hi'[c] = View(ref[c], allCounts')
              /\ c # holder /\ Busy(c) => /\ lo'[c] = Pick(Min, lo[c], View(ref[c], allCounts'))
                                          /\ hi'[c] = Pick(Max, hi[c], View(ref[c], allCounts'))
              /\ c # holder /\ ~Busy(c) => lo'[c] = lo[c] /\ hi'[c] = hi[c]
<1>. DEFINE L(c) == CASE holder = c -> View(ref[c], allCounts')
                      [] holder # c /\ Busy(c) -> Pick(Min, lo[c], View(ref[c], allCounts'))
                      [] OTHER -> lo[c]
            H(c) == CASE holder = c -> View(ref[c], allCounts')
                      [] holder # c /\ Busy(c) -> Pick(Max, hi[c], View(ref[c], allCounts'))
                      [] OTHER -> hi[c]
<1>1. lo' = [c \in Call |-> L(c)] /\ hi' = [c \in Call |-> H(c)]
  BY Zenon DEF Observe
<1>2. ASSUME NEW c \in Call
      PROVE  /\ c = holder => /\ L(c) = View(ref[c], allCounts')
                              /\ H(c) = View(ref[c], allCounts')
             /\ c # holder /\ Busy(c) => /\ L(c) = Pick(Min, lo[c], View(ref[c], allCounts'))
                                         /\ H(c) = Pick(Max, hi[c], View(ref[c], allCounts'))
             /\ c # holder /\ ~Busy(c) => L(c) = lo[c] /\ H(c) = hi[c]
  <2>1. CASE c = holder
    BY <2>1
  <2>2. CASE c # holder /\ Busy(c)
    BY <2>2
  <2>3. CASE c # holder /\ ~Busy(c)
    BY <2>3
  <2>. QED BY <2>1, <2>2, <2>3, Zenon
<1>3. ASSUME NEW c \in Call PROVE L(c) \in Seq(Int) /\ H(c) \in Seq(Int)
  <2>. DEFINE v == View(ref[c], allCounts')
  <2>1. /\ ref[c] \in Seq(Hosts) /\ lo[c] \in Seq(Int) /\ hi[c] \in Seq(Int)
        /\ v \in Seq(Int) /\ Len(v) = Len(ref[c])
    BY CallTypes, ViewFacts, Zenon DEF ScalerInv
  <2>2. Busy(c) => Len(lo[c]) = Len(ref[c]) /\ Len(hi[c]) = Len(ref[c])
    BY Zenon DEF ScalerInv, CallInvOf, CallInv, Within, Busy, Running
  <2>3. Busy(c) => Pick(Min, lo[c], v) \in Seq(Int) /\ Pick(Max, hi[c], v) \in Seq(Int)
    BY <2>1, <2>2, PickFacts, Zenon
  <2>. HIDE DEF L, H
  <2>. QED BY <1>2, <2>1, <2>3, ZenonT(40)
<1>. HIDE DEF L, H
<1>. QED BY <1>1, <1>2, <1>3, Zenon

\* A fetch succeeds: what the handlers that run have found out remains true of the
\* counts they have seen, and a /queue_ping goes on with those it has fetched.
LEMMA FetchOkStep ==
  ASSUME ScalerInv, FetchOk
  PROVE  ScalerInv'
<1>1. /\ CountsOK' /\ allCounts' \in CountMaps /\ fetching' = FALSE /\ holder' = NoOne
      /\ Observe
      /\ UNCHANGED <<waiting, table, op, ref, todo, sum, reply, steady>>
      /\ pc' = [c \in Call |-> IF holder = c THEN "count" ELSE pc[c]]
  BY DEF FetchOk, Save, CountsOK
<1>2. GroupOK'
  BY Zenon DEF FetchOk, ScalerInv, GroupOK, groupVars
<1>3. LockOK'
  <2>1. fetching' = (holder' # NoOne)
    BY <1>1, Zenon
  <2>2. \A c \in Call : c # NoOne
    BY CallAssumption, Zenon DEF NoOne
  <2>3. \A c \in Call : c \in waiting \/ c = NoOne => pc'[c] = "fetch"
    BY <1>1, <2>2 DEF ScalerInv, LockOK
  <2>. QED BY <1>1, <2>1, <2>2, <2>3 DEF ScalerInv, LockOK
<1>4. CallsOK'
  <2>1. lo' \in [Call -> Seq(Int)] /\ hi' \in [Call -> Seq(Int)]
    BY <1>1, ObserveFacts, ZenonT(40)
  <2>2. pc' \in [Call -> {"idle", "count", "route", "log", "total", "tick", "send", "fetch"}]
    BY <1>1 DEF ScalerInv, CallsOK
  <2>. QED BY <1>1, <2>1, <2>2, Zenon DEF ScalerInv, CallsOK
<1>5. ASSUME NEW c \in Call PROVE CallInvOf(c)'
  <2>. DEFINE v == View(ref[c], allCounts')
              k == Handled(ref[c], todo[c]) + 1
  <2>1. /\ CallInvOf(c) /\ ref[c] \in Seq(Hosts) /\ todo[c] \in Seq(Hosts) /\ sum[c] \in Int
        /\ lo[c] \in Seq(Int) /\ hi[c] \in Seq(Int) /\ allCounts \in CountMaps
    BY CallTypes, Zenon DEF ScalerInv, CountsOK
  <2>2. v \in Seq(Int) /\ Len(v) = Len(ref[c])
    BY <1>1, <2>1, ViewFacts, ZenonT(40)
  <2>3. CASE c = holder
    <3>1. pc[c] = "fetch" /\ pc'[c] = "count"
      BY <1>1, <2>3 DEF ScalerInv, LockOK
    <3>2. /\ op[c] = "queue_ping" /\ ref[c] = <<Interceptor>> /\ todo[c] = ref[c] /\ sum[c] = 0
          /\ steady[c] \subseteq table
      BY <2>1, <3>1, Zenon DEF CallInvOf, CallInv, Running, AtHost
    <3>3. Within(ref[c], ref[c], 0, v, v, allCounts')
      BY <1>1, <2>1, WithinBegin, Zenon
    <3>4. lo'[c] = v /\ hi'[c] = v
      BY <1>1, <2>3, ObserveFacts, Zenon
    <3>5. AtHost("count", op[c], ref[c], todo[c], sum[c], v, v, steady[c])
      BY <3>2, Zenon DEF AtHost
    <3>. QED BY <1>1, <3>1, <3>2, <3>3, <3>4, <3>5, ZenonT(40) DEF CallInvOf, CallInv
  <2>4. CASE c # holder /\ Busy(c)
    <3>1. pc'[c] = pc[c] /\ Running(pc[c])
      BY <1>1, <2>4 DEF Busy, Running
    <3>2. /\ Within(ref[c], todo[c], sum[c], lo[c], hi[c], allCounts)
          /\ AtHost(pc[c], op[c], ref[c], todo[c], sum[c], lo[c], hi[c], steady[c])
          /\ steady[c] \subseteq table
      BY <2>1, <3>1, Zenon DEF CallInvOf, CallInv
    <3>3. lo'[c] = Pick(Min, lo[c], v) /\ hi'[c] = Pick(Max, hi[c], v)
      BY <1>1, <2>4, ObserveFacts, Zenon
    <3>4. Len(lo[c]) = Len(ref[c]) /\ Len(hi[c]) = Len(ref[c])
      BY <3>2, Zenon DEF Within
    <3>5. /\ lo'[c] \in Seq(Int) /\ Len(lo'[c]) = Len(ref[c])
          /\ hi'[c] \in Seq(Int) /\ Len(hi'[c]) = Len(ref[c])
          /\ \A i \in 1..Len(ref[c]) : /\ lo'[c][i] <= lo[c][i] /\ lo'[c][i] <= v[i]
                                       /\ hi[c][i] <= hi'[c][i] /\ v[i] <= hi'[c][i]
      <4>1. /\ Pick(Min, lo[c], v) \in Seq(Int) /\ Len(Pick(Min, lo[c], v)) = Len(ref[c])
            /\ \A i \in 1..Len(ref[c]) : /\ Pick(Min, lo[c], v)[i] <= lo[c][i]
                                         /\ Pick(Min, lo[c], v)[i] <= v[i]
        BY <2>1, <2>2, <3>4, PickFacts, ZenonT(40)
      <4>2. /\ Pick(Max, hi[c], v) \in Seq(Int) /\ Len(Pick(Max, hi[c], v)) = Len(ref[c])
            /\ \A i \in 1..Len(ref[c]) : /\ hi[c][i] <= Pick(Max, hi[c], v)[i]
                                         /\ v[i] <= Pick(Max, hi[c], v)[i]
        BY <2>1, <2>2, <3>4, PickFacts, ZenonT(40)
      <4>. QED BY <3>3, <4>1, <4>2, ZenonT(40)
    <3>6. Within(ref[c], todo[c], sum[c], lo'[c], hi'[c], allCounts')
      BY <1>1, <2>1, <3>2, <3>5, WithinObserve, Zenon
    <3>7. AtHost(pc[c], op[c], ref[c], todo[c], sum[c], lo'[c], hi'[c], steady[c])
      <4>1. CASE pc[c] = "route" /\ op[c] # "GetMetricSpec" /\ Head(todo[c]) # Interceptor
        <5>1. todo[c] # << >> /\ lo[c][k] <= 0 /\ 0 <= hi[c][k]
          BY <3>2, <4>1, Zenon DEF AtHost
        <5>2. k \in 1..Len(ref[c])
          BY <2>1, <3>2, <5>1, HostAt, Zenon
        <5>3. /\ lo[c][k] \in Int /\ hi[c][k] \in Int /\ lo'[c][k] \in Int /\ hi'[c][k] \in Int
              /\ lo'[c][k] <= lo[c][k] /\ hi[c][k] <= hi'[c][k]
          <6>1. \A q \in Seq(Int) : Len(q) = Len(ref[c]) => q[k] \in Int
            BY <5>2
          <6>. QED BY <2>1, <3>4, <3>5, <5>2, <6>1, ZenonT(40)
        <5>4. lo'[c][k] <= 0 /\ 0 <= hi'[c][k]
          <6>1. lo'[c][k] <= 0
            BY <5>1, <5>3, StillAround0, Zenon
          <6>2. 0 <= hi'[c][k]
            BY <5>1, <5>3, StillAround0, Zenon
          <6>. QED BY <6>1, <6>2, Zenon
        <5>. QED BY <3>2, <4>1, <5>4, Zenon DEF AtHost
      <4>2. CASE ~(pc[c] = "route" /\ op[c] # "GetMetricSpec" /\ Head(todo[c]) # Interceptor)
        BY <3>2, <4>2, Zenon DEF AtHost
      <4>. QED BY <4>1, <4>2, Zenon
    <3>. QED BY <1>1, <3>1, <3>2, <3>6, <3>7, ZenonT(40) DEF CallInvOf, CallInv, Running
  <2>5. CASE c # holder /\ ~Busy(c)
    <3>1. pc'[c] = pc[c] /\ ~Running(pc[c])
      BY <1>1, <2>5 DEF Busy, Running
    <3>. QED BY <1>1, <2>1, <3>1, ZenonT(40) DEF CallInvOf, CallInv
  <2>. QED BY <2>3, <2>4, <2>5, Zenon
<1>. QED BY <1>1, <1>2, <1>3, <1>4, <1>5, ZenonT(40) DEF ScalerInv

\* A fetch fails: a /queue_ping that waited for it answers, everything else is as before.
LEMMA FetchFailsStep ==
  ASSUME ScalerInv, NEW onTick \in BOOLEAN, FetchFails(onTick)
  PROVE  ScalerInv'
<1>1. /\ UNCHANGED <<allCounts, aggregateCount, waiting, table>>
      /\ fetching' = FALSE /\ holder' = NoOne
  BY DEF FetchFails, Unlock
<1>2. GroupOK' /\ CountsOK'
  BY <1>1 DEF FetchFails, ScalerInv, GroupOK, CountsOK, groupVars
<1>3. fetching' = (holder' # NoOne) /\ \A d \in Call : d # NoOne
  BY <1>1, CallAssumption, Zenon DEF NoOne
<1>4. ASSUME NEW c \in Call, holder = c PROVE ScalerInv'
  <2>1. Answer(c, "error") /\ CallsOK /\ "error" \in Replies
    BY <1>4, Zenon DEF FetchFails, ScalerInv, Replies
  <2>2. /\ CallsOK'
        /\ pc'[c] = "idle" \/ (pc'[c] = "send" /\ op'[c] = "StreamIsActive")
        /\ \A d \in Call \ {c} :
             /\ pc'[d] = pc[d] /\ op'[d] = op[d] /\ ref'[d] = ref[d] /\ todo'[d] = todo[d]
             /\ sum'[d] = sum[d] /\ lo'[d] = lo[d] /\ hi'[d] = hi[d] /\ steady'[d] = steady[d]
    BY <2>1, AnswerFacts, Zenon
  <2>3. LockOK'
    BY <1>1, <1>3, <1>4, <2>2, Zenon DEF ScalerInv, LockOK
  <2>4. ASSUME NEW d \in Call PROVE CallInvOf(d)'
    <3>1. CASE d = c
      BY <2>2, <3>1, Zenon DEF CallInvOf, CallInv, Running
    <3>2. CASE d # c
      BY <1>1, <2>2, <3>2, Zenon DEF ScalerInv, CallInvOf
    <3>. QED BY <3>1, <3>2, Zenon
  <2>. QED BY <1>2, <2>2, <2>3, <2>4 DEF ScalerInv
<1>5. CASE holder \notin Call
  <2>1. UNCHANGED callVars /\ pc' = pc
    BY <1>5, ZenonT(40) DEF FetchFails, callVars
  <2>2. LockOK'
    BY <1>1, <1>3, <2>1 DEF ScalerInv, LockOK
  <2>. QED BY <1>1, <1>2, <2>1, <2>2, LockStep, Zenon
<1>. QED BY <1>4, <1>5

\* The routing table is replaced: what is steady is still routed, what was not
\* steady is not.
LEMMA ReplaceTableStep ==
  ASSUME ScalerInv, NEW t \in Tables, ReplaceTable(t)
  PROVE  ScalerInv'
<1>1. /\ UNCHANGED <<allCounts, aggregateCount, fetching, running, ctx, holder, pc, op, ref, todo,
                     sum, reply, lo, hi>>
      /\ table' = t /\ waiting' = waiting \cup {"updater"}
      /\ steady' = [c \in Call |-> IF Busy(c) THEN steady[c] \cap t ELSE steady[c]]
  BY Zenon DEF ReplaceTable, savedVars, groupVars
<1>2. CountsOK' /\ GroupOK'
  BY <1>1, TablesAssumption, Zenon DEF ScalerInv, CountsOK, GroupOK
<1>3. LockOK'
  BY <1>1, CallAssumption, ZenonT(40) DEF ScalerInv, LockOK, Fetcher
<1>4. CallsOK'
  BY <1>1 DEF ScalerInv, CallsOK
<1>5. ASSUME NEW c \in Call PROVE CallInvOf(c)'
  <2>1. CASE ~Running(pc[c])
    BY <1>1, <2>1, Zenon DEF ScalerInv, CallInvOf, CallInv
  <2>2. CASE Running(pc[c])
    <3>1. steady'[c] = steady[c] \cap t
      BY <1>1, <2>2, Zenon DEF Busy, Running
    <3>2. AtHost(pc[c], op[c], ref[c], todo[c], sum[c], lo[c], hi[c], steady[c] \cap t)
      <4>1. AtHost(pc[c], op[c], ref[c], todo[c], sum[c], lo[c], hi[c], steady[c])
        BY <2>2, Zenon DEF ScalerInv, CallInvOf, CallInv
      <4>. QED BY <4>1, Zenon DEF AtHost
    <3>3. /\ Within(ref[c], todo[c], sum[c], lo[c], hi[c], allCounts)
          /\ pc[c] \in {"tick", "send"} => op[c] = "StreamIsActive"
      BY <2>2, Zenon DEF ScalerInv, CallInvOf, CallInv
    <3>. QED BY <1>1, <3>1, <3>2, <3>3, Zenon DEF CallInvOf, CallInv
  <2>. QED BY <2>1, <2>2
<1>. QED BY <1>2, <1>3, <1>4, <1>5, Zenon DEF ScalerInv

\* The process ends.
LEMMA ExitStep ==
  ASSUME ScalerInv, Exit
  PROVE  ScalerInv'
<1>1. CountsOK'
  BY NoCountsSum, Zenon DEF Exit, Forget, CountsOK
<1>2. GroupOK'
  BY DEF Exit, GroupOK, ScalerInv
<1>3. LockOK'
  BY CallAssumption, Zenon DEF Exit, Forget, LockOK, Fetcher, NoOne
<1>4. CallsOK'
  BY DEF Exit, CallsOK, Replies
<1>5. ASSUME NEW c \in Call PROVE CallInvOf(c)'
  BY DEF Exit, CallInvOf, CallInv, Running
<1>. QED BY <1>1, <1>2, <1>3, <1>4, <1>5, Zenon DEF ScalerInv

\* Every step keeps the invariant.
LEMMA ScalerStep == ScalerInv /\ [Next]_vars => ScalerInv'
<1>. SUFFICES ASSUME ScalerInv, [Next]_vars PROVE ScalerInv'
  OBVIOUS
<1>1. CASE UNCHANGED vars
  <2>1. /\ UNCHANGED <<allCounts, aggregateCount, fetching, table, running, ctx, holder, waiting>>
        /\ UNCHANGED callVars /\ pc' = pc
    BY <1>1 DEF vars, savedVars, groupVars, lockVars, callVars
  <2>2. LockOK' /\ GroupOK'
    BY <2>1 DEF ScalerInv, LockOK, GroupOK
  <2>. QED BY <2>1, <2>2, LockStep, Zenon
<1>. QED
  BY <1>1, UpdaterIsMember, GroupStep, FetchOkStep, FetchFailsStep, ReplaceTableStep, AcceptStep,
     HandlerStep, ExitStep, ZenonT(40) DEF Next

\* The invariant holds throughout.
LEMMA ScalerInvHolds == Spec => []ScalerInv
BY InitScaler, ScalerStep, PTL DEF Spec

\* TypeOK of the scaler; in particular pingMut is locked by exactly the holder.
THEOREM ScalerTypeCorrect == Spec => []TypeOK
<1>1. ScalerInv => TypeOK
  BY ZenonT(40) DEF ScalerInv, CountsOK, GroupOK, LockOK, CallsOK, TypeOK, Hosts, Replies
<1>. QED BY <1>1, ScalerInvHolds, PTL

-----------------------------------------------------------------------------
(***************************************************************************)
(* Answers.                                                                *)
(***************************************************************************)
\* A step of the call d moves no other call.
LEMMA MovesOne ==
  ASSUME NEW d \in Call,
         \/ \E o \in {"IsActive", "GetMetrics", "GetMetricSpec"} :
              \E hs \in Refs : CallRPC(d, o, hs)
         \/ \E hs \in Refs : OpenStream(d, hs)
         \/ GetQueue(d)
         \/ PingQueue(d)
         \/ Handler(d)
         \/ StreamEnds(d)
  PROVE  \E w : pc' = [pc EXCEPT ![d] = w]
<1>1. CASE Handler(d)
  <2>. USE DEF Become, Answer, Leave, AddCount
  <2>1. CASE ReadCount(d)
    BY <2>1 DEF ReadCount
  <2>2. CASE FindRoute(d)
    BY <2>2, Zenon DEF FindRoute
  <2>3. CASE GetMetricSpec(d) \/ LogError(d) \/ Finish(d)
    BY <2>3, Zenon DEF GetMetricSpec, LogError, Finish
  <2>4. CASE ReadAggregate(d) \/ ReadAllCounts(d)
    BY <2>4, ZenonT(40) DEF ReadAggregate, ReadAllCounts
  <2>5. CASE StreamTick(d) \/ Send(d)
    BY <2>5 DEF StreamTick, Send
  <2>. QED BY <1>1, <2>1, <2>2, <2>3, <2>4, <2>5, ZenonT(40) DEF Handler
<1>. QED
  BY <1>1 DEF CallRPC, OpenStream, GetQueue, PingQueue, StreamEnds, Leave, Become

\* The handler of c returns only after the last host, at the interceptor, at a host
\* without a route, without hosts, or when its own fetch has failed.
Returns(c) ==
  \/ reply'[c] = "active" /\ pc[c] = "count" /\ todo[c] # << >> /\ Head(todo[c]) = Interceptor
  \/ /\ pc[c] = "route" /\ reply'[c] \in {"interceptor", "http-requests", "error"}
     /\ reply'[c] = "error" => Head(todo[c]) \notin table \cup {Interceptor}
  \/ pc[c] = "log" /\ reply'[c] = "error"
  \/ pc[c] = "count" /\ todo[c] = << >> /\ reply'[c] = Result(c)
  \/ pc[c] = "fetch" /\ reply'[c] = "error"

\* A handler that answers.
LEMMA HandlerReturns ==
  ASSUME ScalerInv, NEW c \in Call, Answers(c), Handler(c)
  PROVE  Returns(c)
<1>1. /\ Busy(c) /\ pc'[c] \in {"idle", "tick", "send"}
      /\ pc[c] \in {"count", "route", "log", "total", "fetch"}
  BY CallTypes, Zenon DEF Answers, Busy, ScalerInv
<1>2. ASSUME NEW w \in {"count", "route", "log", "total"}, Become(c, w) PROVE FALSE
  BY <1>1, <1>2, Zenon DEF Become, ScalerInv, CallsOK
<1>3. ASSUME NEW r, Answer(c, r) PROVE reply'[c] = r
  BY <1>3 DEF Answer, ScalerInv, CallsOK
<1>4. ASSUME NEW n, AddCount(c, n) PROVE FALSE
  BY <1>2, <1>4, Zenon DEF AddCount
<1>5. CASE ReadCount(c)
  BY <1>2, <1>3, <1>4, <1>5, Zenon DEF ReadCount, Returns
<1>6. CASE FindRoute(c)
  BY <1>2, <1>4, <1>6, Zenon DEF FindRoute
<1>7. CASE GetMetricSpec(c)
  <2>. DEFINE h == Head(todo[c])
              r == CASE h = Interceptor -> "interceptor"
                     [] h \in table -> "http-requests"
                     [] OTHER -> "error"
  <2>1. pc[c] = "route" /\ reply'[c] = r
    BY <1>3, <1>7 DEF GetMetricSpec
  <2>2. h \in table => h # Interceptor
    BY RefsAssumption DEF ScalerInv, GroupOK
  <2>3. /\ r \in {"interceptor", "http-requests", "error"}
        /\ r = "error" => h \notin table \cup {Interceptor}
    BY <2>2
  <2>. QED BY <2>1, <2>3, Zenon DEF Returns
<1>8. CASE LogError(c)
  BY <1>3, <1>8, Zenon DEF LogError, Returns
<1>9. CASE Finish(c)
  BY <1>3, <1>9 DEF Finish, Returns
<1>10. CASE ReadAggregate(c) \/ ReadAllCounts(c)
  BY <1>4, <1>10, Zenon DEF ReadAggregate, ReadAllCounts
<1>11. CASE StreamTick(c) \/ Send(c)
  BY <1>1, <1>11, Zenon DEF StreamTick, Send
<1>. QED BY <1>5, <1>6, <1>7, <1>8, <1>9, <1>10, <1>11, ZenonT(40) DEF Handler

\* A step of the scaler in which c answers.
LEMMA AnswerReturns ==
  ASSUME ScalerInv, [Next]_vars, NEW c \in Call, Answers(c)
  PROVE  Returns(c)
<1>1. /\ Busy(c) /\ pc'[c] \in {"idle", "tick", "send"} /\ pc'[c] # pc[c] /\ reply'[c] # "none"
      /\ pc \in [Call -> {"idle", "count", "route", "log", "total", "tick", "send", "fetch"}]
  BY Zenon DEF Answers, Busy, ScalerInv, CallsOK
<1>2. ASSUME NEW d \in Call,
             \/ \E o \in {"IsActive", "GetMetrics", "GetMetricSpec"} :
                  \E hs \in Refs : CallRPC(d, o, hs)
             \/ \E hs \in Refs : OpenStream(d, hs)
             \/ GetQueue(d)
             \/ PingQueue(d)
             \/ Handler(d)
             \/ StreamEnds(d)
      PROVE  Returns(c)
  <2>1. d = c
    BY <1>1, <1>2, MovesOne, Zenon
  <2>2. CASE Handler(c)
    BY <2>2, HandlerReturns
  <2>3. CASE ~Handler(c)
    BY <1>1, <1>2, <2>1, <2>3, ZenonT(40)
       DEF CallRPC, OpenStream, GetQueue, PingQueue, Accept, StreamEnds, Busy
  <2>. QED BY <2>2, <2>3, Zenon
<1>3. CASE FetchOk
  <2>1. pc'[c] = IF holder = c THEN "count" ELSE pc[c]
    BY <1>3, Zenon DEF FetchOk
  <2>. QED BY <1>1, <2>1
<1>4. ASSUME NEW onTick \in BOOLEAN, FetchFails(onTick) PROVE Returns(c)
  <2>1. holder \in Call /\ Answer(holder, "error")
    BY <1>1, <1>4, Zenon DEF FetchFails, callVars
  <2>2. holder = c
    BY <1>1, <2>1, Zenon DEF Answer, Leave, Become
  <2>3. pc[c] = "fetch" /\ reply'[c] = "error"
    BY <2>1, <2>2, Zenon DEF Answer, ScalerInv, LockOK, CallsOK
  <2>. QED BY <2>3, Zenon DEF Returns
<1>5. CASE Exit
  BY <1>1, <1>5 DEF Exit
<1>6. CASE pc' = pc
  BY <1>1, <1>6
<1>7. \/ \E f \in Fetcher : BeginFetch(f)
      \/ Tick
      \/ \E t \in Tables : ReplaceTable(t)
      \/ \E m \in Member : MemberFails(m) \/ MemberStops(m)
      \/ Restart
      \/ UNCHANGED vars
      => pc' = pc
  BY Zenon DEF BeginFetch, Tick, ReplaceTable, MemberFails, MemberStops, Restart, callVars, vars
<1>. QED BY <1>2, <1>3, <1>4, <1>5, <1>6, <1>7, UpdaterIsMember, ZenonT(40) DEF Next

\* A handler reads the counts anew for every host (handlers.go), while any number of
\* fetches by the pinger, the updater and /queue_ping replace them: what it answers is
\* within the range of what they found for its hosts while it was running.
THEOREM AnswersWithinSnapshots == Spec => AnswerWithinSnapshots
<1>1. ASSUME ScalerInv, [Next]_vars, NEW c \in Call, Answers(c)
      PROVE  /\ reply'[c] \in {"metric", "counts"} => sum[c] \in Total(lo[c])..Total(hi[c])
             /\ reply'[c] = "inactive" => Total(lo[c]) <= 0
             /\ reply'[c] = "active" => \/ Total(hi[c]) > 0
                                        \/ \E i \in DOMAIN ref[c] : ref[c][i] = Interceptor
  <2>1. Returns(c)
    BY <1>1, AnswerReturns, Zenon
  <2>2. CASE pc[c] = "count" /\ todo[c] = << >> /\ reply'[c] = Result(c)
    <3>1. /\ ref[c] \in Seq(Hosts) /\ sum[c] \in Int /\ lo[c] \in Seq(Int) /\ hi[c] \in Seq(Int)
          /\ allCounts \in CountMaps
      BY <1>1, CallTypes, Zenon DEF ScalerInv, CountsOK
    <3>2. Within(ref[c], << >>, sum[c], lo[c], hi[c], allCounts)
      BY <1>1, <2>2, Zenon DEF ScalerInv, CallInvOf, CallInv, Running
    <3>3. /\ Total(lo[c]) \in Int /\ Total(hi[c]) \in Int
          /\ Total(lo[c]) <= sum[c] /\ sum[c] <= Total(hi[c])
      BY <3>1, <3>2, WithinTotal, Zenon
    <3>4. /\ reply'[c] = "inactive" => ~(sum[c] > 0)
          /\ reply'[c] = "active" => sum[c] > 0
      BY <2>2, Zenon DEF Result
    <3>. QED BY <3>1, <3>3, <3>4
  <2>3. CASE /\ reply'[c] = "active" /\ pc[c] = "count" /\ todo[c] # << >>
             /\ Head(todo[c]) = Interceptor
    <3>1. \E i \in DOMAIN ref[c] : ref[c][i] = Interceptor
      BY <1>1, <2>3, SeenAt, ZenonT(40) DEF Running
    <3>. QED BY <2>3, <3>1, Zenon
  <2>. QED BY <2>1, <2>2, <2>3, Zenon DEF Returns
<1>. DEFINE Right ==
       \A c \in Call : Answers(c) =>
         /\ reply'[c] \in {"metric", "counts"} => sum[c] \in Total(lo[c])..Total(hi[c])
         /\ reply'[c] = "inactive" => Total(lo[c]) <= 0
         /\ reply'[c] = "active" => \/ Total(hi[c]) > 0
                                    \/ \E i \in DOMAIN ref[c] : ref[c][i] = Interceptor
<1>2. ScalerInv /\ [Next]_vars => [Right]_vars
  BY <1>1
<1>. QED BY <1>2, ScalerInvHolds, PTL DEF Spec, AnswerWithinSnapshots

\* getHostCount finds every host that is routed all the while, though the counts and
\* the table are read one after the other and both change in between.
THEOREM RoutedHostNeverFails == Spec => RoutedNeverFails
<1>1. ASSUME ScalerInv, [Next]_vars, NEW c \in Call, Answers(c), reply'[c] = "error",
             op[c] # "queue_ping"
      PROVE  \/ ref[c] = << >>
             \/ \E i \in DOMAIN ref[c] : ref[c][i] \notin steady[c] \cup {Interceptor}
  <2>1. Returns(c) /\ Running(pc[c])
    BY <1>1, AnswerReturns DEF Answers, Busy, Running
  <2>2. /\ AtHost(pc[c], op[c], ref[c], todo[c], sum[c], lo[c], hi[c], steady[c])
        /\ steady[c] \subseteq table
    BY <1>1, <2>1, Zenon DEF ScalerInv, CallInvOf, CallInv
  <2>3. CASE pc[c] = "route" /\ Head(todo[c]) \notin table \cup {Interceptor}
    <3>1. todo[c] # << >>
      BY <2>2, <2>3, Zenon DEF AtHost
    <3>2. \E i \in DOMAIN ref[c] : ref[c][i] = Head(todo[c])
      BY <1>1, <2>1, <3>1, SeenAt, Zenon
    <3>. QED BY <2>2, <2>3, <3>2, Zenon
  <2>4. CASE pc[c] = "log"
    BY <2>2, <2>4, ZenonT(40) DEF AtHost
  <2>5. CASE pc[c] = "fetch"
    BY <1>1, <2>2, <2>5 DEF AtHost
  <2>6. Result(c) # "error"
    BY DEF Result
  <2>. QED BY <1>1, <2>1, <2>3, <2>4, <2>5, <2>6, ZenonT(40) DEF Returns
<1>. DEFINE Found ==
       \A c \in Call : Answers(c) /\ reply'[c] = "error" /\ op[c] # "queue_ping" =>
         \/ ref[c] = << >>
         \/ \E i \in DOMAIN ref[c] : ref[c][i] \notin steady[c] \cup {Interceptor}
<1>2. ScalerInv /\ [Next]_vars => [Found]_vars
  BY <1>1
<1>. QED BY <1>2, ScalerInvHolds, PTL DEF Spec, RoutedNeverFails
=============================================================================
