-------------------------- MODULE MetricsViewProofs --------------------------
(***************************************************************************)
(* Proofs about a scrape: about AccessControl, for every configuration and *)
(* for headers of every length, and about MetricsView, for every set and   *)
(* every order of providers, whichever of them raise, and every number of  *)
(* sites.  Lines and FlattenSeq are recursive: that the functions by which *)
(* they are defined exist is shown from the smallest argument for which    *)
(* they would not (see Sums).                                              *)
(***************************************************************************)
EXTENDS MetricsView, Sums, SequenceTheorems, TLAPS

\* Every provider of some order, and the request provider.
Providers == (UNION {ToSet(o) : o \in Orders}) \cup {"request"}

-----------------------------------------------------------------------------
(* Access.                                                                 *)

\* What has been skipped when the walk is at i: nothing from outside.
WalkInv ==
    pc = "walk" =>
        /\ allowlist # {} /\ Readable /\ peer \in trusted
        /\ i \in 0..Len(forwarded)
        /\ \A k \in Outside : k <= i

DecideInv == pc = "decide" => allowlist # {} /\ Readable /\ ComesFrom(client)

AccessInv == TypeOK /\ WalkInv /\ DecideInv /\ AnswersForTheClient

LEMMA HeaderType ==
    ASSUME NEW h \in Headers
    PROVE  /\ h \in Seq(Entries) /\ Len(h) \in 0..MaxHops
           /\ DOMAIN h = 1..Len(h)
<1>1. PICK n \in 0..MaxHops : h \in [1..n -> Entries]
  BY DEF Headers
<1>2. h \in Seq(Entries) /\ Len(h) = n
  BY <1>1, HopsAssumption
<1> QED
  BY <1>1, <1>2

\* A request comes from one address.
LEMMA OneClient ==
    ASSUME TypeOK, NEW x, NEW y, ComesFrom(x), ComesFrom(y) PROVE x = y
<1>1. CASE peer \in trusted /\ Outside # {}
  <2>1. PICK k \in Outside : x = forwarded[k] /\ \A j \in Outside : j <= k
    BY <1>1 DEF ComesFrom
  <2>2. PICK l \in Outside : y = forwarded[l] /\ \A j \in Outside : j <= l
    BY <1>1 DEF ComesFrom
  <2>3. k \in Int /\ l \in Int
    BY HeaderType DEF TypeOK, Outside
  <2>4. k = l
    BY <2>1, <2>2, <2>3
  <2> QED
    BY <2>1, <2>2, <2>4
<1>2. CASE ~(peer \in trusted /\ Outside # {})
  BY <1>2 DEF ComesFrom
<1> QED
  BY <1>1, <1>2

LEMMA AccessStart == Init => AccessInv
<1> SUFFICES ASSUME Init PROVE AccessInv
  OBVIOUS
<1>1. 0 \in 0..MaxHops
  BY HopsAssumption
<1>2. TypeOK
  BY <1>1 DEF Init, TypeOK, Entries
<1>3. WalkInv /\ DecideInv /\ AnswersForTheClient
  BY DEF Init, WalkInv, DecideInv, AnswersForTheClient
<1> QED
  BY <1>2, <1>3 DEF AccessInv

LEMMA AccessStep == AccessInv /\ [Next]_vars => AccessInv'
<1> SUFFICES ASSUME AccessInv, [Next]_vars PROVE AccessInv'
  OBVIOUS
<1>1. /\ forwarded \in Seq(Entries) /\ Len(forwarded) \in 0..MaxHops
      /\ DOMAIN forwarded = 1..Len(forwarded)
  BY HeaderType DEF AccessInv, TypeOK
<1>2. CASE UNCHANGED vars
  BY <1>2 DEF AccessInv, TypeOK, WalkInv, DecideInv, AnswersForTheClient, ComesFrom, Outside,
              Readable, vars, request
<1>3. CASE Misconfigured
  BY <1>3 DEF Misconfigured, Goto, request, AccessInv, TypeOK, WalkInv, DecideInv,
              AnswersForTheClient, Readable
<1>4. CASE Unrestricted
  BY <1>4 DEF Unrestricted, Goto, request, AccessInv, TypeOK, WalkInv, DecideInv,
              AnswersForTheClient
<1>5. CASE FromPeer
  <2>1. Outside = {} \/ peer \notin trusted
    BY <1>1, <1>5 DEF FromPeer, Outside
  <2>2. ComesFrom(client)'
    BY <1>5, <2>1 DEF FromPeer, Goto, request, ComesFrom, Outside
  <2> QED
    BY <1>5, <2>2 DEF FromPeer, Goto, request, AccessInv, TypeOK, WalkInv, DecideInv,
                      AnswersForTheClient, Readable, Entries
<1>6. CASE FromProxy
  <2>1. i' \in 0..Len(forwarded) /\ i' \in 0..MaxHops
    <3>1. Len(forwarded) \in 0..Len(forwarded)
      BY <1>1
    <3> QED
      BY <1>1, <1>6, <3>1 DEF FromProxy
  <2>2. \A k \in Outside : k <= i'
    BY <1>1, <1>6 DEF FromProxy, Outside
  <2>3. WalkInv'
    BY <1>6, <2>1, <2>2 DEF FromProxy, Goto, request, WalkInv, Outside, Readable
  <2> QED
    BY <1>6, <2>1, <2>3 DEF FromProxy, Goto, request, AccessInv, TypeOK, DecideInv,
                            AnswersForTheClient
<1>7. CASE Skip
  <2>1. i \in 1..Len(forwarded) /\ i \notin Outside /\ \A k \in Outside : k <= i
    BY <1>1, <1>7, JunkAssumption DEF Skip, AccessInv, WalkInv, Outside
  <2>2. i' \in 0..Len(forwarded) /\ i' \in 0..MaxHops
    <3>1. i' = i - 1
      BY <1>7 DEF Skip
    <3>2. i \in 1..Len(forwarded) /\ Len(forwarded) \in 0..MaxHops
      BY <1>1, <2>1
    <3> QED
      BY <3>1, <3>2, HopsAssumption
  <2>3. ASSUME NEW k \in Outside PROVE k <= i'
    <3>1. k \in Int /\ k # i /\ k <= i
      BY <1>1, <2>1 DEF Outside
    <3> QED
      BY <1>7, <2>1, <3>1 DEF Skip
  <2>4. WalkInv'
    BY <1>7, <2>2, <2>3 DEF Skip, request, AccessInv, WalkInv, Outside, Readable
  <2> QED
    BY <1>7, <2>2, <2>4 DEF Skip, request, AccessInv, TypeOK, DecideInv, AnswersForTheClient
<1>8. CASE Found
  <2>1. i \in 1..Len(forwarded) /\ peer \in trusted /\ \A k \in Outside : k <= i
    BY <1>1, <1>8 DEF Found, Goto, AccessInv, WalkInv
  <2>2. forwarded[i] \in Addrs \ trusted
    BY <1>1, <1>8, <2>1 DEF Found, Entries
  <2>3. i \in Outside
    BY <1>1, <2>1, <2>2 DEF Outside
  <2>4. ComesFrom(client)'
    BY <1>8, <2>1, <2>3 DEF Found, request, ComesFrom, Outside
  <2> QED
    BY <1>8, <2>2, <2>4 DEF Found, Goto, request, AccessInv, TypeOK, Entries, WalkInv, DecideInv,
                            AnswersForTheClient, Readable
<1>9. CASE Exhausted
  <2>1. Outside = {}
    BY <1>1, <1>9 DEF Exhausted, Goto, AccessInv, WalkInv, Outside
  <2>2. ComesFrom(client)'
    BY <1>9, <2>1 DEF Exhausted, request, ComesFrom, Outside
  <2> QED
    BY <1>9, <2>2 DEF Exhausted, Goto, request, AccessInv, TypeOK, WalkInv, DecideInv,
                      AnswersForTheClient, Readable
<1>10. CASE Decide
  <2>1. allowlist # {} /\ ComesFrom(client) /\ Junk \notin allowlist \cup trusted
    BY <1>10 DEF Decide, Goto, AccessInv, DecideInv, Readable
  <2>2. (\E x \in allowlist : ComesFrom(x)) <=> client \in allowlist
    BY <2>1, OneClient DEF AccessInv
  <2>3. answer' <=> client \in allowlist
    BY <1>10, <2>1 DEF Decide
  <2>4. AnswersForTheClient'
    BY <1>10, <2>1, <2>2, <2>3 DEF Decide, Goto, request, AnswersForTheClient, ComesFrom, Outside
  <2> QED
    BY <1>10, <2>4 DEF Decide, Goto, request, AccessInv, TypeOK, WalkInv, DecideInv
<1> QED
  BY <1>2, <1>3, <1>4, <1>5, <1>6, <1>7, <1>8, <1>9, <1>10 DEF Next

(* The walk finds the address the request comes from, for headers of every  *)
(* length.                                                                  *)
THEOREM AccessIsForTheClient == Spec => []AnswersForTheClient
<1>1. AccessInv => AnswersForTheClient
  BY DEF AccessInv
<1> QED
  BY <1>1, AccessStart, AccessStep, PTL DEF Spec

(* Type correctness: the walk never leaves the header.                      *)
THEOREM AccessTypeCorrect == Spec => []TypeOK
<1>1. AccessInv => TypeOK
  BY DEF AccessInv
<1> QED
  BY <1>1, AccessStart, AccessStep, PTL DEF Spec

-----------------------------------------------------------------------------
(* What the providers yield.                                               *)

\* The names of metrics that occur.
Names ==
    {"rss", "rss_peak", "cpu", "uptime", "info", "threads", "conflicts", "object_count",
     "db_size", "connections", "idle", "pool_size", "cache_size", "cache_bytes", "loads",
     "stores", "by_type", "by_state", "addon", "odd", "total", "sum", "count", "max",
     "bucket", "errors"}

SamplesOf(p) ==
    [by : {p}, family : Names, auth : Auth \cup {""}, value : 0..MaxDuration,
     printable : BOOLEAN]

Samples ==
    [by : Providers, family : Names, auth : Auth \cup {""}, value : 0..MaxDuration,
     printable : BOOLEAN]

\* What is in ms of p is y, at a stretch.
Stands(ms, p, y) ==
    \E a \in 0..Len(ms) :
        /\ {n \in DOMAIN ms : ms[n].by = p} = (a + 1)..(a + Len(y))
        /\ \A n \in 1..Len(y) : ms[a + n] = y[n]

Nothing(ms, p) == \A n \in DOMAIN ms : ms[n].by # p

LEMMA AsSequence ==
    ASSUME NEW S, NEW n \in Nat, NEW f \in [1..n -> S]
    PROVE  f \in Seq(S) /\ Len(f) = n
OBVIOUS

LEMMA OrderType ==
    ASSUME NEW o \in Orders
    PROVE  /\ o \in Seq(Providers) /\ Len(o) \in Nat /\ DOMAIN o = 1..Len(o)
           /\ \A j, k \in 1..Len(o) : o[j] = o[k] => j = k
<1>1. o \in Seq(ToSet(o)) /\ IsInjective(o)
  BY ViewAssumption
<1>2. Len(o) \in Nat /\ DOMAIN o = 1..Len(o) /\ \A k \in 1..Len(o) : o[k] \in ToSet(o)
  BY <1>1
<1>3. ToSet(o) \subseteq Providers
  BY DEF Providers
<1>4. o \in [1..Len(o) -> Providers]
  <2>1. o \in [1..Len(o) -> ToSet(o)]
    BY <1>1
  <2> QED
    BY <1>3, <2>1
<1>5. o \in Seq(Providers)
  BY <1>2, <1>4, AsSequence
<1> QED
  BY <1>1, <1>2, <1>5 DEF IsInjective

LEMMA Smallest ==
    ASSUME NEW B, B \subseteq Nat, B # {}
    PROVE  \E k \in B : \A j \in B : k <= j
<1>1. PICK k \in B : \A j \in B : ~(<<j, k>> \in OpToRel(<, Nat))
  BY WFMin, NatLessThanWellFounded
<1>2. \A j \in B : ~(j < k)
  BY <1>1 DEF OpToRel
<1> QED
  BY <1>2

\* The equation of FlattenSeq's function.
IsFlat(h, ss, n) == h = [k \in 1..n |-> IF k = 1 THEN ss[k] ELSE h[k - 1] \o ss[k]]

LEMMA FlatEquation ==
    ASSUME NEW h, NEW ss, NEW n, IsFlat(h, ss, n)
    PROVE  /\ DOMAIN h = 1..n
           /\ \A k \in 1..n : h[k] = IF k = 1 THEN ss[k] ELSE h[k - 1] \o ss[k]
BY DEF IsFlat

LEMMA FlatExists ==
    ASSUME NEW ss, NEW n \in Nat
    PROVE  \E h : IsFlat(h, ss, n)
<1> DEFINE B == {k \in Nat : ~ \E h : IsFlat(h, ss, k)}
<1> SUFFICES ASSUME B # {} PROVE FALSE
  OBVIOUS
<1>1. PICK k \in B : \A j \in B : k <= j
  <2>1. B \subseteq Nat
    OBVIOUS
  <2> HIDE DEF B
  <2> QED
    BY <2>1, Smallest
<1>2. k # 0
  <2>1. IsFlat(<<>>, ss, 0)
    <3>1. 1..0 = {}
      OBVIOUS
    <3> QED
      BY <3>1 DEF IsFlat
  <2> QED
    BY <2>1
<1>3. PICK h : IsFlat(h, ss, k - 1)
  <2>1. k - 1 \in Nat /\ ~(k <= k - 1)
    BY <1>2
  <2> QED
    BY <1>1, <2>1
<1> DEFINE g == [j \in 1..k |-> IF j < k THEN h[j]
                                ELSE IF j = 1 THEN ss[j] ELSE h[j - 1] \o ss[j]]
<1>4. \A j \in 1..k : g[j] = IF j = 1 THEN ss[j] ELSE g[j - 1] \o ss[j]
  <2> SUFFICES ASSUME NEW j \in 1..k PROVE g[j] = IF j = 1 THEN ss[j] ELSE g[j - 1] \o ss[j]
    OBVIOUS
  <2>1. j # 1 => j - 1 \in 1..k /\ j - 1 < k
    OBVIOUS
  <2>2. j # 1 => g[j - 1] = h[j - 1]
    BY <2>1
  <2>3. CASE j < k
    <3>1. j \in 1..(k - 1) /\ g[j] = h[j]
      BY <2>3
    <3>2. h[j] = IF j = 1 THEN ss[j] ELSE h[j - 1] \o ss[j]
      BY <1>3, <3>1, FlatEquation
    <3> QED
      BY <2>2, <3>1, <3>2
  <2>4. CASE ~(j < k)
    BY <2>2, <2>4
  <2> QED
    BY <2>3, <2>4
<1>5. g = [j \in 1..k |-> g[j]]
  OBVIOUS
<1> HIDE DEF g
<1>6. IsFlat(g, ss, k)
  BY <1>4, <1>5 DEF IsFlat
<1> QED
  BY <1>6

\* The concatenation of sequences over S is one.
LEMMA FlattenType ==
    ASSUME NEW S, NEW n \in Nat, NEW ss \in [1..n -> Seq(S)]
    PROVE  FlattenSeq(ss) \in Seq(S)
<1>1. ss \in Seq(Seq(S)) /\ Len(ss) = n
  BY AsSequence
<1>2. CASE n = 0
  BY <1>1, <1>2 DEF FlattenSeq
<1>3. CASE n # 0
  <2> DEFINE h == CHOOSE h : IsFlat(h, ss, n)
  <2>1. IsFlat(h, ss, n)
    BY FlatExists
  <2>2. FlattenSeq(ss) = h[n]
    BY <1>1, <1>3 DEF FlattenSeq, IsFlat
  <2> HIDE DEF h
  <2> DEFINE B == {k \in 1..n : h[k] \notin Seq(S)}
  <2>3. SUFFICES ASSUME B # {} PROVE FALSE
    BY <1>3, <2>2
  <2>4. PICK k \in B : \A j \in B : k <= j
    <3>1. B \subseteq Nat
      OBVIOUS
    <3> HIDE DEF B
    <3> QED
      BY <2>3, <3>1, Smallest
  <2>5. h[k] = IF k = 1 THEN ss[k] ELSE h[k - 1] \o ss[k]
    BY <2>1, FlatEquation
  <2>6. ss[k] \in Seq(S)
    OBVIOUS
  <2>7. k # 1
    BY <2>5, <2>6
  <2>8. h[k - 1] \in Seq(S)
    <3>1. k - 1 \in 1..n /\ ~(k <= k - 1)
      BY <2>7
    <3> QED
      BY <2>4, <3>1
  <2>9. h[k - 1] \o ss[k] \in Seq(S)
    BY <2>6, <2>8, ConcatProperties
  <2> QED
    BY <2>5, <2>7, <2>9
<1> QED
  BY <1>2, <1>3

LEMMA FamiliesType == \A p : \A f \in Families(p) : f \in Seq(Names)
<1>1. <<>> \in Seq(Names)
  OBVIOUS
<1>2. \A f \in SystemYields : f \in Seq(Names)
  <2>1. <<"rss", "rss_peak", "cpu">> \in Seq(Names)
    BY DEF Names
  <2>2. <<"rss_peak", "cpu">> \in Seq(Names)
    BY DEF Names
  <2> QED
    BY <2>1, <2>2 DEF SystemYields
<1>3. \A f \in RuntimeYields : f \in Seq(Names)
  <2>1. <<"uptime", "info", "threads">> \in Seq(Names)
    BY DEF Names
  <2> QED
    BY <2>1 DEF RuntimeYields
<1>4. \A f \in ConflictYields : f \in Seq(Names)
  <2>1. <<"conflicts", "conflicts">> \in Seq(Names)
    BY DEF Names
  <2> QED
    BY <2>1 DEF ConflictYields
<1>5. \A f \in ZODBYields : f \in Seq(Names)
  <2> DEFINE g == <<"object_count", "db_size", "connections", "idle", "pool_size",
                    "cache_size", "cache_bytes">>
             t == <<"loads", "stores">>
  <2>1. g \in Seq(Names) /\ t \in Seq(Names)
    BY DEF Names
  <2>2. ZODBYields = {<<>>, g, g \o t}
    BY DEF ZODBYields
  <2> HIDE DEF g, t
  <2>3. g \o t \in Seq(Names) /\ <<>> \in Seq(Names)
    BY <2>1, ConcatProperties
  <2> QED
    BY <2>1, <2>2, <2>3
<1>6. \A f \in ContentYields : f \in Seq(Names)
  <2> DEFINE lists == {<<>>, <<"by_type">>, <<"by_state">>, <<"by_type", "by_state">>}
  <2>1. lists \subseteq Seq(Names)
    <3>1. <<"by_type">> \in Seq(Names) /\ <<"by_state">> \in Seq(Names)
      BY DEF Names
    <3>2. <<"by_type", "by_state">> \in Seq(Names)
      BY DEF Names
    <3> QED
      BY <1>1, <3>1, <3>2
  <2>2. ContentYields = {FlattenSeq(sites) : sites \in [1..SiteCount -> lists]}
    BY DEF ContentYields
  <2> HIDE DEF lists
  <2>3. \A sites \in [1..SiteCount -> lists] : sites \in [1..SiteCount -> Seq(Names)]
    BY <2>1
  <2> QED
    BY <2>2, <2>3, FlattenType, ViewAssumption
<1>7. \A f \in AddonYields : f \in Seq(Names)
  <2>1. <<"addon">> \in Seq(Names) /\ <<"odd">> \in Seq(Names)
    BY DEF Names
  <2> QED
    BY <2>1 DEF AddonYields
<1> QED
  BY <1>2, <1>3, <1>4, <1>5, <1>6, <1>7 DEF Families

LEMMA SampleType ==
    ASSUME NEW p, NEW f \in Names, NEW a \in Auth \cup {""}, NEW v \in 0..MaxDuration,
           NEW b \in BOOLEAN
    PROVE  [by |-> p, family |-> f, auth |-> a, value |-> v, printable |-> b] \in SamplesOf(p)
BY DEF SamplesOf

LEMMA RequestType ==
    ASSUME NEW a \in Auth, NEW v \in 0..MaxDuration
    PROVE  /\ RequestSamples(a, v) \in Seq(SamplesOf("request"))
           /\ Len(RequestFamilies) = 6 /\ Len(RequestSamples(a, v)) = 6
           /\ \E n \in 1..6 : RequestFamilies[n] = "max"
           /\ \A n \in 1..6 : RequestFamilies[n] = "max" =>
                 LET m == RequestSamples(a, v)[n]
                 IN  m.auth = a /\ m.family = "max" /\ m.value = v
<1> DEFINE r == RequestSamples(a, v)
<1>1. Len(RequestFamilies) = 6 /\ DOMAIN RequestFamilies = 1..6
      /\ \A n \in 1..6 : RequestFamilies[n] \in Names
      /\ RequestFamilies[4] = "max"
  <2>1. RequestFamilies \in Seq(Names)
    BY DEF RequestFamilies, Names
  <2>2. Len(RequestFamilies) = 6 /\ RequestFamilies[4] = "max"
    BY DEF RequestFamilies
  <2>3. /\ DOMAIN RequestFamilies = 1..Len(RequestFamilies)
        /\ \A n \in 1..Len(RequestFamilies) : RequestFamilies[n] \in Names
    BY <2>1
  <2> QED
    BY <2>2, <2>3
<1>2. 0 \in 0..MaxDuration
  BY ViewAssumption
<1>3. \A n \in 1..6 : r[n] = [by |-> "request", family |-> RequestFamilies[n], auth |-> a,
                              value |-> IF RequestFamilies[n] = "max" THEN v ELSE 0,
                              printable |-> TRUE]
  BY <1>1 DEF RequestSamples, Sample
<1>4. ASSUME NEW n \in 1..6 PROVE r[n] \in SamplesOf("request")
  <2> DEFINE w == IF RequestFamilies[n] = "max" THEN v ELSE 0
             b == TRUE
  <2>1. RequestFamilies[n] \in Names /\ w \in 0..MaxDuration /\ b \in BOOLEAN
    BY <1>1, <1>2
  <2>2. r[n] = [by |-> "request", family |-> RequestFamilies[n], auth |-> a, value |-> w,
                printable |-> b]
    BY <1>3
  <2> HIDE DEF w, b, r
  <2> QED
    BY <2>1, <2>2, SampleType
<1>5. r \in [1..6 -> SamplesOf("request")] /\ DOMAIN r = 1..6 /\ 6 \in Nat
  <2>1. r = [n \in 1..6 |-> r[n]]
    BY <1>1 DEF RequestSamples
  <2> HIDE DEF r
  <2> QED
    BY <1>4, <2>1
<1>6. \A n \in 1..6 : RequestFamilies[n] = "max" =>
         r[n].auth = a /\ r[n].family = "max" /\ r[n].value = v
  BY <1>3
<1> HIDE DEF r
<1>7. r \in Seq(SamplesOf("request")) /\ Len(r) = 6
  BY <1>5, AsSequence
<1> QED
  BY <1>1, <1>6, <1>7 DEF r

LEMMA ClassesType == AuthClasses[1] \in Auth /\ AuthClasses[2] \in Auth
BY DEF AuthClasses, Auth

LEMMA YieldType ==
    ASSUME NEW p, NEW y \in Yields(p)
    PROVE  y \in Seq(SamplesOf(p))
<1>1. CASE p = "request"
  <2>1. PICK v \in [1..2 -> 0..MaxDuration] :
           y = RequestSamples(AuthClasses[1], v[1]) \o RequestSamples(AuthClasses[2], v[2])
    BY <1>1 DEF Yields, RequestYields
  <2> DEFINE x == RequestSamples(AuthClasses[1], v[1])
             z == RequestSamples(AuthClasses[2], v[2])
             T == SamplesOf(p)
  <2>2. v[1] \in 0..MaxDuration /\ v[2] \in 0..MaxDuration
    OBVIOUS
  <2>3. x \in Seq(T) /\ z \in Seq(T)
    BY <1>1, <2>2, ClassesType, RequestType
  <2> HIDE DEF x, z, T
  <2>4. x \o z \in Seq(T)
    BY <2>3, ConcatProperties
  <2> QED
    BY <2>1, <2>4 DEF x, z, T
<1> SUFFICES ASSUME p # "request" PROVE y \in Seq(SamplesOf(p))
  BY <1>1
<1>2. PICK f \in Families(p) :
         y = [n \in DOMAIN f |-> [Sample(p, f[n]) EXCEPT !.printable = (f[n] # "odd")]]
  BY DEF Yields
<1>3. f \in Seq(Names)
  BY FamiliesType
<1>4. Len(f) \in Nat /\ DOMAIN f = 1..Len(f) /\ \A n \in 1..Len(f) : f[n] \in Names
  BY <1>3
<1>5. ASSUME NEW n \in 1..Len(f) PROVE y[n] \in SamplesOf(p)
  <2> DEFINE b == f[n] # "odd"
  <2>1. y[n] = [by |-> p, family |-> f[n], auth |-> "", value |-> 0, printable |-> b]
    BY <1>2, <1>4 DEF Sample
  <2>2. f[n] \in Names /\ 0 \in 0..MaxDuration /\ b \in BOOLEAN
    BY <1>4, ViewAssumption
  <2> HIDE DEF b
  <2> QED
    BY <2>1, <2>2, SampleType
<1>6. y \in [1..Len(f) -> SamplesOf(p)]
  BY <1>2, <1>4, <1>5
<1> QED
  BY <1>4, <1>6, AsSequence

LEMMA RequestYield ==
    ASSUME NEW v \in 0..MaxDuration, NEW w \in 0..MaxDuration
    PROVE  RequestSamples(AuthClasses[1], v) \o RequestSamples(AuthClasses[2], w)
              \in Yields("request")
<1> DEFINE u == [n \in 1..2 |-> IF n = 1 THEN v ELSE w]
<1>1. u \in [1..2 -> 0..MaxDuration] /\ u[1] = v /\ u[2] = w
  OBVIOUS
<1> HIDE DEF u
<1>2. RequestSamples(AuthClasses[1], u[1]) \o RequestSamples(AuthClasses[2], u[2])
         \in RequestYields
  BY <1>1 DEF RequestYields
<1> QED
  BY <1>1, <1>2 DEF Yields

-----------------------------------------------------------------------------
(* The lines of the text format.                                           *)

LEMMA MaxMember ==
    ASSUME NEW n \in Nat, NEW T, T \subseteq 1..n, T # {}
    PROVE  Max(T) \in T /\ \A x \in T : x <= Max(T)
<1> DEFINE B == {k \in Nat : \A x \in T : x <= k}
<1>1. n \in B
  OBVIOUS
<1>2. PICK k \in B : \A j \in B : k <= j
  <2>1. B \subseteq Nat /\ B # {}
    BY <1>1
  <2> HIDE DEF B
  <2> QED
    BY <2>1, Smallest
<1>3. k \in T
  <2> SUFFICES ASSUME k \notin T PROVE FALSE
    OBVIOUS
  <2>1. \A x \in T : x \in 1..n /\ x <= k /\ x # k
    OBVIOUS
  <2>2. k - 1 \in B
    <3>1. \A x \in T : x <= k - 1 /\ 1 <= k
      BY <2>1
    <3>2. k - 1 \in Nat
      <4>1. PICK x \in T : TRUE
        OBVIOUS
      <4>2. 1 <= k
        BY <3>1, <4>1
      <4> QED
        BY <4>2
    <3> QED
      BY <3>1, <3>2
  <2>3. k <= k - 1
    BY <1>2, <2>2
  <2> QED
    BY <2>3
<1>4. \E x \in T : \A y \in T : x >= y
  BY <1>3
<1> QED
  BY <1>4 DEF Max

\* A set of places in a sequence.
Places(S) == \E n \in Nat : S \subseteq 1..n

LEMMA PlacesType ==
    ASSUME NEW S, Places(S)
    PROVE  /\ IsFiniteSet(S)
           /\ \A T \in SUBSET S : Places(T) /\ (T # {} => Max(T) \in T)
<1>1. PICK n \in Nat : S \subseteq 1..n
  BY DEF Places
<1>2. IsFiniteSet(1..n)
  BY FS_Interval
<1>3. IsFiniteSet(S)
  BY <1>1, <1>2, FS_Subset
<1>4. ASSUME NEW T \in SUBSET S PROVE Places(T) /\ (T # {} => Max(T) \in T)
  <2>1. T \subseteq 1..n
    BY <1>1
  <2>2. Places(T)
    BY <2>1 DEF Places
  <2> QED
    BY <2>1, <2>2, MaxMember
<1> QED
  BY <1>3, <1>4

\* The equation of the fold's iteration.
IsPrinted(h, ms, S) ==
    h = [T \in SUBSET S |->
            IF T = {} THEN <<>> ELSE Printed(h[T \ {Max(T)}], ms[Max(T)])]

LEMMA PrintedEquation ==
    ASSUME NEW h, NEW ms, NEW S, IsPrinted(h, ms, S)
    PROVE  /\ h[{}] = <<>>
           /\ \A T \in SUBSET S : T # {} => h[T] = Printed(h[T \ {Max(T)}], ms[Max(T)])
BY DEF IsPrinted

LEMMA OnePrinted ==
    ASSUME NEW ms, NEW S, Places(S), NEW g, NEW h, NEW R,
           IsPrinted(g, ms, R), IsPrinted(h, ms, S), S \subseteq R
    PROVE  \A T \in SUBSET S : g[T] = h[T]
<1> DEFINE B == {T \in SUBSET S : g[T] # h[T]}
<1> SUFFICES ASSUME B # {} PROVE FALSE
  OBVIOUS
<1>1. PICK T \in B : \A U \in B : ~(U \subseteq T /\ U # T)
  <2>1. B \subseteq SUBSET S
    OBVIOUS
  <2>2. IsFiniteSet(S)
    BY PlacesType
  <2> HIDE DEF B
  <2> QED
    BY <2>1, <2>2, SmallestSet
<1>2. T # {}
  BY PrintedEquation
<1>3. Max(T) \in T
  BY <1>2, PlacesType
<1>4. g[T \ {Max(T)}] = h[T \ {Max(T)}]
  BY <1>1, <1>3
<1>5. T \in SUBSET S /\ T \in SUBSET R
  OBVIOUS
<1>6. g[T] = Printed(g[T \ {Max(T)}], ms[Max(T)])
  BY <1>2, <1>5, PrintedEquation
<1>7. h[T] = Printed(h[T \ {Max(T)}], ms[Max(T)])
  BY <1>2, <1>5, PrintedEquation
<1> QED
  BY <1>4, <1>6, <1>7

LEMMA PrintedExists ==
    ASSUME NEW ms, NEW S, Places(S)
    PROVE  \E h : IsPrinted(h, ms, S)
<1> DEFINE B == {T \in SUBSET S : ~ \E h : IsPrinted(h, ms, T)}
<1> SUFFICES ASSUME B # {} PROVE FALSE
  OBVIOUS
<1>1. PICK T \in B : \A U \in B : ~(U \subseteq T /\ U # T)
  <2>1. B \subseteq SUBSET S
    OBVIOUS
  <2>2. IsFiniteSet(S)
    BY PlacesType
  <2> HIDE DEF B
  <2> QED
    BY <2>1, <2>2, SmallestSet
<1> DEFINE H(U) == CHOOSE h : IsPrinted(h, ms, U)
           value(U) == IF U = {} THEN <<>>
                       ELSE Printed(H(U \ {Max(U)})[U \ {Max(U)}], ms[Max(U)])
           g == [U \in SUBSET T |-> value(U)]
<1>2. ASSUME NEW U \in SUBSET T, U # T PROVE IsPrinted(H(U), ms, U) /\ Places(U)
  <2>1. \E h : IsPrinted(h, ms, U)
    BY <1>1, <1>2
  <2>2. IsPrinted(H(U), ms, U)
    BY <2>1
  <2> QED
    BY <2>2, PlacesType
<1> HIDE DEF H
<1>3. ASSUME NEW U \in SUBSET T, U # T PROVE H(U)[U] = value(U)
  <2>1. IsPrinted(H(U), ms, U)
    BY <1>2, <1>3
  <2>2. CASE U = {}
    BY <2>1, <2>2, PrintedEquation
  <2>3. CASE U # {}
    <3> DEFINE V == U \ {Max(U)}
    <3>1. V \in SUBSET T /\ V \subseteq U /\ V # T /\ U \in SUBSET U /\ V \in SUBSET V
      BY <1>2, <1>3, <2>3, PlacesType
    <3>2. IsPrinted(H(V), ms, V) /\ Places(V)
      BY <1>2, <3>1
    <3>3. H(U)[V] = H(V)[V]
      <4> DEFINE d == H(U)
                 e == H(V)
      <4> HIDE DEF d, e
      <4>1. IsPrinted(d, ms, U) /\ IsPrinted(e, ms, V)
        BY <2>1, <3>2 DEF d, e
      <4> HIDE DEF V
      <4>2. \A W \in SUBSET V : d[W] = e[W]
        BY <3>1, <3>2, <4>1, OnePrinted
      <4> QED
        BY <3>1, <4>2 DEF d, e
    <3>4. H(U)[U] = Printed(H(U)[V], ms[Max(U)])
      <4> DEFINE d == H(U)
      <4>1. IsPrinted(d, ms, U) /\ U \in SUBSET U
        BY <2>1
      <4> HIDE DEF d
      <4>2. d[U] = Printed(d[U \ {Max(U)}], ms[Max(U)])
        BY <2>3, <4>1, PrintedEquation
      <4> QED
        BY <4>2 DEF d
    <3> QED
      BY <2>3, <3>3, <3>4
  <2> QED
    BY <2>2, <2>3
<1>4. ASSUME NEW U \in SUBSET T, U # {}
      PROVE  g[U] = Printed(g[U \ {Max(U)}], ms[Max(U)])
  <2> DEFINE V == U \ {Max(U)}
  <2>1. V \in SUBSET T /\ V # T
    BY <1>4, PlacesType
  <2>2. g[V] = H(V)[V]
    BY <1>3, <2>1
  <2> QED
    BY <1>4, <2>2
<1>5. g[{}] = <<>>
  OBVIOUS
<1>6. IsPrinted(g, ms, T)
  <2> HIDE DEF value
  <2>1. \A U \in SUBSET T :
           g[U] = IF U = {} THEN <<>> ELSE Printed(g[U \ {Max(U)}], ms[Max(U)])
    BY <1>4, <1>5
  <2>2. g = [U \in SUBSET T |-> g[U]]
    OBVIOUS
  <2> HIDE DEF g
  <2> QED
    BY <2>1, <2>2 DEF IsPrinted
<1> QED
  BY <1>1, <1>6

\* What has been printed after each of the samples.
LEMMA LinesUnfold ==
    ASSUME NEW ms, NEW n \in Nat, DOMAIN ms = 1..n
    PROVE  \E p : /\ p[0] = <<>> /\ p[n] = Lines(ms)
                  /\ \A k \in 1..n : p[k] = Printed(p[k - 1], ms[k])
<1> DEFINE h == CHOOSE h : IsPrinted(h, ms, 1..n)
           p == [k \in 0..n |-> h[1..k]]
<1>1. IsPrinted(h, ms, 1..n)
  <2>1. Places(1..n)
    BY DEF Places
  <2> QED
    BY <2>1, PrintedExists
<1>2. Lines(ms) = h[1..n]
  BY DEF Lines, FoldLeft, MapThenFoldSet, IsPrinted
<1> HIDE DEF h
<1>3. \A T \in SUBSET (1..n) : T # {} => h[T] = Printed(h[T \ {Max(T)}], ms[Max(T)])
  <2> DEFINE S == 1..n
  <2>1. IsPrinted(h, ms, S)
    BY <1>1
  <2> HIDE DEF S
  <2>2. \A T \in SUBSET S : T # {} => h[T] = Printed(h[T \ {Max(T)}], ms[Max(T)])
    BY <2>1, PrintedEquation
  <2> QED
    BY <2>2 DEF S
<1>4. p[0] = <<>> /\ p[n] = Lines(ms)
  <2>1. 1..0 = {} /\ 0 \in 0..n /\ n \in 0..n
    OBVIOUS
  <2> QED
    BY <1>1, <1>2, <2>1, PrintedEquation
<1>5. ASSUME NEW k \in 1..n PROVE p[k] = Printed(p[k - 1], ms[k])
  <2> DEFINE T == 1..k
  <2>1. T # {} /\ T \in SUBSET (1..n) /\ k \in T /\ \A x \in T : x <= k
    OBVIOUS
  <2>2. Max(T) \in T /\ k <= Max(T)
    BY <2>1, MaxMember
  <2>3. Max(T) = k
    BY <2>1, <2>2
  <2>4. T \ {k} = 1..(k - 1)
    OBVIOUS
  <2> HIDE DEF T
  <2>5. h[T] = Printed(h[T \ {k}], ms[k])
    <3>1. h[T] = Printed(h[T \ {Max(T)}], ms[Max(T)])
      BY <1>3, <2>1
    <3> QED
      BY <2>3, <3>1
  <2>6. p[k] = h[T]
    BY DEF T
  <2>7. p[k - 1] = h[T \ {k}]
    <3>1. k - 1 \in 0..n
      OBVIOUS
    <3>2. p[k - 1] = h[1..(k - 1)]
      BY <3>1
    <3> QED
      BY <2>4, <3>2
  <2> QED
    BY <2>5, <2>6, <2>7
<1> QED
  BY <1>4, <1>5

Texts ==
    {<<"header", f>> : f \in Names}
        \cup {<<"sample", f, a, v>> : f \in Names, a \in Auth \cup {""}, v \in 0..MaxDuration}

LEMMA TextOf ==
    ASSUME NEW m \in Samples
    PROVE  /\ Header(m) \in Texts /\ Header(m)[1] = "header"
           /\ Line(m) \in Texts /\ Line(m)[1] = "sample" /\ Line(m)[2] = m.family
<1>1. m.family \in Names /\ m.auth \in Auth \cup {""} /\ m.value \in 0..MaxDuration
  BY DEF Samples
<1> DEFINE H == {<<"header", f>> : f \in Names}
           L == {<<"sample", f, a, v>> :
                    f \in Names, a \in Auth \cup {""}, v \in 0..MaxDuration}
<1>2. Header(m) \in H
  BY <1>1 DEF Header
<1>3. Line(m) \in L
  <2> DEFINE g == m.family
             b == m.auth
             w == m.value
             Auths == Auth \cup {""}
             Values == 0..MaxDuration
  <2>1. g \in Names /\ b \in Auths /\ w \in Values
    BY <1>1
  <2>2. Line(m) = <<"sample", g, b, w>>
    BY DEF Line
  <2> HIDE DEF g, b, w, Auths, Values
  <2>3. <<"sample", g, b, w>> \in {<<"sample", f, a, v>> : f \in Names, a \in Auths, v \in Values}
    BY <2>1
  <2> DEFINE M == {<<"sample", f, a, v>> : f \in Names, a \in Auths, v \in Values}
  <2>4. M = L
    BY DEF Auths, Values
  <2> HIDE DEF M, L
  <2> QED
    BY <2>2, <2>3, <2>4 DEF M
<1>4. Texts = H \cup L
  BY DEF Texts
<1>5. Header(m)[1] = "header" /\ Line(m)[1] = "sample" /\ Line(m)[2] = m.family
  BY DEF Header, Line
<1> HIDE DEF H, L
<1> QED
  BY <1>2, <1>3, <1>4, <1>5

\* How many of the first n lines are samples.
SamplesIn(out, n) == Cardinality({k \in 1..n : out[k][1] = "sample"})

\* A header for each sample's name above it, and no header twice.
Announced(out) ==
    /\ \A j, k \in 1..Len(out) : out[j][1] = "header" /\ out[j] = out[k] => j = k
    /\ \A n \in 1..Len(out) : out[n][1] = "sample" =>
          \E h \in 1..n : out[h] = <<"header", out[n][2]>>

\* The samples are the first c of ms, all of them, in their order.
Numbered(out, ms, c) ==
    /\ SamplesIn(out, Len(out)) = c
    /\ \A n \in 1..Len(out) : out[n][1] = "sample" => out[n] = Line(ms[SamplesIn(out, n)])
    /\ \A k \in 1..c : \E n \in 1..Len(out) : out[n] = Line(ms[k])

Prints(out, ms, c) == out \in Seq(Texts) /\ Announced(out) /\ Numbered(out, ms, c)

LEMMA SamplesInAppend ==
    ASSUME NEW out \in Seq(Texts), NEW l \in Texts
    PROVE  LET new == Append(out, l) IN
           /\ \A n \in 1..Len(out) : SamplesIn(new, n) = SamplesIn(out, n)
           /\ SamplesIn(out, Len(out)) \in Nat
           /\ SamplesIn(new, Len(out) + 1) =
                 SamplesIn(out, Len(out)) + IF l[1] = "sample" THEN 1 ELSE 0
<1> DEFINE new == Append(out, l)
           N == Len(out)
           At(o, n) == {k \in 1..n : o[k][1] = "sample"}
<1>1. N \in Nat /\ \A k \in 1..N : new[k] = out[k]
  OBVIOUS
<1>2. new[N + 1] = l
  OBVIOUS
<1> HIDE DEF new, N
<1>3. \A n \in 1..N : At(new, n) = At(out, n)
  BY <1>1
<1>4. At(new, N) = At(out, N)
  BY <1>1
<1>5. IsFiniteSet(At(out, N))
  <2>1. IsFiniteSet(1..N)
    BY <1>1, FS_Interval
  <2> QED
    BY <2>1, FS_Subset
<1>6. N + 1 \notin At(out, N)
  BY <1>1
<1>7. At(new, N + 1) = IF l[1] = "sample" THEN At(out, N) \cup {N + 1} ELSE At(out, N)
  <2>1. 1..(N + 1) = 1..N \cup {N + 1}
    BY <1>1
  <2> QED
    BY <1>1, <1>2, <1>6, <2>1
<1> DEFINE A == At(out, N)
           B == At(new, N + 1)
           x == N + 1
<1> HIDE DEF At
<1>8. Cardinality(A) \in Nat
  BY <1>5, FS_CardinalityType
<1>9. Cardinality(B) = Cardinality(A) + IF l[1] = "sample" THEN 1 ELSE 0
  <2>1. CASE l[1] = "sample"
    <3>1. B = A \cup {x} /\ x \notin A /\ IsFiniteSet(A)
      BY <1>5, <1>6, <1>7, <2>1
    <3> HIDE DEF A, B, x
    <3>2. Cardinality(A \cup {x}) = Cardinality(A) + 1
      BY <3>1, FS_AddElement
    <3> QED
      BY <2>1, <3>1, <3>2
  <2>2. CASE l[1] # "sample"
    <3>1. B = A
      BY <1>7, <2>2
    <3> HIDE DEF A, B
    <3> QED
      BY <1>8, <2>2, <3>1
  <2> QED
    BY <2>1, <2>2
<1>10. \A o, n : SamplesIn(o, n) = Cardinality(At(o, n))
  BY DEF SamplesIn, At
<1> QED
  BY <1>3, <1>8, <1>9, <1>10 DEF new, N

LEMMA PrintsHeader ==
    ASSUME NEW ms, NEW c \in Nat, NEW out, Prints(out, ms, c),
           NEW l \in Texts, l[1] = "header", \A n \in 1..Len(out) : out[n] # l
    PROVE  Prints(Append(out, l), ms, c)
<1> DEFINE new == Append(out, l)
           N == Len(out)
<1>1. out \in Seq(Texts) /\ Announced(out) /\ Numbered(out, ms, c)
  BY DEF Prints
<1>2. /\ new \in Seq(Texts) /\ Len(new) = N + 1 /\ N \in Nat
      /\ \A k \in 1..N : new[k] = out[k]
      /\ new[N + 1] = l
  BY <1>1
<1>3. /\ \A n \in 1..N : SamplesIn(new, n) = SamplesIn(out, n)
      /\ SamplesIn(out, N) \in Nat /\ SamplesIn(new, N + 1) = SamplesIn(out, N)
  <2>1. l[1] # "sample"
    OBVIOUS
  <2> QED
    BY <1>1, <2>1, SamplesInAppend
<1>4. \A n \in 1..(N + 1) : n \in 1..N \/ n = N + 1
  BY <1>2
<1>5. \A n \in 1..N : out[n] # l
  OBVIOUS
<1> HIDE DEF new
<1>6. Announced(new)
  <2>1. ASSUME NEW j \in 1..Len(new), NEW k \in 1..Len(new), new[j][1] = "header",
               new[j] = new[k]
        PROVE  j = k
    BY <1>1, <1>2, <1>4, <1>5, <2>1 DEF Announced
  <2>2. ASSUME NEW n \in 1..Len(new), new[n][1] = "sample"
        PROVE  \E h \in 1..n : new[h] = <<"header", new[n][2]>>
    <3>1. n \in 1..N /\ new[n] = out[n]
      BY <1>2, <1>4, <2>2
    <3>2. PICK h \in 1..n : out[h] = <<"header", out[n][2]>>
      BY <1>1, <2>2, <3>1 DEF Announced
    <3> QED
      BY <1>2, <3>1, <3>2
  <2> QED
    BY <2>1, <2>2 DEF Announced
<1>7. Numbered(new, ms, c)
  <2>1. SamplesIn(new, Len(new)) = c
    BY <1>1, <1>2, <1>3 DEF Numbered
  <2>2. ASSUME NEW n \in 1..Len(new), new[n][1] = "sample"
        PROVE  new[n] = Line(ms[SamplesIn(new, n)])
    <3>1. n \in 1..N /\ new[n] = out[n]
      BY <1>2, <1>4, <2>2
    <3> QED
      BY <1>1, <1>3, <2>2, <3>1 DEF Numbered
  <2>3. ASSUME NEW k \in 1..c PROVE \E n \in 1..Len(new) : new[n] = Line(ms[k])
    <3>1. PICK n \in 1..N : out[n] = Line(ms[k])
      BY <1>1 DEF Numbered
    <3>2. n \in 1..Len(new) /\ new[n] = Line(ms[k])
      BY <1>2, <3>1
    <3> QED
      BY <3>2
  <2> QED
    BY <2>1, <2>2, <2>3 DEF Numbered
<1> QED
  BY <1>2, <1>6, <1>7 DEF Prints, new

LEMMA PrintsLine ==
    ASSUME NEW ms, NEW c \in Nat, NEW out, Prints(out, ms, c),
           NEW l \in Texts, l[1] = "sample", l = Line(ms[c + 1]),
           \E n \in 1..Len(out) : out[n] = <<"header", l[2]>>
    PROVE  Prints(Append(out, l), ms, c + 1)
<1> DEFINE new == Append(out, l)
           N == Len(out)
<1>1. out \in Seq(Texts) /\ Announced(out) /\ Numbered(out, ms, c)
  BY DEF Prints
<1>2. /\ new \in Seq(Texts) /\ Len(new) = N + 1 /\ N \in Nat
      /\ \A k \in 1..N : new[k] = out[k]
      /\ new[N + 1] = l
  BY <1>1
<1>3. /\ \A n \in 1..N : SamplesIn(new, n) = SamplesIn(out, n)
      /\ SamplesIn(out, N) = c /\ SamplesIn(new, N + 1) = c + 1
  BY <1>1, SamplesInAppend DEF Numbered
<1>4. \A n \in 1..(N + 1) : n \in 1..N \/ n = N + 1
  BY <1>2
<1>5. PICK g \in 1..N : out[g] = <<"header", l[2]>>
  OBVIOUS
<1> HIDE DEF new
<1>6. Announced(new)
  <2>1. ASSUME NEW j \in 1..Len(new), NEW k \in 1..Len(new), new[j][1] = "header",
               new[j] = new[k]
        PROVE  j = k
    <3>1. j # N + 1 /\ k # N + 1
      BY <1>2, <2>1
    <3> QED
      BY <1>1, <1>2, <1>4, <2>1, <3>1 DEF Announced
  <2>2. ASSUME NEW n \in 1..Len(new), new[n][1] = "sample"
        PROVE  \E h \in 1..n : new[h] = <<"header", new[n][2]>>
    <3>1. CASE n \in 1..N
      <4>1. new[n] = out[n]
        BY <1>2, <3>1
      <4>2. PICK h \in 1..n : out[h] = <<"header", out[n][2]>>
        BY <1>1, <2>2, <3>1, <4>1 DEF Announced
      <4> QED
        BY <1>2, <3>1, <4>1, <4>2
    <3>2. CASE n = N + 1
      <4>1. g \in 1..n /\ new[g] = out[g] /\ new[n] = l
        BY <1>2, <3>2
      <4> QED
        BY <1>5, <4>1
    <3> QED
      BY <1>2, <1>4, <3>1, <3>2
  <2> QED
    BY <2>1, <2>2 DEF Announced
<1>7. Numbered(new, ms, c + 1)
  <2>1. SamplesIn(new, Len(new)) = c + 1
    BY <1>2, <1>3
  <2>2. ASSUME NEW n \in 1..Len(new), new[n][1] = "sample"
        PROVE  new[n] = Line(ms[SamplesIn(new, n)])
    <3>1. CASE n \in 1..N
      <4>1. new[n] = out[n] /\ SamplesIn(new, n) = SamplesIn(out, n)
        BY <1>2, <1>3, <3>1
      <4> QED
        BY <1>1, <2>2, <3>1, <4>1 DEF Numbered
    <3>2. CASE n = N + 1
      BY <1>2, <1>3, <3>2
    <3> QED
      BY <1>2, <1>4, <3>1, <3>2
  <2>3. ASSUME NEW k \in 1..(c + 1) PROVE \E n \in 1..Len(new) : new[n] = Line(ms[k])
    <3>1. CASE k \in 1..c
      <4>1. PICK n \in 1..N : out[n] = Line(ms[k])
        BY <1>1, <3>1 DEF Numbered
      <4>2. n \in 1..Len(new) /\ new[n] = Line(ms[k])
        BY <1>2, <4>1
      <4> QED
        BY <4>2
    <3>2. CASE k = c + 1
      <4>1. N + 1 \in 1..Len(new) /\ new[N + 1] = Line(ms[k])
        BY <1>2, <3>2
      <4> QED
        BY <4>1
    <3> QED
      BY <3>1, <3>2
  <2> QED
    BY <2>1, <2>2, <2>3 DEF Numbered
<1> QED
  BY <1>2, <1>6, <1>7 DEF Prints, new

LEMMA PrintedOne ==
    ASSUME NEW ms, NEW c \in Nat, NEW out, Prints(out, ms, c), ms[c + 1] \in Samples
    PROVE  Prints(Printed(out, ms[c + 1]), ms, c + 1)
<1> DEFINE m == ms[c + 1]
           h == Header(m)
           l == Line(m)
<1>1. h \in Texts /\ h[1] = "header" /\ l \in Texts /\ l[1] = "sample"
      /\ h = <<"header", l[2]>>
  BY TextOf DEF Header
<1>2. out \in Seq(Texts)
  BY DEF Prints
<1>3. Printed(out, m) = IF \E n \in 1..Len(out) : out[n] = h THEN Append(out, l)
                        ELSE Append(Append(out, h), l)
  <2>1. DOMAIN out = 1..Len(out)
    BY <1>2
  <2> HIDE DEF m, h, l
  <2>2. out \o <<h, l>> = Append(Append(out, h), l)
    BY <1>1, <1>2
  <2> QED
    BY <2>1, <2>2 DEF Printed, h, l
<1>4. CASE \E n \in 1..Len(out) : out[n] = h
  <2>1. \E n \in 1..Len(out) : out[n] = <<"header", l[2]>>
    BY <1>1, <1>4
  <2>2. Prints(Append(out, l), ms, c + 1)
    BY <1>1, <2>1, PrintsLine
  <2> QED
    BY <1>3, <1>4, <2>2
<1>5. CASE ~ \E n \in 1..Len(out) : out[n] = h
  <2> DEFINE o == Append(out, h)
  <2>1. Prints(o, ms, c)
    BY <1>1, <1>5, PrintsHeader
  <2>2. Len(out) + 1 \in 1..Len(o) /\ o[Len(out) + 1] = h
    BY <1>1, <1>2
  <2> HIDE DEF o
  <2>3. \E n \in 1..Len(o) : o[n] = <<"header", l[2]>>
    BY <1>1, <2>2
  <2>4. Prints(Append(o, l), ms, c + 1)
    BY <1>1, <2>1, <2>3, PrintsLine
  <2> QED
    BY <1>3, <1>5, <2>4 DEF o
<1> QED
  BY <1>4, <1>5

LEMMA LinesArePrinted ==
    ASSUME NEW ms \in Seq(Samples)
    PROVE  Prints(Lines(ms), ms, Len(ms))
<1> DEFINE n == Len(ms)
<1>1. n \in Nat /\ DOMAIN ms = 1..n /\ \A k \in 1..n : ms[k] \in Samples
  OBVIOUS
<1>2. PICK p : /\ p[0] = <<>> /\ p[n] = Lines(ms)
               /\ \A k \in 1..n : p[k] = Printed(p[k - 1], ms[k])
  BY <1>1, LinesUnfold
<1> HIDE DEF n
<1> DEFINE B == {k \in 0..n : ~Prints(p[k], ms, k)}
<1>3. CASE B = {}
  BY <1>1, <1>2, <1>3 DEF n
<1>4. CASE B # {}
  <2>1. PICK k \in B : \A j \in B : k <= j
    <3>1. B \subseteq Nat
      BY <1>1
    <3> HIDE DEF B
    <3> QED
      BY <1>4, <3>1, Smallest
  <2>2. k # 0
    <3>1. Len(<<>>) = 0 /\ <<>> \in Seq(Texts) /\ 1..0 = {}
      OBVIOUS
    <3>2. SamplesIn(<<>>, 0) = 0
      BY <3>1, FS_EmptySet DEF SamplesIn
    <3>3. Prints(<<>>, ms, 0)
      BY <3>1, <3>2 DEF Prints, Announced, Numbered
    <3> QED
      BY <1>2, <3>3
  <2> DEFINE c == k - 1
  <2>3. c \in Nat /\ c \in 0..n /\ k = c + 1 /\ k \in 1..n /\ ~(k <= c)
    BY <1>1, <2>2
  <2>4. Prints(p[c], ms, c)
    BY <2>1, <2>3
  <2>5. p[k] = Printed(p[c], ms[c + 1])
    BY <1>2, <2>3
  <2> HIDE DEF c
  <2>6. Prints(Printed(p[c], ms[c + 1]), ms, c + 1)
    BY <1>1, <2>3, <2>4, PrintedOne
  <2> QED
    BY <2>3, <2>5, <2>6
<1> QED
  BY <1>3, <1>4

-----------------------------------------------------------------------------
(* The list of samples.                                                    *)

LEMMA Appended ==
    ASSUME NEW ms \in Seq(Samples), NEW q \in Providers, NEW y \in Seq(SamplesOf(q))
    PROVE  LET new == ms \o y IN
           /\ new \in Seq(Samples) /\ Len(new) = Len(ms) + Len(y)
           /\ Len(ms) \in Nat /\ Len(y) \in Nat
           /\ DOMAIN ms = 1..Len(ms) /\ DOMAIN new = 1..Len(new)
           /\ \A n \in 1..Len(ms) : new[n] = ms[n]
           /\ \A n \in 1..Len(y) : new[Len(ms) + n] = y[n]
           /\ \A n \in 1..Len(new) : n \notin 1..Len(ms) => new[n].by = q
<1> DEFINE new == ms \o y
<1>1. SamplesOf(q) \subseteq Samples
  BY DEF SamplesOf, Samples
<1>2. y \in Seq(Samples)
  BY <1>1, SeqMonotonic
<1>3. /\ new \in Seq(Samples) /\ Len(new) = Len(ms) + Len(y)
      /\ \A n \in 1..(Len(ms) + Len(y)) :
            new[n] = IF n <= Len(ms) THEN ms[n] ELSE y[n - Len(ms)]
  BY <1>2, ConcatProperties
<1>4. Len(ms) \in Nat /\ Len(y) \in Nat
  OBVIOUS
<1> HIDE DEF new
<1>5. DOMAIN ms = 1..Len(ms) /\ DOMAIN new = 1..Len(new)
  BY <1>3
<1>6. \A n \in 1..Len(ms) : new[n] = ms[n]
  BY <1>3, <1>4
<1>7. \A n \in 1..Len(y) : new[Len(ms) + n] = y[n]
  BY <1>3, <1>4
<1>8. ASSUME NEW n \in 1..Len(new), n \notin 1..Len(ms) PROVE new[n].by = q
  <2>1. n - Len(ms) \in 1..Len(y) /\ new[n] = y[n - Len(ms)]
    BY <1>3, <1>4, <1>8
  <2>2. y[n - Len(ms)] \in SamplesOf(q)
    BY <2>1
  <2> QED
    BY <2>1, <2>2 DEF SamplesOf
<1> QED
  BY <1>3, <1>4, <1>5, <1>6, <1>7, <1>8 DEF new

\* What one provider adds is apart from what is there of the others.
LEMMA OthersStand ==
    ASSUME NEW ms \in Seq(Samples), NEW q \in Providers, NEW y \in Seq(SamplesOf(q)),
           NEW p, p # q
    PROVE  /\ \A s : Len(s) \in Nat /\ Stands(ms, p, s) => Stands(ms \o y, p, s)
           /\ Nothing(ms, p) => Nothing(ms \o y, p)
<1> DEFINE new == ms \o y
           N == Len(ms)
<1>1. /\ Len(new) = N + Len(y) /\ N \in Nat /\ Len(y) \in Nat
      /\ DOMAIN ms = 1..N /\ DOMAIN new = 1..Len(new)
      /\ \A n \in 1..N : new[n] = ms[n]
      /\ \A n \in 1..Len(new) : n \notin 1..N => new[n].by = q
  BY Appended
<1> HIDE DEF new
<1>2. {n \in DOMAIN new : new[n].by = p} = {n \in DOMAIN ms : ms[n].by = p}
  <2>1. \A n \in 1..N : n \in 1..Len(new)
    BY <1>1
  <2> QED
    BY <1>1, <2>1
<1>3. ASSUME NEW s, Len(s) \in Nat, Stands(ms, p, s) PROVE Stands(new, p, s)
  <2>1. PICK a \in 0..N : /\ {n \in DOMAIN ms : ms[n].by = p} = (a + 1)..(a + Len(s))
                          /\ \A n \in 1..Len(s) : ms[a + n] = s[n]
    BY <1>3 DEF Stands
  <2>2. \A n \in 1..Len(s) : a + n \in (a + 1)..(a + Len(s))
    BY <1>1, <1>3
  <2>3. \A n \in 1..Len(s) : a + n \in 1..N
    BY <1>1, <2>1, <2>2
  <2>4. \A n \in 1..Len(s) : new[a + n] = s[n]
    BY <1>1, <2>1, <2>3
  <2>5. a \in 0..Len(new)
    BY <1>1
  <2> QED
    BY <1>2, <2>1, <2>4, <2>5 DEF Stands
<1>4. Nothing(ms, p) => Nothing(new, p)
  BY <1>1 DEF Nothing
<1> QED
  BY <1>3, <1>4 DEF new

LEMMA NewStands ==
    ASSUME NEW ms \in Seq(Samples), NEW q \in Providers, NEW y \in Seq(SamplesOf(q)),
           Nothing(ms, q)
    PROVE  Stands(ms \o y, q, y)
<1> DEFINE new == ms \o y
           N == Len(ms)
<1>1. /\ Len(new) = N + Len(y) /\ N \in Nat /\ Len(y) \in Nat
      /\ DOMAIN ms = 1..N /\ DOMAIN new = 1..Len(new)
      /\ \A n \in 1..N : new[n] = ms[n]
      /\ \A n \in 1..Len(y) : new[N + n] = y[n]
      /\ \A n \in 1..Len(new) : n \notin 1..N => new[n].by = q
  BY Appended
<1> HIDE DEF new
<1>2. \A n \in 1..N : new[n].by # q
  BY <1>1 DEF Nothing
<1>3. {n \in DOMAIN new : new[n].by = q} = (N + 1)..(N + Len(y))
  <2>1. \A n : n \in 1..Len(new) /\ n \notin 1..N <=> n \in (N + 1)..(N + Len(y))
    BY <1>1
  <2> QED
    BY <1>1, <1>2, <2>1
<1>4. N \in 0..Len(new)
  BY <1>1
<1> QED
  BY <1>1, <1>3, <1>4 DEF Stands, new

LEMMA StandingIsContribution ==
    ASSUME metrics \in Seq(Samples), NEW p, NEW y \in Seq(SamplesOf(p)),
           Stands(metrics, p, y)
    PROVE  Contribution(p) = y
<1> DEFINE places == {n \in DOMAIN metrics : metrics[n].by = p}
           N == Len(metrics)
           L == Len(y)
<1>1. N \in Nat /\ L \in Nat /\ DOMAIN metrics = 1..N
      /\ \A n \in 1..N : metrics[n] \in Samples
  OBVIOUS
<1>2. PICK a \in 0..N : /\ places = (a + 1)..(a + L)
                        /\ \A n \in 1..L : metrics[a + n] = y[n]
  BY DEF Stands
<1>3. places \subseteq 1..N
  BY <1>1
<1>4. Contribution(p) = IF places = {} THEN <<>> ELSE SubSeq(metrics, Min(places), Max(places))
  BY DEF Contribution
<1> HIDE DEF places
<1>5. CASE L = 0
  <2>1. places = {}
    BY <1>1, <1>2, <1>5
  <2>2. y = <<>>
    BY <1>5
  <2> QED
    BY <1>4, <2>1, <2>2
<1>6. CASE L # 0
  <2>1. a \in Nat /\ a + 1 \in places /\ a + L \in places
    BY <1>1, <1>2, <1>6
  <2>2. places # {} /\ a + L <= N
    BY <1>1, <1>3, <2>1
  <2>3. Min(places) = a + 1
    <3>1. \A x \in places : a + 1 <= x
      BY <1>1, <1>2
    <3>2. Min(places) \in places /\ \A x \in places : Min(places) <= x
      BY <2>1, <3>1 DEF Min
    <3>3. a + 1 <= Min(places) /\ Min(places) <= a + 1 /\ Min(places) \in 1..N
      BY <1>3, <2>1, <3>1, <3>2
    <3> QED
      BY <1>1, <2>1, <3>3
  <2>4. Max(places) = a + L
    <3>1. \A x \in places : x <= a + L
      BY <1>1, <1>2
    <3>2. Max(places) \in places /\ \A x \in places : x <= Max(places)
      BY <1>1, <1>3, <2>2, MaxMember
    <3>3. a + L <= Max(places) /\ Max(places) <= a + L /\ Max(places) \in 1..N
      BY <1>3, <2>1, <3>1, <3>2
    <3> QED
      BY <1>1, <2>1, <3>3
  <2> DEFINE c == SubSeq(metrics, a + 1, a + L)
             T == SamplesOf(p)
  <2>5. \A n \in (a + 1)..(a + L) : metrics[n] \in Samples
    BY <1>1, <2>1, <2>2
  <2>6. /\ c \in Seq(Samples) /\ Len(c) = L
        /\ \A n \in 1..L : c[n] = metrics[a + n]
    <3> DEFINE from == a + 1
               to == a + L
    <3>1. from \in Int /\ to \in Int /\ to - from + 1 = L /\ from <= to
      BY <1>1, <1>6, <2>1
    <3>2. \A n \in 1..L : from + n - 1 = a + n
      BY <1>1, <2>1
    <3>3. \A n \in from..to : metrics[n] \in Samples
      BY <2>5
    <3> HIDE DEF from, to
    <3>4. /\ SubSeq(metrics, from, to) \in Seq(Samples)
          /\ Len(SubSeq(metrics, from, to)) = to - from + 1
          /\ \A n \in 1..(to - from + 1) : SubSeq(metrics, from, to)[n] = metrics[from + n - 1]
      BY <3>1, <3>3, SubSeqProperties
    <3> QED
      BY <3>1, <3>2, <3>4 DEF from, to
  <2>7. c = y
    <3>1. \A n \in 1..L : c[n] = y[n]
      BY <1>2, <2>6
    <3> HIDE DEF c
    <3>2. DOMAIN c = 1..L /\ DOMAIN y = 1..L /\ c = [n \in 1..L |-> c[n]] /\ y = [n \in 1..L |-> y[n]]
      BY <2>6
    <3> QED
      BY <3>1, <3>2
  <2> QED
    BY <1>4, <2>2, <2>3, <2>4, <2>7
<1> QED
  BY <1>5, <1>6

\* A provider that has been asked: what it has added.
Served(ms, r, p) ==
    \E y \in Yields(p) :
        IF p \in r THEN \E s \in Prefixes(y) : Stands(ms, p, s) ELSE Stands(ms, p, y)

\* The request provider has yielded its first class.
Begun(ms) ==
    \E m \in Seq(Samples), v \in 0..MaxDuration :
        ms = m \o RequestSamples(AuthClasses[1], v) /\ Nothing(m, "request")

\* A provider that has not been asked, or not to the end.
Waits(ms, p, t) == IF p = "request" /\ t = 2 THEN Begun(ms) ELSE Nothing(ms, p)

\* The first d providers of o have been asked.
Asked(o, d, rest, ms, r, t) ==
    /\ rest = SubSeq(o, d + 1, Len(o))
    /\ \A n \in 1..Len(o) :
          IF n <= d THEN Served(ms, r, o[n]) ELSE o[n] \notin r /\ Waits(ms, o[n], t)

LEMMA PrefixType ==
    ASSUME NEW S, NEW y \in Seq(S), NEW s \in Prefixes(y)
    PROVE  s \in Seq(S) /\ IsPrefix(s, y)
<1>1. PICK l \in 0..Len(y) : s = SubSeq(y, 1, l)
  BY DEF Prefixes
<1>2. s \in Seq(S) /\ Len(s) = l /\ l <= Len(y)
  BY <1>1
<1>3. SubSeq(s, 1, Len(s)) = s
  BY <1>2, SubSeqFull
<1> QED
  BY <1>1, <1>2, <1>3 DEF IsPrefix

LEMMA ServedStays ==
    ASSUME NEW ms \in Seq(Samples), NEW q \in Providers, NEW y \in Seq(SamplesOf(q)),
           NEW p, p # q, NEW r, NEW r2, p \in r <=> p \in r2, Served(ms, r, p)
    PROVE  Served(ms \o y, r2, p)
<1>1. PICK x \in Yields(p) :
         IF p \in r THEN \E s \in Prefixes(x) : Stands(ms, p, s) ELSE Stands(ms, p, x)
  BY DEF Served
<1>2. x \in Seq(SamplesOf(p)) /\ Len(x) \in Nat
  BY YieldType
<1>3. \A s \in Prefixes(x) : Len(s) \in Nat
  BY <1>2, PrefixType
<1>4. \A s : Len(s) \in Nat /\ Stands(ms, p, s) => Stands(ms \o y, p, s)
  BY OthersStand
<1> QED
  BY <1>1, <1>2, <1>3, <1>4 DEF Served

\* The provider to be asked is the next of the order.
LEMMA AskedAt ==
    ASSUME NEW o \in Orders, NEW d \in 0..Len(o), NEW rest, rest = SubSeq(o, d + 1, Len(o)),
           rest # <<>>
    PROVE  /\ o \in Seq(Providers) /\ Len(o) \in Nat /\ DOMAIN o = 1..Len(o)
           /\ \A j, k \in 1..Len(o) : o[j] = o[k] => j = k
           /\ d + 1 \in 1..Len(o) /\ Head(rest) = o[d + 1] /\ Head(rest) \in Providers
           /\ Tail(rest) = SubSeq(o, (d + 1) + 1, Len(o))
<1>1. /\ o \in Seq(Providers) /\ Len(o) \in Nat /\ DOMAIN o = 1..Len(o)
      /\ \A j, k \in 1..Len(o) : o[j] = o[k] => j = k
  BY OrderType
<1>2. d < Len(o)
  <2> SUFFICES ASSUME ~(d < Len(o)) PROVE FALSE
    OBVIOUS
  <2> DEFINE N == Len(o)
  <2>1. N \in Nat /\ d \in 0..N /\ ~(d < N)
    BY <1>1
  <2> HIDE DEF N
  <2>2. d = N /\ d + 1 \in Int /\ N \in Int /\ N < d + 1
    BY <2>1
  <2>3. SubSeq(o, d + 1, Len(o)) = <<>>
    BY <2>2, SubSeqEmpty DEF N
  <2> QED
    BY <2>3
<1>3. d + 1 \in 1..Len(o) /\ Len(o) \in (d + 1)..Len(o)
  BY <1>1, <1>2
<1>4. Head(rest) = o[d + 1] /\ Tail(rest) = SubSeq(o, (d + 1) + 1, Len(o))
  BY <1>1, <1>3, HeadTailOfSubSeq
<1> QED
  BY <1>1, <1>3, <1>4

\* The request provider's first class.
LEMMA AskedStays ==
    ASSUME NEW ms \in Seq(Samples), NEW v \in 0..MaxDuration, NEW o \in Orders,
           NEW d \in 0..Len(o), NEW rest, rest # <<>>, Head(rest) = "request",
           NEW r, Asked(o, d, rest, ms, r, 1)
    PROVE  Asked(o, d, rest, ms \o RequestSamples(AuthClasses[1], v), r, 2)
<1> DEFINE y == RequestSamples(AuthClasses[1], v)
<1>1. "request" \in Providers
  <2> DEFINE X == UNION {ToSet(z) : z \in Orders}
  <2>1. Providers = X \cup {"request"}
    BY DEF Providers
  <2> HIDE DEF X
  <2> QED
    BY <2>1
<1>2. y \in Seq(SamplesOf("request"))
  BY ClassesType, RequestType
<1>3. /\ rest = SubSeq(o, d + 1, Len(o)) /\ d + 1 \in 1..Len(o) /\ o[d + 1] = "request"
      /\ \A j, k \in 1..Len(o) : o[j] = o[k] => j = k
  BY AskedAt DEF Asked
<1>4. ASSUME NEW p, p # "request"
      PROVE  /\ Served(ms, r, p) => Served(ms \o y, r, p)
             /\ Nothing(ms, p) => Nothing(ms \o y, p)
  <2> HIDE DEF y
  <2> QED
    BY <1>1, <1>2, <1>4, ServedStays, OthersStand
<1>5. Nothing(ms, "request") => Begun(ms \o y)
  BY DEF Begun
<1> HIDE DEF y
<1>6. ASSUME NEW n \in 1..Len(o)
      PROVE  IF n <= d THEN Served(ms \o y, r, o[n])
             ELSE o[n] \notin r /\ Waits(ms \o y, o[n], 2)
  <2>1. IF n <= d THEN Served(ms, r, o[n]) ELSE o[n] \notin r /\ Nothing(ms, o[n])
    BY DEF Asked, Waits
  <2>2. CASE o[n] = "request"
    <3>1. n = d + 1 /\ ~(n <= d)
      BY <1>3, <2>2
    <3> QED
      BY <1>5, <2>1, <2>2, <3>1 DEF Waits
  <2>3. CASE o[n] # "request"
    BY <1>4, <2>1, <2>3 DEF Waits
  <2> QED
    BY <2>2, <2>3
<1> QED
  BY <1>3, <1>6 DEF Asked, y

LEMMA AskedNext ==
    ASSUME NEW ms \in Seq(Samples), NEW o \in Orders, NEW d \in 0..Len(o), NEW rest, NEW r,
           NEW t, Asked(o, d, rest, ms, r, t), rest # <<>>,
           t = 1 \/ Head(rest) = "request",
           NEW y \in Seq(SamplesOf(Head(rest))), NEW r2,
           r2 = r \/ r2 = r \cup {Head(rest)},
           Head(rest) \notin r /\ Waits(ms, Head(rest), t) => Served(ms \o y, r2, Head(rest))
    PROVE  d + 1 \in 0..Len(o) /\ Asked(o, d + 1, Tail(rest), ms \o y, r2, 1)
<1> DEFINE q == Head(rest)
           new == ms \o y
<1>1. rest = SubSeq(o, d + 1, Len(o))
  BY DEF Asked
<1>2. /\ Len(o) \in Nat /\ \A j, k \in 1..Len(o) : o[j] = o[k] => j = k
      /\ d + 1 \in 1..Len(o) /\ q = o[d + 1] /\ q \in Providers
      /\ Tail(rest) = SubSeq(o, (d + 1) + 1, Len(o))
  BY <1>1, AskedAt
<1>3. ASSUME NEW n \in 1..Len(o)
      PROVE  IF n <= d + 1 THEN Served(new, r2, o[n]) ELSE o[n] \notin r2 /\ Nothing(new, o[n])
  <2> DEFINE p == o[n]
  <2>1. IF n <= d THEN Served(ms, r, p) ELSE p \notin r /\ Waits(ms, p, t)
    BY DEF Asked
  <2>2. CASE n = d + 1
    <3>1. p = q /\ p \notin r /\ Waits(ms, p, t)
      BY <1>2, <2>1, <2>2
    <3> QED
      BY <2>2, <3>1
  <2>3. CASE n # d + 1
    <3>1. p # q
      BY <1>2, <2>3
    <3>2. p \in r <=> p \in r2
      BY <3>1
    <3>3. Waits(ms, p, t) => Nothing(ms, p)
      BY <3>1 DEF Waits
    <3> HIDE DEF p, q
    <3>4. Served(ms, r, p) => Served(new, r2, p)
      BY <1>2, <3>1, <3>2, ServedStays DEF q
    <3>5. Nothing(ms, p) => Nothing(new, p)
      BY <1>2, <3>1, OthersStand DEF q
    <3>6. n <= d + 1 <=> n <= d
      BY <1>2, <2>3
    <3> QED
      BY <2>1, <3>2, <3>3, <3>4, <3>5, <3>6 DEF p
  <2> QED
    BY <2>2, <2>3
<1>4. d + 1 \in 0..Len(o)
  BY <1>2
<1> QED
  BY <1>2, <1>3, <1>4 DEF Asked, Waits

\* Prefixes of what a provider yields in two parts.
LEMMA PrefixOfFirst ==
    ASSUME NEW S, NEW x \in Seq(S), NEW z \in Seq(S), NEW n \in 0..Len(x)
    PROVE  SubSeq(x, 1, n) \in Prefixes(x \o z)
<1> DEFINE c == x \o z
<1>1. c \in Seq(S) /\ Len(c) = Len(x) + Len(z) /\ \A k \in 1..Len(x) : c[k] = x[k]
  BY ConcatProperties
<1>2. Len(x) \in Nat /\ Len(z) \in Nat /\ n \in Nat
  OBVIOUS
<1> HIDE DEF c
<1>3. SubSeq(c, 1, n) = SubSeq(x, 1, n)
  <2>1. \A k \in 1..n : k \in 1..Len(x) /\ c[k] = x[k]
    BY <1>1, <1>2
  <2>2. /\ SubSeq(x, 1, n) = [k \in 1..n |-> x[k]]
        /\ SubSeq(c, 1, n) = [k \in 1..n |-> c[k]]
    BY <1>1, <1>2
  <2> QED
    BY <2>1, <2>2
<1>4. n \in 0..Len(c)
  BY <1>1, <1>2
<1> QED
  BY <1>3, <1>4 DEF Prefixes, c

LEMMA PrefixOfSecond ==
    ASSUME NEW S, NEW x \in Seq(S), NEW z \in Seq(S), NEW n \in 0..Len(z)
    PROVE  x \o SubSeq(z, 1, n) \in Prefixes(x \o z)
<1> DEFINE c == x \o z
           s == SubSeq(z, 1, n)
           e == x \o s
           N == Len(x)
           l == N + n
<1>1. N \in Nat /\ Len(z) \in Nat /\ n \in Nat /\ n <= Len(z)
  OBVIOUS
<1>2. c \in Seq(S) /\ Len(c) = N + Len(z)
      /\ \A k \in 1..(N + Len(z)) : c[k] = IF k <= N THEN x[k] ELSE z[k - N]
  BY ConcatProperties
<1>3. s \in Seq(S) /\ Len(s) = n /\ \A k \in 1..n : s[k] = z[k]
  BY <1>1
<1>4. /\ e \in Seq(S) /\ Len(e) = N + n
      /\ \A k \in 1..(N + n) : e[k] = IF k <= N THEN x[k] ELSE s[k - N]
  BY <1>3, ConcatProperties
<1> HIDE DEF c, s, e, N
<1>5. \A k \in 1..l : e[k] = c[k]
  <2> SUFFICES ASSUME NEW k \in 1..l PROVE e[k] = c[k]
    OBVIOUS
  <2>1. k \in 1..(N + Len(z)) /\ (~(k <= N) => k - N \in 1..n)
    BY <1>1
  <2> QED
    BY <1>2, <1>3, <1>4, <2>1
<1>6. l \in Nat /\ l \in 0..Len(c)
  BY <1>1, <1>2
<1>7. e \in Seq(S) /\ Len(e) = l
  BY <1>4
<1> HIDE DEF l
<1>8. e = SubSeq(c, 1, l)
  <2>1. e = [k \in 1..l |-> e[k]]
    <3>1. DOMAIN e = 1..Len(e) /\ e = [k \in DOMAIN e |-> e[k]]
      BY <1>7
    <3> QED
      BY <1>7, <3>1
  <2>2. SubSeq(c, 1, l) = [k \in 1..l |-> c[k]]
    BY <1>2, <1>6
  <2> QED
    BY <1>5, <2>1, <2>2
<1> QED
  BY <1>6, <1>8 DEF Prefixes, c, s, e

\* The request provider has yielded both classes, or has raised in one of them.
LEMMA RequestServed ==
    ASSUME NEW ms \in Seq(Samples), NEW t \in {1, 2}, Waits(ms, "request", t),
           NEW v \in 0..MaxDuration, NEW n \in 0..6, NEW r
    PROVE  LET y == RequestSamples(AuthClasses[t], v)
           IN  /\ "request" \in r => Served(ms \o SubSeq(y, 1, n), r, "request")
               /\ "request" \notin r /\ t = 2 => Served(ms \o y, r, "request")
<1> DEFINE q == "request"
           T == SamplesOf(q)
           y == RequestSamples(AuthClasses[t], v)
<1>1. "request" \in Providers
  <2> DEFINE X == UNION {ToSet(z) : z \in Orders}
  <2>1. Providers = X \cup {"request"}
    BY DEF Providers
  <2> HIDE DEF X
  <2> QED
    BY <2>1
<1>2. y \in Seq(T) /\ Len(y) = 6
  BY ClassesType, RequestType
<1>3. SubSeq(y, 1, n) \in Seq(T)
  <2> HIDE DEF y, T
  <2>1. n \in 0..Len(y)
    BY <1>2
  <2>2. SubSeq(y, 1, n) \in Prefixes(y)
    BY <2>1 DEF Prefixes
  <2> QED
    BY <1>2, <2>2, PrefixType
<1>4. CASE t = 1
  <2> DEFINE z == RequestSamples(AuthClasses[2], v)
  <2>1. z \in Seq(T) /\ y \o z \in Yields(q)
    <3>1. z \in Seq(T)
      BY ClassesType, RequestType
    <3>2. y \o z \in Yields(q)
      BY <1>4, RequestYield
    <3> QED
      BY <3>1, <3>2
  <2>2. SubSeq(y, 1, n) \in Prefixes(y \o z)
    <3> HIDE DEF y, z, T
    <3> QED
      BY <1>2, <2>1, PrefixOfFirst
  <2>3. Stands(ms \o SubSeq(y, 1, n), q, SubSeq(y, 1, n))
    <3>1. Nothing(ms, q)
      BY <1>4 DEF Waits
    <3> HIDE DEF y
    <3> QED
      BY <1>1, <1>3, <3>1, NewStands
  <2> QED
    BY <1>4, <2>1, <2>2, <2>3 DEF Served
<1>5. CASE t = 2
  <2>1. PICK m \in Seq(Samples), w \in 0..MaxDuration :
           ms = m \o RequestSamples(AuthClasses[1], w) /\ Nothing(m, "request")
    BY <1>5 DEF Waits, Begun
  <2> DEFINE x == RequestSamples(AuthClasses[1], w)
  <2>2. x \in Seq(T) /\ x \o y \in Yields(q)
    <3>1. x \in Seq(T)
      BY ClassesType, RequestType
    <3>2. x \o y \in Yields(q)
      BY <1>5, RequestYield
    <3> QED
      BY <3>1, <3>2
  <2> SUFFICES /\ q \in r => Served(ms \o SubSeq(y, 1, n), r, q)
               /\ q \notin r => Served(ms \o y, r, q)
    BY <1>5
  <2>3. ms = m \o x /\ m \in Seq(Samples) /\ Nothing(m, q)
    BY <2>1
  <2>4. T \subseteq Samples
    BY <1>1 DEF SamplesOf, Samples
  <2> HIDE DEF y, x, T, q
  <2>5. x \in Seq(Samples) /\ y \in Seq(Samples) /\ SubSeq(y, 1, n) \in Seq(Samples)
    BY <1>2, <1>3, <2>2, <2>4, SeqMonotonic
  <2>6. \A s \in Seq(Samples) : ms \o s = m \o (x \o s)
    BY <2>3, <2>5, ConcatAssociative
  <2>7. \A s \in Seq(T) : s \in Seq(Samples) => Stands(ms \o s, q, x \o s)
    <3> SUFFICES ASSUME NEW s \in Seq(T), s \in Seq(Samples) PROVE Stands(ms \o s, q, x \o s)
      OBVIOUS
    <3>1. x \o s \in Seq(T)
      BY <2>2, ConcatProperties
    <3> QED
      BY <1>1, <2>3, <2>6, <3>1, NewStands DEF T, q
  <2>8. x \o SubSeq(y, 1, n) \in Prefixes(x \o y)
    BY <1>2, <2>2, PrefixOfSecond
  <2>9. /\ Stands(ms \o SubSeq(y, 1, n), q, x \o SubSeq(y, 1, n))
        /\ Stands(ms \o y, q, x \o y)
    BY <1>2, <1>3, <2>5, <2>7
  <2> QED
    BY <2>2, <2>8, <2>9 DEF Served
<1> QED
  BY <1>4, <1>5

-----------------------------------------------------------------------------
(* The scrape.                                                             *)

\* The list has the maximum v of class a.
Lists(ms, a, v) ==
    \E n \in 1..Len(ms) : ms[n].auth = a /\ ms[n].family = "max" /\ ms[n].value = v

ListInv ==
    /\ metrics \in Seq(Samples)
    /\ vpc \in {"access", "choose"} => formatter = "none"
    /\ vpc \in {"access", "choose"} \/ status \in {"403", "500"} => metrics = <<>> /\ raised = {}

WorstInv ==
    /\ worst \in [Auth -> 0..MaxDuration]
    /\ \A a \in Auth :
          maximum[a] <= worst[a] /\ (worst[a] = maximum[a] \/ Lists(metrics, a, worst[a]))

BodyInv ==
    status = "200" =>
        /\ vpc = "sent" /\ formatter \in {"prometheus", "json"}
        /\ body = IF formatter = "json" THEN Objects(metrics) ELSE Lines(metrics)

AskedInv ==
    formatter # "none" =>
        \E o \in Orders : \E d \in 0..Len(o) : Asked(o, d, order, metrics, raised, turn)

\* Only the request provider is asked in two parts.
TurnInv == turn = 1 \/ (turn = 2 /\ Asking("request"))

ViewInv == AccessInv /\ ViewTypeOK /\ ListInv /\ WorstInv /\ BodyInv /\ AskedInv /\ TurnInv

\* The longest duration stays in the list.
LEMMA ListsMore ==
    ASSUME NEW ms \in Seq(Samples), NEW q \in Providers, NEW y \in Seq(SamplesOf(q)),
           NEW a, NEW v
    PROVE  /\ Lists(ms, a, v) => Lists(ms \o y, a, v)
           /\ \A n \in DOMAIN y :
                 y[n].auth = a /\ y[n].family = "max" /\ y[n].value = v => Lists(ms \o y, a, v)
<1> DEFINE new == ms \o y
           N == Len(ms)
<1>1. /\ Len(new) = N + Len(y) /\ N \in Nat /\ Len(y) \in Nat /\ DOMAIN y = 1..Len(y)
      /\ \A n \in 1..N : new[n] = ms[n]
      /\ \A n \in 1..Len(y) : new[N + n] = y[n]
  BY Appended
<1> HIDE DEF new
<1>2. ASSUME Lists(ms, a, v) PROVE Lists(new, a, v)
  <2>1. PICK n \in 1..N : ms[n].auth = a /\ ms[n].family = "max" /\ ms[n].value = v
    BY <1>2 DEF Lists
  <2>2. n \in 1..Len(new) /\ new[n] = ms[n]
    BY <1>1
  <2> QED
    BY <2>1, <2>2 DEF Lists
<1>3. ASSUME NEW n \in DOMAIN y, y[n].auth = a, y[n].family = "max", y[n].value = v
      PROVE  Lists(new, a, v)
  <2>1. N + n \in 1..Len(new) /\ new[N + n] = y[n]
    BY <1>1
  <2> QED
    BY <1>3, <2>1 DEF Lists
<1> QED
  BY <1>2, <1>3 DEF new

LEMMA ViewStart == ViewInit => ViewInv
<1> SUFFICES ASSUME ViewInit PROVE ViewInv
  OBVIOUS
<1>1. AccessInv /\ TypeOK
  BY AccessStart DEF ViewInit, AccessInv
<1>2. 0 \in 0..MaxDuration
  BY ViewAssumption
<1>3. ViewTypeOK
  BY <1>1, <1>2 DEF ViewInit, ViewTypeOK, AuthClasses
<1>4. ListInv
  BY DEF ViewInit, ListInv
<1>5. WorstInv
  BY <1>2 DEF ViewInit, WorstInv
<1>6. BodyInv /\ AskedInv /\ TurnInv
  BY DEF ViewInit, BodyInv, AskedInv, TurnInv
<1> QED
  BY <1>1, <1>3, <1>4, <1>5, <1>6 DEF ViewInv

LEMMA ReturnIsAccess == Return => AccessInv'
<1> SUFFICES ASSUME Return PROVE AccessInv'
  OBVIOUS
<1>1. 0 \in 0..MaxHops
  BY HopsAssumption
<1>2. <<>> \in Headers
  <2>1. <<>> \in [1..0 -> Entries]
    OBVIOUS
  <2> QED
    BY <1>1, <2>1 DEF Headers
<1>3. TypeOK'
  BY <1>1, <1>2 DEF Return, TypeOK, Entries
<1> QED
  BY <1>3 DEF Return, AccessInv, WalkInv, DecideInv, AnswersForTheClient

LEMMA AccessStays == AccessInv /\ UNCHANGED vars => AccessInv'
BY AccessStep

LEMMA Extended ==
    ASSUME metrics \in Seq(Samples), NEW q \in Providers, NEW y \in Seq(SamplesOf(q)),
           metrics' = metrics \o y
    PROVE  /\ metrics' \in Seq(Samples)
           /\ \A a, v : Lists(metrics, a, v) => Lists(metrics', a, v)
<1>1. metrics \o y \in Seq(Samples)
  BY Appended
<1>2. \A a, v : Lists(metrics, a, v) => Lists(metrics \o y, a, v)
  BY ListsMore
<1> QED
  BY <1>1, <1>2

LEMMA CheckAccessKeeps == ViewInv /\ CheckAccess => ViewInv'
<1> SUFFICES ASSUME ViewInv, CheckAccess PROVE ViewInv'
  OBVIOUS
<1>1. UNCHANGED <<vpc, order, turn, metrics, formatter, raised, status, body, maximum, worst>>
  BY DEF CheckAccess, scrape, response, tracker
<1>2. AccessInv'
  BY AccessStep DEF ViewInv, CheckAccess
<1>3. ViewTypeOK'
  BY <1>1, <1>2 DEF ViewInv, ViewTypeOK, AccessInv
<1>4. ListInv' /\ WorstInv' /\ BodyInv'
  BY <1>1 DEF ViewInv, ListInv, WorstInv, BodyInv
<1>5. AskedInv' /\ TurnInv'
  BY <1>1 DEF ViewInv, AskedInv, TurnInv, Asking
<1> QED
  BY <1>2, <1>3, <1>4, <1>5 DEF ViewInv

LEMMA ReturnKeeps == ViewInv /\ (Forbid \/ AccessRaises \/ Admit) => ViewInv'
<1> SUFFICES ASSUME ViewInv, Forbid \/ AccessRaises \/ Admit PROVE ViewInv'
  OBVIOUS
<1>1. /\ UNCHANGED <<order, turn, metrics, formatter, raised, body, maximum, worst>>
      /\ vpc = "access"
      /\ \/ vpc' = "sent" /\ status' \in {"403", "raised"}
         \/ vpc' = "choose" /\ status' = status
  BY DEF Forbid, AccessRaises, Admit, response, tracker
<1>2. AccessInv'
  BY ReturnIsAccess DEF Forbid, AccessRaises, Admit
<1>3. ViewTypeOK'
  BY <1>1, <1>2 DEF ViewInv, ViewTypeOK, AccessInv
<1>4. ListInv' /\ WorstInv' /\ BodyInv'
  BY <1>1 DEF ViewInv, ViewTypeOK, ListInv, WorstInv, BodyInv
<1>5. AskedInv' /\ TurnInv'
  BY <1>1 DEF ViewInv, AskedInv, TurnInv, Asking
<1> QED
  BY <1>2, <1>3, <1>4, <1>5 DEF ViewInv

LEMMA ChooseKeeps ==
    ASSUME ViewInv, NEW parameter, NEW accept, NEW available \in SUBSET {"prometheus", "json"},
           Choose(parameter, accept, available)
    PROVE  ViewInv'
<1>1. /\ UNCHANGED <<turn, metrics, raised, body, maximum, worst>>
      /\ vpc = "choose"
      /\ \/ formatter' = "none" /\ vpc' = "sent" /\ status' = "500"
         \/ /\ formatter' \in {"prometheus", "json"} /\ vpc' = "collect"
            /\ order' \in Orders /\ status' = status
  <2>1. Chosen(parameter, accept, available) \in {"none", "prometheus", "json"}
    BY DEF Chosen
  <2> QED
    BY <2>1 DEF Choose, tracker
<1>2. AccessInv'
  BY AccessStays DEF Choose, ViewInv
<1>3. ViewTypeOK'
  BY <1>1, <1>2 DEF ViewInv, ViewTypeOK, AccessInv
<1>4. ListInv' /\ WorstInv' /\ BodyInv'
  BY <1>1 DEF ViewInv, ViewTypeOK, ListInv, WorstInv, BodyInv
<1>5. turn = 1 /\ TurnInv'
  BY <1>1 DEF ViewInv, TurnInv, Asking
<1>6. AskedInv'
  <2>1. CASE formatter' = "none"
    BY <2>1 DEF AskedInv
  <2>2. CASE order' \in Orders
    <3> DEFINE o == order'
    <3>1. o \in Seq(Providers) /\ Len(o) \in Nat
      BY <2>2, OrderType
    <3>2. SubSeq(o, 0 + 1, Len(o)) = o
      BY <3>1, SubSeqFull
    <3>3. metrics' = <<>> /\ raised' = {}
      BY <1>1 DEF ViewInv, ListInv
    <3>4. \A n \in 1..Len(o) : ~(n <= 0)
      BY <3>1
    <3>5. Asked(o, 0, o, <<>>, {}, 1)
      BY <3>2, <3>4 DEF Asked, Waits, Nothing
    <3>6. 0 \in 0..Len(o)
      BY <3>1
    <3> QED
      BY <1>1, <1>5, <2>2, <3>3, <3>5, <3>6 DEF AskedInv
  <2> QED
    BY <1>1, <2>1, <2>2
<1> QED
  BY <1>2, <1>3, <1>4, <1>5, <1>6 DEF ViewInv

\* The provider to be asked is one of the registry.
LEMMA AskingProvider ==
    ASSUME ViewInv, NEW p, Asking(p)
    PROVE  p \in Providers /\ metrics \in Seq(Samples)
<1>1. order # <<>> /\ Head(order) = p /\ formatter # "none" /\ metrics \in Seq(Samples)
  BY DEF Asking, ViewInv, ViewTypeOK, ListInv
<1>2. PICK o \in Orders : \E d \in 0..Len(o) : Asked(o, d, order, metrics, raised, turn)
  BY <1>1 DEF ViewInv, AskedInv
<1>3. PICK d \in 0..Len(o) : Asked(o, d, order, metrics, raised, turn)
  BY <1>2
<1> QED
  BY <1>1, <1>3, AskedAt DEF Asked

\* The provider p has been asked, and left y in the list.
LEMMA OneMoreAsked ==
    ASSUME ViewInv, NEW p, Asking(p), NEW y \in Seq(SamplesOf(p)),
           metrics' = metrics \o y, order' = Tail(order),
           raised' = raised \/ raised' = raised \cup {p},
           turn' = 1,
           p \notin raised /\ Waits(metrics, p, turn) => Served(metrics \o y, raised', p)
    PROVE  /\ metrics' \in Seq(Samples)
           /\ \A a, v : Lists(metrics, a, v) => Lists(metrics', a, v)
           /\ AskedInv' /\ TurnInv'
<1>1. /\ vpc = "collect" /\ order # <<>> /\ Head(order) = p /\ formatter # "none"
      /\ metrics \in Seq(Samples) /\ (turn = 1 \/ p = "request")
  BY DEF Asking, ViewInv, ViewTypeOK, ListInv, TurnInv
<1>2. PICK o \in Orders : \E d \in 0..Len(o) : Asked(o, d, order, metrics, raised, turn)
  BY <1>1 DEF ViewInv, AskedInv
<1>3. PICK d \in 0..Len(o) : Asked(o, d, order, metrics, raised, turn)
  BY <1>2
<1>4. d + 1 \in 0..Len(o) /\ Asked(o, d + 1, Tail(order), metrics \o y, raised', 1)
  BY <1>1, <1>3, AskedNext
<1>5. /\ metrics' \in Seq(Samples)
      /\ \A a, v : Lists(metrics, a, v) => Lists(metrics', a, v)
  BY <1>1, AskingProvider, Extended
<1> QED
  BY <1>4, <1>5 DEF AskedInv, TurnInv

LEMMA CollectKeeps ==
    ASSUME ViewInv, NEW p, Collect(p)
    PROVE  ViewInv'
<1>1. /\ UNCHANGED <<vpc, turn, formatter, raised, status, body, maximum, worst>>
      /\ Asking(p) /\ p # "request" /\ order' = Tail(order)
      /\ vpc = "collect"
  BY DEF Collect, response, tracker, Asking
<1>2. PICK y \in Yields(p) : metrics' = metrics \o y
  BY DEF Collect
<1>3. y \in Seq(SamplesOf(p))
  BY YieldType
<1>4. turn = 1
  BY <1>1 DEF ViewInv, TurnInv, Asking
<1>5. p \notin raised /\ Waits(metrics, p, turn) => Served(metrics \o y, raised, p)
  <2> SUFFICES ASSUME p \notin raised, Nothing(metrics, p)
               PROVE  Served(metrics \o y, raised, p)
    BY <1>1 DEF Waits
  <2>1. Stands(metrics \o y, p, y)
    BY <1>1, <1>3, AskingProvider, NewStands
  <2> QED
    BY <2>1 DEF Served
<1>6. /\ metrics' \in Seq(Samples)
      /\ \A a, v : Lists(metrics, a, v) => Lists(metrics', a, v)
      /\ AskedInv' /\ TurnInv'
  BY <1>1, <1>2, <1>3, <1>4, <1>5, OneMoreAsked
<1>7. AccessInv'
  BY AccessStays DEF Collect, ViewInv
<1>8. ViewTypeOK'
  BY <1>1, <1>7 DEF ViewInv, ViewTypeOK, AccessInv
<1>9. ListInv' /\ WorstInv' /\ BodyInv'
  BY <1>1, <1>6 DEF ViewInv, ViewTypeOK, ListInv, WorstInv, BodyInv
<1> QED
  BY <1>6, <1>7, <1>8, <1>9 DEF ViewInv

LEMMA CollectRaisesKeeps ==
    ASSUME ViewInv, NEW p, CollectRaises(p)
    PROVE  ViewInv'
<1>1. /\ UNCHANGED <<vpc, turn, formatter, status, body, maximum, worst>>
      /\ Asking(p) /\ p # "request" /\ order' = Tail(order)
      /\ raised' = raised \cup {p} /\ vpc = "collect"
  BY DEF CollectRaises, response, tracker, Asking, Rest
<1>2. PICK z \in Yields(p) : \E s \in Prefixes(z) : metrics' = metrics \o s
  BY DEF CollectRaises
<1>3. PICK s \in Prefixes(z) : metrics' = metrics \o s
  BY <1>2
<1>4. p \in Providers /\ metrics \in Seq(Samples) /\ s \in Seq(SamplesOf(p)) /\ turn = 1
  BY <1>1, AskingProvider, YieldType, PrefixType DEF ViewInv, TurnInv, Asking
<1>5. Waits(metrics, p, turn) => Served(metrics \o s, raised', p)
  <2> SUFFICES ASSUME Nothing(metrics, p) PROVE Served(metrics \o s, raised', p)
    BY <1>1 DEF Waits
  <2>1. Stands(metrics \o s, p, s)
    BY <1>4, NewStands
  <2>2. p \in raised'
    BY <1>1
  <2> QED
    BY <2>1, <2>2 DEF Served
<1>6. /\ metrics' \in Seq(Samples)
      /\ \A a, v : Lists(metrics, a, v) => Lists(metrics', a, v)
      /\ AskedInv' /\ TurnInv'
  BY <1>1, <1>3, <1>4, <1>5, OneMoreAsked
<1>7. AccessInv'
  BY AccessStays DEF CollectRaises, ViewInv
<1>8. ViewTypeOK'
  BY <1>1, <1>7 DEF ViewInv, ViewTypeOK, AccessInv
<1>9. ListInv' /\ WorstInv' /\ BodyInv'
  BY <1>1, <1>6 DEF ViewInv, ViewTypeOK, ListInv, WorstInv, BodyInv
<1> QED
  BY <1>6, <1>7, <1>8, <1>9 DEF ViewInv

\* What is read of the class the request provider is at.
LEMMA RequestTurn ==
    ASSUME ViewInv, Asking("request")
    PROVE  /\ turn \in {1, 2} /\ AuthClasses[turn] \in Auth
           /\ maximum[AuthClasses[turn]] \in 0..MaxDuration
           /\ vpc = "collect" /\ formatter # "none" /\ metrics \in Seq(Samples)
           /\ maximum \in [Auth -> 0..MaxDuration] /\ 0 \in 0..MaxDuration
<1>1. turn \in {1, 2} /\ AuthClasses[turn] \in Auth
  BY ClassesType DEF ViewInv, TurnInv
<1>2. maximum \in [Auth -> 0..MaxDuration] /\ 0 \in 0..MaxDuration
  BY ViewAssumption DEF ViewInv, ViewTypeOK
<1> QED
  BY <1>1, <1>2 DEF Asking, ViewInv, ViewTypeOK, ListInv

\* A maximum that is taken has gone into the list.
LEMMA TakenKeepsWorst ==
    ASSUME WorstInv, maximum \in [Auth -> 0..MaxDuration], 0 \in 0..MaxDuration,
           NEW c \in Auth, maximum' = [maximum EXCEPT ![c] = 0], worst' = worst,
           Lists(metrics', c, maximum[c]),
           \A a, v : Lists(metrics, a, v) => Lists(metrics', a, v)
    PROVE  WorstInv'
<1>1. worst \in [Auth -> 0..MaxDuration]
      /\ \A a \in Auth : maximum[a] <= worst[a]
                          /\ (worst[a] = maximum[a] \/ Lists(metrics, a, worst[a]))
  BY DEF WorstInv
<1>2. ASSUME NEW a \in Auth
      PROVE  maximum'[a] <= worst[a] /\ (worst[a] = maximum'[a] \/ Lists(metrics', a, worst[a]))
  <2>1. worst[a] \in 0..MaxDuration
    BY <1>1
  <2>2. CASE a = c
    BY <1>1, <2>1, <2>2
  <2>3. CASE a # c
    BY <1>1, <2>3
  <2> QED
    BY <2>2, <2>3
<1> QED
  BY <1>1, <1>2 DEF WorstInv

LEMMA CollectRequestKeeps == ViewInv /\ CollectRequest => ViewInv'
<1> SUFFICES ASSUME ViewInv, CollectRequest PROVE ViewInv'
  OBVIOUS
<1> DEFINE c == AuthClasses[turn]
           v == maximum[c]
           y == RequestSamples(c, v)
<1>1. Asking("request")
  BY DEF CollectRequest
<1>2. /\ UNCHANGED <<vpc, formatter, raised, status, body, worst>>
      /\ metrics' = metrics \o y /\ maximum' = [maximum EXCEPT ![c] = 0]
      /\ \/ turn = 1 /\ turn' = 2 /\ order' = order
         \/ turn = 2 /\ turn' = 1 /\ order' = Tail(order)
  BY DEF CollectRequest, response, Take, ViewInv, ViewTypeOK, AuthClasses
<1>3. /\ c \in Auth /\ v \in 0..MaxDuration /\ metrics \in Seq(Samples) /\ vpc = "collect"
      /\ maximum \in [Auth -> 0..MaxDuration] /\ 0 \in 0..MaxDuration
  BY <1>1, RequestTurn
<1>4. "request" \in Providers
  BY <1>1, AskingProvider
<1> HIDE DEF v
<1>5. /\ y \in Seq(SamplesOf("request"))
      /\ \E n \in DOMAIN y : y[n].auth = c /\ y[n].family = "max" /\ y[n].value = v
  <2>1. PICK n \in 1..6 : RequestFamilies[n] = "max"
    BY <1>3, RequestType
  <2>2. /\ y \in Seq(SamplesOf("request")) /\ Len(y) = 6
        /\ y[n].auth = c /\ y[n].family = "max" /\ y[n].value = v
    BY <1>3, <2>1, RequestType
  <2> HIDE DEF y
  <2>3. n \in DOMAIN y
    BY <2>2
  <2> QED
    BY <2>2, <2>3
<1>6. /\ metrics' \in Seq(Samples)
      /\ \A a, w : Lists(metrics, a, w) => Lists(metrics', a, w)
      /\ Lists(metrics', c, v)
  <2> HIDE DEF y, c
  <2> QED
    BY <1>2, <1>3, <1>4, <1>5, Extended, ListsMore
<1>7. AskedInv' /\ TurnInv'
  <2>1. formatter # "none" /\ order # <<>> /\ Head(order) = "request"
    BY <1>1, RequestTurn DEF Asking
  <2>2. CASE turn = 1
    <3>1. PICK o \in Orders : \E d \in 0..Len(o) : Asked(o, d, order, metrics, raised, 1)
      BY <2>1, <2>2 DEF ViewInv, AskedInv
    <3>2. PICK d \in 0..Len(o) : Asked(o, d, order, metrics, raised, 1)
      BY <3>1
    <3>3. Asked(o, d, order, metrics \o RequestSamples(AuthClasses[1], v), raised, 2)
      BY <1>3, <2>1, <3>2, AskedStays
    <3>4. /\ metrics' = metrics \o RequestSamples(AuthClasses[1], v)
          /\ turn' = 2 /\ order' = order /\ raised' = raised /\ vpc' = vpc
      BY <1>2, <2>2
    <3> QED
      BY <1>1, <3>3, <3>4 DEF AskedInv, TurnInv, Asking
  <2>3. CASE turn = 2
    <3>1. /\ order' = Tail(order) /\ raised' = raised /\ turn' = 1
          /\ y = RequestSamples(AuthClasses[2], v)
      BY <1>2, <2>3
    <3>2. "request" \notin raised /\ Waits(metrics, "request", turn) =>
             Served(metrics \o y, raised', "request")
      <4> SUFFICES ASSUME "request" \notin raised, Waits(metrics, "request", 2)
                   PROVE  Served(metrics \o RequestSamples(AuthClasses[2], v), raised, "request")
        BY <2>3, <3>1
      <4> DEFINE n == 0
      <4>1. n \in 0..6 /\ 2 \in {1, 2}
        OBVIOUS
      <4> HIDE DEF n
      <4> QED
        BY <1>3, <4>1, RequestServed
    <3> HIDE DEF y
    <3> QED
      BY <1>1, <1>2, <1>5, <3>1, <3>2, OneMoreAsked
  <2> QED
    BY <1>2, <2>2, <2>3
<1> HIDE DEF c, y
<1>8. WorstInv'
  BY <1>2, <1>3, <1>6, TakenKeepsWorst DEF ViewInv, v
<1>9. AccessInv'
  BY AccessStays DEF CollectRequest, ViewInv
<1>10. ViewTypeOK'
  <2>1. maximum' \in [Auth -> 0..MaxDuration]
    BY <1>2, <1>3
  <2>2. turn' \in DOMAIN AuthClasses
    BY <1>2 DEF AuthClasses
  <2> QED
    BY <1>2, <1>9, <2>1, <2>2 DEF ViewInv, ViewTypeOK, AccessInv
<1>11. ListInv' /\ BodyInv'
  BY <1>2, <1>3, <1>6 DEF ViewInv, ViewTypeOK, ListInv, BodyInv
<1> QED
  BY <1>7, <1>8, <1>9, <1>10, <1>11 DEF ViewInv

LEMMA CollectRequestRaisesKeeps ==
    ASSUME ViewInv, NEW n \in 0..Len(RequestFamilies), CollectRequestRaises(n)
    PROVE  ViewInv'
<1> DEFINE c == AuthClasses[turn]
           v == maximum[c]
           z == RequestSamples(c, v)
           y == SubSeq(z, 1, n)
<1>1. Asking("request")
  BY DEF CollectRequestRaises
<1>2. /\ UNCHANGED <<vpc, formatter, status, body, worst>>
      /\ metrics' = metrics \o y
      /\ maximum' = IF \E k \in 1..n : RequestFamilies[k] = "max"
                    THEN [maximum EXCEPT ![c] = 0] ELSE maximum
      /\ turn' = 1 /\ order' = Tail(order) /\ raised' = raised \cup {"request"}
  BY DEF CollectRequestRaises, response, Take, Rest
<1>3. /\ c \in Auth /\ v \in 0..MaxDuration /\ metrics \in Seq(Samples) /\ vpc = "collect"
      /\ maximum \in [Auth -> 0..MaxDuration] /\ 0 \in 0..MaxDuration /\ turn \in {1, 2}
  BY <1>1, RequestTurn
<1>4. "request" \in Providers
  BY <1>1, AskingProvider
<1>5. /\ z \in Seq(SamplesOf("request")) /\ Len(z) = 6 /\ n \in 0..6
      /\ \A k \in 1..6 : RequestFamilies[k] = "max" =>
            z[k].auth = c /\ z[k].family = "max" /\ z[k].value = v
  <2> HIDE DEF v, c
  <2>1. /\ z \in Seq(SamplesOf("request")) /\ Len(z) = 6 /\ Len(RequestFamilies) = 6
    BY <1>3, RequestType
  <2>2. \A k \in 1..6 : RequestFamilies[k] = "max" =>
            z[k].auth = c /\ z[k].family = "max" /\ z[k].value = v
    BY <1>3, RequestType
  <2> QED
    BY <2>1, <2>2
<1>6. "request" \notin raised /\ Waits(metrics, "request", turn) =>
         Served(metrics \o y, raised', "request")
  <2> SUFFICES ASSUME Waits(metrics, "request", turn)
               PROVE  Served(metrics \o y, raised', "request")
    OBVIOUS
  <2>1. "request" \in raised'
    BY <1>2
  <2> HIDE DEF v
  <2> QED
    BY <1>3, <1>5, <2>1, RequestServed
<1> HIDE DEF z, c, v
<1>7. /\ y \in Seq(SamplesOf("request")) /\ DOMAIN y = 1..n
      /\ \A k \in 1..n : k \in 1..6 /\ y[k] = z[k]
  BY <1>5
<1> HIDE DEF y
<1>8. /\ metrics' \in Seq(Samples)
      /\ \A a, w : Lists(metrics, a, w) => Lists(metrics', a, w)
      /\ AskedInv' /\ TurnInv'
  BY <1>1, <1>2, <1>6, <1>7, OneMoreAsked
<1>9. ASSUME NEW k \in 1..n, RequestFamilies[k] = "max" PROVE Lists(metrics', c, v)
  <2>1. y[k].auth = c /\ y[k].family = "max" /\ y[k].value = v /\ k \in DOMAIN y
    BY <1>5, <1>7, <1>9
  <2> QED
    BY <1>2, <1>3, <1>4, <1>7, <2>1, ListsMore
<1>10. WorstInv'
  <2>1. CASE \E k \in 1..n : RequestFamilies[k] = "max"
    <3>1. maximum' = [maximum EXCEPT ![c] = 0] /\ Lists(metrics', c, maximum[c])
      BY <1>2, <1>9, <2>1 DEF v
    <3> QED
      BY <1>2, <1>3, <1>8, <3>1, TakenKeepsWorst DEF ViewInv
  <2>2. CASE ~ \E k \in 1..n : RequestFamilies[k] = "max"
    BY <1>2, <1>8, <2>2 DEF ViewInv, WorstInv
  <2> QED
    BY <2>1, <2>2
<1>11. AccessInv'
  BY AccessStays DEF CollectRequestRaises, ViewInv
<1>12. ViewTypeOK'
  <2>1. maximum' \in [Auth -> 0..MaxDuration]
    BY <1>2, <1>3
  <2>2. turn' \in DOMAIN AuthClasses
    BY <1>2 DEF AuthClasses
  <2> QED
    BY <1>2, <1>11, <2>1, <2>2 DEF ViewInv, ViewTypeOK, AccessInv
<1>13. ListInv' /\ BodyInv'
  BY <1>2, <1>3, <1>8 DEF ViewInv, ViewTypeOK, ListInv, BodyInv
<1> QED
  BY <1>8, <1>10, <1>11, <1>12, <1>13 DEF ViewInv

LEMMA RecordKeeps ==
    ASSUME ViewInv, NEW a \in Auth, NEW duration \in 1..MaxDuration, Record(a, duration)
    PROVE  ViewInv'
<1>1. /\ UNCHANGED <<vpc, order, turn, metrics, formatter, raised, status, body>>
      /\ maximum' = [maximum EXCEPT ![a] = IF duration > @ THEN duration ELSE @]
      /\ worst' = [worst EXCEPT ![a] = IF duration > @ THEN duration ELSE @]
  BY DEF Record, scrape, response
<1>2. /\ maximum \in [Auth -> 0..MaxDuration] /\ worst \in [Auth -> 0..MaxDuration]
      /\ MaxDuration \in Nat
      /\ \A b \in Auth : maximum[b] <= worst[b]
                          /\ (worst[b] = maximum[b] \/ Lists(metrics, b, worst[b]))
  BY ViewAssumption DEF ViewInv, ViewTypeOK, WorstInv
<1>3. maximum' \in [Auth -> 0..MaxDuration] /\ worst' \in [Auth -> 0..MaxDuration]
  BY <1>1, <1>2
<1>4. ASSUME NEW b \in Auth
      PROVE  maximum'[b] <= worst'[b] /\ (worst'[b] = maximum'[b] \/ Lists(metrics, b, worst'[b]))
  <2>1. maximum[b] \in 0..MaxDuration /\ worst[b] \in 0..MaxDuration
    BY <1>2
  <2>2. CASE b = a
    <3>1. /\ maximum'[b] = IF duration > maximum[b] THEN duration ELSE maximum[b]
          /\ worst'[b] = IF duration > worst[b] THEN duration ELSE worst[b]
      BY <1>1, <1>2, <2>2
    <3>2. CASE duration > worst[b]
      BY <1>2, <2>1, <3>1, <3>2
    <3>3. CASE ~(duration > worst[b])
      <4>1. worst'[b] = worst[b]
        BY <3>1, <3>3
      <4>2. CASE duration > maximum[b]
        BY <1>2, <2>1, <3>1, <3>3, <4>1, <4>2
      <4>3. CASE ~(duration > maximum[b])
        BY <1>2, <3>1, <4>1, <4>3
      <4> QED
        BY <4>2, <4>3
    <3> QED
      BY <3>2, <3>3
  <2>3. CASE b # a
    BY <1>1, <1>2, <2>3
  <2> QED
    BY <2>2, <2>3
<1>5. WorstInv'
  BY <1>1, <1>3, <1>4 DEF WorstInv
<1>6. AccessInv'
  BY AccessStays DEF Record, ViewInv
<1>7. ViewTypeOK'
  BY <1>1, <1>3, <1>6 DEF ViewInv, ViewTypeOK, AccessInv
<1>8. ListInv' /\ BodyInv' /\ AskedInv' /\ TurnInv'
  BY <1>1 DEF ViewInv, ListInv, BodyInv, AskedInv, TurnInv, Asking
<1> QED
  BY <1>5, <1>6, <1>7, <1>8 DEF ViewInv

LEMMA EndKeeps ==
    ViewInv /\ (Format \/ FormatRaises \/ \E p : AdapterRaises(p)) => ViewInv'
<1> SUFFICES ASSUME ViewInv, Format \/ FormatRaises \/ \E p : AdapterRaises(p) PROVE ViewInv'
  OBVIOUS
<1>1. /\ UNCHANGED <<order, turn, metrics, formatter, raised, maximum, worst>>
      /\ vpc = "collect" /\ vpc' = "sent" /\ turn = 1
      /\ \/ /\ status' = "200"
            /\ body' = IF formatter = "json" THEN Objects(metrics) ELSE Lines(metrics)
         \/ status' = "raised" /\ body' = body
  BY DEF Format, FormatRaises, AdapterRaises, tracker, ViewInv, TurnInv, Asking
<1>2. body = <<>> /\ formatter \in {"prometheus", "json"}
  BY <1>1 DEF ViewInv, ViewTypeOK
<1>3. AccessInv'
  BY AccessStays DEF Format, FormatRaises, AdapterRaises, ViewInv
<1>4. ViewTypeOK'
  BY <1>1, <1>2, <1>3 DEF ViewInv, ViewTypeOK, AccessInv
<1>5. ListInv' /\ WorstInv'
  BY <1>1 DEF ViewInv, ListInv, WorstInv
<1>6. BodyInv' /\ AskedInv' /\ TurnInv'
  BY <1>1, <1>2 DEF ViewInv, BodyInv, AskedInv, TurnInv
<1> QED
  BY <1>3, <1>4, <1>5, <1>6 DEF ViewInv

LEMMA ViewStep == ViewInv /\ [ViewNext]_viewVars => ViewInv'
<1> SUFFICES ASSUME ViewInv, [ViewNext]_viewVars PROVE ViewInv'
  OBVIOUS
<1>1. CASE CheckAccess
  BY <1>1, CheckAccessKeeps
<1>2. CASE Forbid \/ AccessRaises \/ Admit
  BY <1>2, ReturnKeeps
<1>3. ASSUME NEW parameter \in {"none", "prometheus", "json"}, NEW accept \in {"any", "json"},
             NEW available \in SUBSET {"prometheus", "json"},
             Choose(parameter, accept, available)
      PROVE  ViewInv'
  BY <1>3, ChooseKeeps
<1>4. ASSUME NEW o \in Orders, NEW p \in ToSet(o), Collect(p) PROVE ViewInv'
  BY <1>4, CollectKeeps
<1>5. ASSUME NEW o \in Orders, NEW p \in ToSet(o), CollectRaises(p) PROVE ViewInv'
  BY <1>5, CollectRaisesKeeps
<1>6. CASE CollectRequest
  BY <1>6, CollectRequestKeeps
<1>7. ASSUME NEW n \in 0..Len(RequestFamilies), CollectRequestRaises(n) PROVE ViewInv'
  BY <1>7, CollectRequestRaisesKeeps
<1>8. ASSUME NEW a \in Auth, NEW duration \in 1..MaxDuration, Record(a, duration) PROVE ViewInv'
  BY <1>8, RecordKeeps
<1>9. CASE Format \/ FormatRaises \/ \E p : AdapterRaises(p)
  BY <1>9, EndKeeps
<1>10. CASE UNCHANGED viewVars
  <2>1. UNCHANGED vars /\ UNCHANGED <<vpc, order, turn, metrics, formatter, raised, status, body,
                                      maximum, worst>>
    BY <1>10 DEF viewVars, scrape, response, tracker
  <2>2. AccessInv'
    BY <2>1, AccessStays DEF ViewInv
  <2>3. ViewTypeOK'
    BY <2>1, <2>2 DEF ViewInv, ViewTypeOK, AccessInv
  <2>4. ListInv' /\ WorstInv' /\ BodyInv' /\ AskedInv' /\ TurnInv'
    BY <2>1 DEF ViewInv, ListInv, WorstInv, BodyInv, AskedInv, TurnInv, Asking
  <2> QED
    BY <2>2, <2>3, <2>4 DEF ViewInv
<1> QED
  BY <1>1, <1>2, <1>3, <1>4, <1>5, <1>6, <1>7, <1>8, <1>9, <1>10 DEF ViewNext

-----------------------------------------------------------------------------
(* What follows.                                                           *)

(* Type correctness: the view is done when it has a status, and has a       *)
(* formatter when it asks the providers.                                    *)
THEOREM ViewTypeCorrect == ViewSpec => []ViewTypeOK
<1>1. ViewInv => ViewTypeOK
  BY DEF ViewInv
<1> QED
  BY <1>1, ViewStart, ViewStep, PTL DEF ViewSpec

\* What has been taken is in the list.
LEMMA TakenIsListed ==
    ASSUME NEW ms \in Seq(Samples), metrics = ms, NEW a, NEW v
    PROVE  v \in Taken(a) <=> Lists(ms, a, v)
<1>1. ToSet(ms) = {ms[n] : n \in 1..Len(ms)}
  BY DEF ToSet
<1> QED
  BY <1>1 DEF Taken, Lists

\* The line of a maximum that is in the list is in the body.
LEMMA ListedIsAnswered ==
    ASSUME ViewInv, status = "200", NEW a, NEW v, Lists(metrics, a, v)
    PROVE  <<"sample", "max", a, v>> \in ToSet(body)
<1>1. metrics \in Seq(Samples)
      /\ body = IF formatter = "json" THEN Objects(metrics) ELSE Lines(metrics)
  BY DEF ViewInv, ListInv, BodyInv
<1>2. PICK k \in 1..Len(metrics) :
         metrics[k].auth = a /\ metrics[k].family = "max" /\ metrics[k].value = v
  BY DEF Lists
<1>3. Line(metrics[k]) = <<"sample", "max", a, v>>
  BY <1>2 DEF Line
<1>4. CASE formatter = "json"
  <2>1. k \in DOMAIN Objects(metrics) /\ Objects(metrics)[k] = Line(metrics[k])
    BY <1>1 DEF Objects
  <2> QED
    BY <1>1, <1>3, <1>4, <2>1 DEF ToSet
<1>5. CASE formatter # "json"
  <2> DEFINE out == Lines(metrics)
             N == Len(metrics)
  <2>1. out \in Seq(Texts) /\ \A j \in 1..N : \E n \in 1..Len(out) : out[n] = Line(metrics[j])
    BY <1>1, LinesArePrinted DEF Prints, Numbered
  <2> HIDE DEF out
  <2>2. PICK n \in 1..Len(out) : out[n] = Line(metrics[k])
    BY <2>1
  <2>3. n \in DOMAIN out
    BY <2>1
  <2> QED
    BY <1>1, <1>3, <1>5, <2>2, <2>3 DEF ToSet, out
<1> QED
  BY <1>4, <1>5

(* Taking a maximum out of the tracker does not lose it: the longest        *)
(* request since the last scrape is in the tracker or in the answer, for    *)
(* every order of the providers, every fault and every bound on durations.  *)
THEOREM MaximaAreKept == ViewSpec => []NoMaximumIsLost
<1>1. ViewInv => NoMaximumIsLost
  <2> SUFFICES ASSUME ViewInv, NEW a \in Auth
               PROVE  /\ worst[a] \in {maximum[a]} \cup Taken(a)
                      /\ status \in {"403", "500"} => maximum[a] = worst[a]
                      /\ status = "200" /\ worst[a] # maximum[a] =>
                             <<"sample", "max", a, worst[a]>> \in ToSet(body)
    BY DEF NoMaximumIsLost
  <2>1. worst[a] = maximum[a] \/ Lists(metrics, a, worst[a])
    BY DEF ViewInv, WorstInv
  <2>2. metrics \in Seq(Samples)
    BY DEF ViewInv, ListInv
  <2>3. worst[a] \in {maximum[a]} \cup Taken(a)
    BY <2>1, <2>2, TakenIsListed
  <2>4. ASSUME status \in {"403", "500"} PROVE maximum[a] = worst[a]
    <3>1. metrics = <<>>
      BY <2>4 DEF ViewInv, ListInv
    <3>2. ~Lists(metrics, a, worst[a])
      BY <3>1 DEF Lists
    <3> QED
      BY <2>1, <3>2
  <2>5. ASSUME status = "200", worst[a] # maximum[a]
        PROVE  <<"sample", "max", a, worst[a]>> \in ToSet(body)
    BY <2>1, <2>5, ListedIsAnswered
  <2> QED
    BY <2>3, <2>4, <2>5
<1> QED
  BY <1>1, ViewStart, ViewStep, PTL DEF ViewSpec

LEMMA NothingLeft ==
    ASSUME NEW S, NEW o \in Seq(S), NEW d \in 0..Len(o), SubSeq(o, d + 1, Len(o)) = <<>>
    PROVE  d = Len(o)
<1> DEFINE N == Len(o)
           from == d + 1
<1>1. N \in Nat /\ d \in 0..N /\ \A n \in 1..N : o[n] \in S
  OBVIOUS
<1>2. SubSeq(o, from, N) = <<>>
  OBVIOUS
<1> SUFFICES ASSUME d # N PROVE FALSE
  OBVIOUS
<1> HIDE DEF N
<1>3. from \in 1..N /\ from <= N /\ N - from + 1 # 0 /\ N - from + 1 \in Nat
  BY <1>1
<1>4. \A n \in from..N : n \in 1..N
  BY <1>1, <1>3
<1> HIDE DEF from
<1>5. Len(SubSeq(o, from, N)) = N - from + 1
  BY <1>1, <1>3, <1>4, SubSeqProperties
<1>6. Len(<<>>) = 0
  OBVIOUS
<1> QED
  BY <1>2, <1>3, <1>5, <1>6

(* A provider that raises takes nothing from the others, whichever raise    *)
(* and in whichever order the registry has them.                            *)
THEOREM ProvidersStandAlone == ViewSpec => []ProvidersAreIsolated
<1>1. ViewInv => ProvidersAreIsolated
  <2> SUFFICES ASSUME ViewInv, formatter # "none", order = <<>>
               PROVE  \E o \in Orders : \A p \in ToSet(o) :
                         IF p \in raised
                         THEN \E y \in Yields(p) : IsPrefix(Contribution(p), y)
                         ELSE Contribution(p) \in Yields(p)
    BY DEF ProvidersAreIsolated
  <2>1. PICK o \in Orders : \E d \in 0..Len(o) : Asked(o, d, order, metrics, raised, turn)
    BY DEF ViewInv, AskedInv
  <2>2. PICK d \in 0..Len(o) : Asked(o, d, order, metrics, raised, turn)
    BY <2>1
  <2>3. o \in Seq(Providers) /\ Len(o) \in Nat /\ DOMAIN o = 1..Len(o)
    BY OrderType
  <2>4. d = Len(o)
    <3>1. SubSeq(o, d + 1, Len(o)) = <<>>
      BY <2>2 DEF Asked
    <3> QED
      BY <2>3, <3>1, NothingLeft
  <2>5. metrics \in Seq(Samples)
    BY DEF ViewInv, ListInv
  <2>6. ASSUME NEW p \in ToSet(o)
        PROVE  IF p \in raised
               THEN \E y \in Yields(p) : IsPrefix(Contribution(p), y)
               ELSE Contribution(p) \in Yields(p)
    <3>1. PICK n \in 1..Len(o) : o[n] = p
      BY <2>3 DEF ToSet
    <3>2. Served(metrics, raised, p)
      BY <2>2, <2>3, <2>4, <2>6, <3>1 DEF Asked
    <3>3. PICK y \in Yields(p) :
             IF p \in raised THEN \E s \in Prefixes(y) : Stands(metrics, p, s)
             ELSE Stands(metrics, p, y)
      BY <3>2 DEF Served
    <3>4. y \in Seq(SamplesOf(p))
      BY YieldType
    <3>5. CASE p \in raised
      <4>1. PICK s \in Prefixes(y) : Stands(metrics, p, s)
        BY <3>3, <3>5
      <4>2. s \in Seq(SamplesOf(p)) /\ IsPrefix(s, y)
        BY <3>4, PrefixType
      <4>3. Contribution(p) = s
        BY <2>5, <4>1, <4>2, StandingIsContribution
      <4> QED
        BY <3>5, <4>2, <4>3
    <3>6. CASE p \notin raised
      <4>1. Contribution(p) = y
        BY <2>5, <3>3, <3>4, <3>6, StandingIsContribution
      <4> QED
        BY <3>6, <4>1
    <3> QED
      BY <3>5, <3>6
  <2> QED
    BY <2>6
<1> QED
  BY <1>1, ViewStart, ViewStep, PTL DEF ViewSpec

(* The text that is answered announces each name once, above its samples,   *)
(* and has every sample of the list, in the order of the list.              *)
THEOREM NamesAreAnnouncedOnce == ViewSpec => []EachNameIsAnnouncedOnce
<1>1. ViewInv => EachNameIsAnnouncedOnce
  <2> SUFFICES ASSUME ViewInv, status = "200", formatter = "prometheus"
               PROVE  /\ \A n \in DOMAIN body : body[n][1] = "sample" =>
                            \E h \in 1..n :
                               \A k \in DOMAIN body : body[k] = <<"header", body[n][2]>> <=> k = h
                      /\ SamplesUpTo(Len(body)) = Len(metrics)
                      /\ \A n \in DOMAIN body : body[n][1] = "sample" =>
                            body[n] = Line(metrics[SamplesUpTo(n)])
    BY DEF EachNameIsAnnouncedOnce
  <2>1. metrics \in Seq(Samples) /\ body = Lines(metrics)
    BY DEF ViewInv, ListInv, BodyInv
  <2>2. Prints(body, metrics, Len(metrics))
    BY <2>1, LinesArePrinted
  <2>3. body \in Seq(Texts) /\ DOMAIN body = 1..Len(body) /\ Len(body) \in Nat
    BY <2>2 DEF Prints
  <2>4. \A n : SamplesUpTo(n) = SamplesIn(body, n)
    BY DEF SamplesUpTo, SamplesIn
  <2>5. /\ SamplesUpTo(Len(body)) = Len(metrics)
        /\ \A n \in DOMAIN body : body[n][1] = "sample" =>
              body[n] = Line(metrics[SamplesUpTo(n)])
    BY <2>2, <2>3, <2>4 DEF Prints, Numbered
  <2>6. ASSUME NEW n \in DOMAIN body, body[n][1] = "sample"
        PROVE  \E h \in 1..n :
                  \A k \in DOMAIN body : body[k] = <<"header", body[n][2]>> <=> k = h
    <3>1. /\ \A j, k \in 1..Len(body) : body[j][1] = "header" /\ body[j] = body[k] => j = k
          /\ \E h \in 1..n : body[h] = <<"header", body[n][2]>>
      BY <2>2, <2>3, <2>6 DEF Prints, Announced
    <3>2. PICK h \in 1..n : body[h] = <<"header", body[n][2]>>
      BY <3>1
    <3>3. h \in 1..Len(body) /\ body[h][1] = "header"
      BY <2>3, <3>2
    <3>4. \A k \in DOMAIN body : body[k] = <<"header", body[n][2]>> <=> k = h
      BY <2>3, <3>1, <3>2, <3>3
    <3> QED
      BY <3>4
  <2> QED
    BY <2>5, <2>6
<1> QED
  BY <1>1, ViewStart, ViewStep, PTL DEF ViewSpec

=============================================================================
