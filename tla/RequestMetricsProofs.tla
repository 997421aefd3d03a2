------------------------ MODULE RequestMetricsProofs ------------------------
(***************************************************************************)
(* Proofs about RequestMetrics, for every number of workers, scrapers,     *)
(* auth classes, buckets, durations and requests.                          *)
(***************************************************************************)
EXTENDS RequestMetrics, Sums, TLAPS

\* What the argument about the lock and the counters needs of the types.
Types ==
    /\ count \in [Auths -> Nat]
    /\ bucket \in [Auths -> [Bounds -> Nat]]
    /\ inf \in [Auths -> Nat]
    /\ maxDuration \in [Auths -> Int]
    /\ lock \in Workers \cup Scrapers \cup {Free}
    /\ wpc \in [Workers -> {"idle", "record", "sum", "buckets", "errors"}]
    /\ job \in [Workers -> SUBSET Jobs]
    /\ spc \in [Scrapers -> {"idle", "count", "max", "reset", "buckets", "done"}]
    /\ at \in [Scrapers -> DOMAIN AUTH_CLASSES]
    /\ seen \in [Scrapers -> [count : Nat, max : Int, bucket : [Bounds -> Nat], inf : Nat]]

Inside == {"sum", "buckets", "errors"}

\* The holder of the lock is the one worker inside record's with block, or the
\* one scraper inside that of take_max.
LockInv ==
    /\ \A w \in Workers : wpc[w] \in Inside <=> lock = w
    /\ \A s \in Scrapers : spc[s] = "reset" <=> lock = s
    /\ \A w \in Workers : \A i, j \in job[w] : i = j

\* A worker has counted a request of class a and not yet its +Inf bucket.
Owes(w, a) == wpc[w] \in {"sum", "buckets"} /\ \E j \in job[w] : j.auth = a

\* The count and the +Inf bucket differ by the request being recorded.
GapInv ==
    \A a \in Auths :
        count[a] = inf[a] + (IF \E w \in Workers : Owes(w, a) THEN 1 ELSE 0)

\* What a scrape has read of the class it is at.
SeenInv ==
    \A s \in Scrapers :
        /\ spc[s] = "max" => seen[s].count <= count[Class(s)]
        /\ spc[s] \in {"reset", "buckets"} => seen[s].count <= inf[Class(s)]
        /\ spc[s] = "done" => seen[s].count <= seen[s].inf

IInv == Types /\ LockInv /\ GapInv /\ SeenInv

\* The class a scraper is at is an auth class.
LEMMA ClassIsAuth == ASSUME Types, NEW s \in Scrapers PROVE Class(s) \in Auths
BY DEF Types, Class, Auths

\* There is a first class, and a next one unless the scraper is at the last.
LEMMA ClassIndices ==
  /\ 1 \in DOMAIN AUTH_CLASSES
  /\ \A i \in DOMAIN AUTH_CLASSES : i < Len(AUTH_CLASSES) => i + 1 \in DOMAIN AUTH_CLASSES
BY DomainAssumption

-----------------------------------------------------------------------------
(* Workers.                                                                *)

\* Call touches nothing but the worker's own place and arguments.
LEMMA CallStep ==
  ASSUME IInv, NEW w \in Workers, NEW a \in Auths, NEW d \in Durations,
         NEW status \in Statuses, NEW raised \in BOOLEAN, Call(w, a, d, status, raised)
  PROVE  IInv'
<1> DEFINE st == IF raised THEN 200 ELSE status
           jb == [auth |-> a, duration |-> d, status |-> st]
<1>1. jb \in Jobs
  <2>1. st \in Statuses
    BY DomainAssumption
  <2> QED
    BY <2>1 DEF Jobs
<1> HIDE DEF jb
<1>2. job' = [job EXCEPT ![w] = {jb}] /\ wpc' = [wpc EXCEPT ![w] = "record"] /\ wpc[w] = "idle"
  BY DEF Call, jb
<1>3. UNCHANGED <<count, bucket, inf, maxDuration, lock, spc, at, seen>>
  BY DEF Call, stats, scraper
<1>4. Types'
  BY <1>1, <1>2, <1>3 DEF IInv, Types
<1>5. LockInv'
  BY <1>2, <1>3 DEF IInv, Types, LockInv, Inside
<1>6. \A v \in Workers, c \in Auths : Owes(v, c)' <=> Owes(v, c)
  BY <1>2 DEF IInv, Types, Owes
<1>7. GapInv'
  BY <1>3, <1>6 DEF IInv, GapInv
<1>8. SeenInv'
  BY <1>3 DEF IInv, SeenInv, Class
<1> QED
  BY <1>4, <1>5, <1>7, <1>8 DEF IInv

\* The steps of record inside the lock that neither open nor close the gap.
LEMMA GapStays ==
  ASSUME IInv,
         UNCHANGED <<count, inf>>,
         \A v \in Workers, c \in Auths : Owes(v, c)' <=> Owes(v, c)
  PROVE  GapInv'
BY DEF IInv, GapInv

\* Only the holder of the lock can owe anything.
LEMMA OnlyHolderOwes ==
  ASSUME IInv, NEW w \in Workers, NEW a \in Auths, Owes(w, a)
  PROVE  lock = w
BY DEF IInv, LockInv, Owes, Inside

\* A step of record preserves the invariant.
LEMMA RecordStep ==
  ASSUME IInv, NEW w \in Workers, NEW j \in Jobs, Record(w, j)
  PROVE  IInv'
<1>1. CASE RecordCount(w, j)
  <2>1. /\ wpc[w] = "record" /\ j \in job[w] /\ lock = Free /\ lock' = w /\ j.auth \in Auths
        /\ count' = [count EXCEPT ![j.auth] = @ + 1]
        /\ wpc' = [wpc EXCEPT ![w] = "sum"]
        /\ UNCHANGED <<bucket, inf, maxDuration, job, spc, at, seen>>
    BY <1>1 DEF RecordCount, scraper, Jobs
  <2>2. Types'
    BY <2>1 DEF IInv, Types
  <2>3. LockInv'
    BY <2>1, DomainAssumption DEF IInv, Types, LockInv, Inside
  <2>4. \A v \in Workers, a \in Auths : ~Owes(v, a)
    BY <2>1, OnlyHolderOwes, DomainAssumption
  <2>5. \A a \in Auths : (\E v \in Workers : Owes(v, a)') <=> a = j.auth
    BY <2>1, <2>4 DEF Owes, IInv, Types, LockInv
  <2>6. GapInv'
    BY <2>1, <2>4, <2>5 DEF IInv, Types, GapInv
  <2>7. SeenInv'
    <3>1. \A s \in Scrapers : Class(s)' = Class(s) /\ Class(s) \in Auths
      BY <2>1, ClassIsAuth DEF IInv, Class
    <3>2. \A a \in Auths : count[a] <= count'[a]
      BY <2>1 DEF IInv, Types
    <3>3. \A s \in Scrapers : seen[s].count \in Nat /\ count[Class(s)] \in Nat /\ count'[Class(s)] \in Nat
      BY <2>2, <3>1 DEF IInv, Types
    <3> QED
      BY <2>1, <3>1, <3>2, <3>3 DEF IInv, SeenInv
  <2> QED
    BY <2>2, <2>3, <2>6, <2>7 DEF IInv
<1>2. CASE RecordSum(w, j) \/ \E b \in Bounds : RecordBucket(w, j, b)
  <2>1. /\ wpc[w] \in {"sum", "buckets"} /\ wpc' = [wpc EXCEPT ![w] = "buckets"]
        /\ UNCHANGED <<count, inf, lock, job, spc, at, seen>>
    BY <1>2 DEF RecordSum, RecordBucket, scraper, IInv, Types
  <2>2. bucket' \in [Auths -> [Bounds -> Nat]] /\ maxDuration' \in [Auths -> Int]
    <3>1. j.duration \in Int /\ maxDuration \in [Auths -> Int]
      BY DomainAssumption DEF IInv, Types, Jobs
    <3>2. \/ UNCHANGED maxDuration
          \/ maxDuration' = [maxDuration EXCEPT ![j.auth] = IF j.duration > @ THEN j.duration ELSE @]
      BY <1>2 DEF RecordSum, RecordBucket
    <3>3. bucket' \in [Auths -> [Bounds -> Nat]]
      <4>1. bucket \in [Auths -> [Bounds -> Nat]]
        BY DEF IInv, Types
      <4>2. \/ UNCHANGED bucket
            \/ \E b \in Bounds :
                  bucket' = [bucket EXCEPT ![j.auth] = [bucket[j.auth] EXCEPT ![b] = @ + 1]]
        BY <1>2 DEF RecordSum, RecordBucket
      <4>3. j.auth \in Auths
        BY DEF Jobs
      <4>4. \A b \in Bounds : [bucket[j.auth] EXCEPT ![b] = @ + 1] \in [Bounds -> Nat]
        BY <4>1, <4>3
      <4> QED
        BY <4>1, <4>2, <4>3, <4>4
    <3> QED
      BY <3>1, <3>2, <3>3
  <2>3. Types'
    BY <2>1, <2>2 DEF IInv, Types
  <2>4. LockInv'
    BY <2>1 DEF IInv, Types, LockInv, Inside
  <2>5. GapInv'
    BY <2>1, GapStays DEF Owes, IInv, Types
  <2>6. SeenInv'
    BY <2>1 DEF IInv, SeenInv, Class
  <2> QED
    BY <2>3, <2>4, <2>5, <2>6 DEF IInv
<1>3. CASE RecordInf(w, j)
  <2>1. /\ wpc[w] = "buckets" /\ j \in job[w] /\ j.auth \in Auths
        /\ inf' = [inf EXCEPT ![j.auth] = @ + 1]
        /\ wpc' = [wpc EXCEPT ![w] = "errors"]
        /\ UNCHANGED <<count, bucket, maxDuration, lock, job, spc, at, seen>>
    BY <1>3 DEF RecordInf, scraper, Jobs
  <2>2. Types'
    BY <2>1 DEF IInv, Types
  <2>3. LockInv'
    BY <2>1 DEF IInv, Types, LockInv, Inside
  <2>4. \A v \in Workers \ {w}, a \in Auths : ~Owes(v, a)
    BY <2>1, OnlyHolderOwes DEF IInv, LockInv, Inside
  <2>5. \A a \in Auths : Owes(w, a) <=> a = j.auth
    BY <2>1 DEF Owes, IInv, LockInv
  <2>6. \A v \in Workers, a \in Auths : ~Owes(v, a)'
    BY <2>1, <2>4 DEF Owes, IInv, Types
  <2>7. GapInv'
    BY <2>1, <2>4, <2>5, <2>6 DEF IInv, Types, GapInv
  <2>8. SeenInv'
    <3>1. \A s \in Scrapers : Class(s)' = Class(s) /\ Class(s) \in Auths
      BY <2>1, ClassIsAuth DEF IInv, Class
    <3>2. \A a \in Auths : inf[a] <= inf'[a]
      BY <2>1 DEF IInv, Types
    <3>3. \A s \in Scrapers : seen[s].count \in Nat /\ inf[Class(s)] \in Nat /\ inf'[Class(s)] \in Nat
      BY <2>2, <3>1 DEF IInv, Types
    <3> QED
      BY <2>1, <3>1, <3>2, <3>3 DEF IInv, SeenInv
  <2> QED
    BY <2>2, <2>3, <2>7, <2>8 DEF IInv
<1>4. CASE RecordErrors(w, j)
  <2>1. /\ wpc[w] = "errors" /\ wpc' = [wpc EXCEPT ![w] = "idle"]
        /\ lock' = Free /\ job' = [job EXCEPT ![w] = {}]
        /\ UNCHANGED <<count, bucket, inf, maxDuration, spc, at, seen>>
    BY <1>4 DEF RecordErrors, scraper
  <2>2. Types'
    BY <2>1 DEF IInv, Types
  <2>3. LockInv'
    <3>1. lock = w /\ w \notin Scrapers /\ w # Free
      BY <2>1, DomainAssumption DEF IInv, LockInv, Inside
    <3> QED
      BY <2>1, <3>1, DomainAssumption DEF IInv, Types, LockInv, Inside
  <2>4. \A v \in Workers, a \in Auths : Owes(v, a)' <=> Owes(v, a)
    BY <2>1 DEF Owes, IInv, Types
  <2>5. GapInv'
    BY <2>1, <2>4, GapStays
  <2>6. SeenInv'
    BY <2>1 DEF IInv, SeenInv, Class
  <2> QED
    BY <2>2, <2>3, <2>5, <2>6 DEF IInv
<1> QED
  BY <1>1, <1>2, <1>3, <1>4 DEF Record

-----------------------------------------------------------------------------
(* Scrapers.                                                               *)

\* What collect does to the lock is to take it, when it is free, and to give
\* it back: no worker's turn with it begins or ends.
LEMMA CollectLock ==
  ASSUME Types, LockInv, NEW s \in Scrapers, Collect(s)
  PROVE  LockInv' /\ (lock' \in Workers \cup Scrapers \cup {Free}) /\ \A w \in Workers : lock' = w <=> lock = w
<1>1. UNCHANGED <<wpc, job>> /\ \E p : spc' = [spc EXCEPT ![s] = p]
  BY DEF Collect, Scrape, ReadCount, ReadMax, ResetMax, ReadBuckets, NextClass, worker
<1>2. s \notin Workers /\ s # Free /\ Free \notin Workers /\ Free \notin Scrapers
  BY DomainAssumption
<1>3. CASE ReadMax(s)
  <2>1. lock = Free /\ lock' = s /\ spc' = [spc EXCEPT ![s] = "reset"]
    BY <1>3 DEF ReadMax
  <2> QED
    BY <1>1, <1>2, <2>1 DEF Types, LockInv
<1>4. CASE ResetMax(s)
  <2>1. spc[s] = "reset" /\ lock' = Free /\ spc' = [spc EXCEPT ![s] = "buckets"]
    BY <1>4 DEF ResetMax
  <2>2. lock = s
    BY <2>1 DEF LockInv
  <2> QED
    BY <1>1, <1>2, <2>1, <2>2 DEF Types, LockInv
<1>5. CASE Scrape(s) \/ ReadCount(s) \/ ReadBuckets(s) \/ NextClass(s)
  <2>1. /\ spc[s] # "reset" /\ UNCHANGED lock
        /\ \E p \in {"idle", "count", "max", "done"} : spc' = [spc EXCEPT ![s] = p]
    BY <1>5 DEF Scrape, ReadCount, ReadBuckets, NextClass
  <2> QED
    BY <1>1, <1>2, <2>1 DEF Types, LockInv
<1> QED
  BY <1>3, <1>4, <1>5 DEF Collect

\* A step of collect preserves the invariant.  The one that matters is
\* ReadMax: with the lock free nobody owes, so +Inf has caught up.
LEMMA CollectStep ==
  ASSUME IInv, NEW s \in Scrapers, Collect(s)
  PROVE  IInv'
<1>1. /\ UNCHANGED <<count, bucket, inf, wpc, job>>
      /\ lock' \in Workers \cup Scrapers \cup {Free}
  BY CollectLock DEF IInv, Collect, Scrape, ReadCount, ReadMax, ResetMax, ReadBuckets, NextClass, stats, worker
<1>2. LockInv' /\ GapInv'
  BY <1>1, CollectLock DEF IInv, GapInv, Owes
<1>3. Class(s) \in Auths
  BY ClassIsAuth DEF IInv
<1>4. Types' /\ SeenInv'
  <2>1. CASE Scrape(s)
    BY <1>1, <2>1 DEF Scrape, stats, IInv, Types, SeenInv, Class
  <2>2. CASE ReadCount(s)
    <3>1. /\ spc' = [spc EXCEPT ![s] = "max"]
          /\ seen' = [seen EXCEPT ![s].count = count[Class(s)]]
          /\ at' = at /\ maxDuration' = maxDuration
      BY <2>2 DEF ReadCount, stats
    <3>2. count[Class(s)] \in Nat
      BY <1>3 DEF IInv, Types
    <3>3. Types'
      BY <1>1, <3>1, <3>2 DEF IInv, Types
    <3>4. seen'[s].count <= count'[Class(s)']
      BY <1>1, <3>1, <3>2 DEF IInv, Types, Class
    <3>5. SeenInv'
      BY <1>1, <3>1, <3>4 DEF IInv, Types, SeenInv, Class
    <3> QED
      BY <3>3, <3>5
  <2>3. CASE ReadMax(s)
    <3>1. \A w \in Workers, a \in Auths : ~Owes(w, a)
      BY <2>3, OnlyHolderOwes, DomainAssumption DEF ReadMax
    <3>2. count[Class(s)] = inf[Class(s)] /\ maxDuration[Class(s)] \in Int
      <4>1. count[Class(s)] = inf[Class(s)] + 0
        BY <1>3, <3>1 DEF IInv, GapInv
      <4>2. inf[Class(s)] \in Nat /\ maxDuration[Class(s)] \in Int
        BY <1>3 DEF IInv, Types
      <4> QED
        BY <4>1, <4>2
    <3>3. /\ spc[s] = "max" /\ spc' = [spc EXCEPT ![s] = "reset"]
          /\ seen' = [seen EXCEPT ![s].max = maxDuration[Class(s)]]
          /\ at' = at /\ maxDuration' = maxDuration
      BY <2>3 DEF ReadMax, stats
    <3>4. Types'
      BY <1>1, <3>2, <3>3 DEF IInv, Types
    <3>5. seen'[s].count = seen[s].count
      BY <3>3 DEF IInv, Types
    <3>6. SeenInv'
      BY <1>1, <3>2, <3>3, <3>5 DEF IInv, Types, SeenInv, Class
    <3> QED
      BY <3>4, <3>6
  <2>4. CASE ResetMax(s)
    <3>1. /\ spc[s] = "reset" /\ spc' = [spc EXCEPT ![s] = "buckets"]
          /\ maxDuration' = [maxDuration EXCEPT ![Class(s)] = 0]
          /\ UNCHANGED <<at, seen>>
      BY <2>4 DEF ResetMax
    <3>2. Types'
      <4>1. maxDuration \in [Auths -> Int] /\ 0 \in Int
        BY DEF IInv, Types
      <4> HIDE DEF Class
      <4>2. \A f \in [Auths -> Int] : \A c : \A i \in Int : [f EXCEPT ![c] = i] \in [Auths -> Int]
        OBVIOUS
      <4>3. maxDuration' \in [Auths -> Int]
        BY <3>1, <4>1, <4>2
      <4> QED
        BY <1>1, <3>1, <4>3 DEF IInv, Types
    <3>3. SeenInv'
      BY <1>1, <3>1 DEF IInv, Types, SeenInv, Class
    <3> QED
      BY <3>2, <3>3
  <2>5. CASE ReadBuckets(s)
    <3> DEFINE r == [seen[s] EXCEPT !.bucket = bucket[Class(s)], !.inf = inf[Class(s)]]
    <3>1. /\ spc[s] = "buckets" /\ spc' = [spc EXCEPT ![s] = "done"]
          /\ seen' = [seen EXCEPT ![s] = r]
          /\ at' = at /\ maxDuration' = maxDuration
      BY <2>5 DEF ReadBuckets, stats
    <3>2. /\ r \in [count : Nat, max : Int, bucket : [Bounds -> Nat], inf : Nat]
          /\ r.count = seen[s].count /\ r.inf = inf[Class(s)]
      <4>1. seen[s] \in [count : Nat, max : Int, bucket : [Bounds -> Nat], inf : Nat]
        BY DEF IInv, Types
      <4>2. bucket[Class(s)] \in [Bounds -> Nat] /\ inf[Class(s)] \in Nat
        BY <1>3 DEF IInv, Types
      <4> QED
        BY <4>1, <4>2
    <3>3. seen[s].count <= inf[Class(s)]
      BY <3>1 DEF IInv, SeenInv
    <3> HIDE DEF r
    <3>4. Types'
      BY <1>1, <3>1, <3>2 DEF IInv, Types
    <3>5. SeenInv'
      BY <1>1, <3>1, <3>2, <3>3 DEF IInv, Types, SeenInv, Class
    <3> QED
      BY <3>4, <3>5
  <2>6. CASE NextClass(s)
    <3>1. Nothing \in [count : Nat, max : Int, bucket : [Bounds -> Nat], inf : Nat]
      BY DEF Nothing
    <3>2. /\ \E i \in DOMAIN AUTH_CLASSES : at' = [at EXCEPT ![s] = i]
          /\ \E p \in {"idle", "count"} : spc' = [spc EXCEPT ![s] = p]
          /\ seen' = [seen EXCEPT ![s] = Nothing] /\ maxDuration' = maxDuration
      BY <2>6, ClassIndices DEF NextClass, stats, IInv, Types
    <3>3. Types'
      BY <1>1, <3>1, <3>2 DEF IInv, Types
    <3>4. SeenInv'
      BY <1>1, <3>2 DEF IInv, Types, SeenInv, Class
    <3> QED
      BY <3>3, <3>4
  <2> QED
    BY <2>1, <2>2, <2>3, <2>4, <2>5, <2>6 DEF Collect
<1> QED
  BY <1>2, <1>4 DEF IInv

-----------------------------------------------------------------------------

\* The invariant holds in every reachable state.
LEMMA InvariantHolds == Spec => []IInv
<1>1. Init => IInv
  <2> SUFFICES ASSUME Init PROVE IInv
    OBVIOUS
  <2>1. Nothing \in [count : Nat, max : Int, bucket : [Bounds -> Nat], inf : Nat]
    BY DEF Nothing
  <2>2. Types
    BY <2>1, ClassIndices DEF Init, Types
  <2>3. LockInv
    BY DomainAssumption DEF Init, LockInv, Inside
  <2>4. GapInv
    BY DEF Init, GapInv, Owes
  <2>5. SeenInv
    BY DEF Init, SeenInv
  <2> QED
    BY <2>2, <2>3, <2>4, <2>5 DEF IInv
<1>2. IInv /\ [Next]_vars => IInv'
  <2> SUFFICES ASSUME IInv, [Next]_vars PROVE IInv'
    OBVIOUS
  <2>1. CASE UNCHANGED vars
    BY <2>1 DEF vars, stats, worker, scraper, IInv, Types, LockInv, GapInv, Owes, SeenInv, Class
  <2> QED
    BY <2>1, CallStep, RecordStep, CollectStep DEF Next
<1> QED
  BY <1>1, <1>2, PTL DEF Spec

(* In every class of every scrape the +Inf bucket covers the count that was  *)
(* read before it, because take_max waits for the lock in between.           *)
THEOREM InfAlwaysCoversCount == Spec => []InfCoversCount
<1>1. IInv => InfCoversCount
  BY DEF IInv, SeenInv, InfCoversCount
<1> QED
  BY <1>1, InvariantHolds, PTL

-----------------------------------------------------------------------------
(* The rest of the types.                                                  *)

MoreTypes ==
    /\ sum \in [Auths -> Int]
    /\ errors \in [Auths -> [ErrorCodes -> Nat]]
    /\ todo \in [Workers -> SUBSET Bounds]
    /\ taken \in [Scrapers -> SUBSET Durations]
    /\ arrived \in 0..MaxRequests
    /\ done \in [Jobs -> Nat]
    /\ window \in [Auths -> SUBSET Durations]
    /\ failed \in 0..arrived

\* Only the arguments of record reach the sums, the maxima and the history.
LEMMA MoreTypesStep ==
  ASSUME IInv, MoreTypes, Next
  PROVE  MoreTypes'
<1> USE DomainAssumption DEF MoreTypes
<1>1. ASSUME NEW w \in Workers, NEW a \in Auths, NEW d \in Durations,
             NEW status \in Statuses, NEW raised \in BOOLEAN, Call(w, a, d, status, raised)
      PROVE  MoreTypes'
  <2>1. /\ arrived < MaxRequests /\ arrived' = arrived + 1 /\ failed' \in {failed, failed + 1}
        /\ UNCHANGED <<sum, errors, todo, taken, done, window>>
    BY <1>1 DEF Call, stats, scraper
  <2> QED
    BY <2>1
<1>2. ASSUME NEW w \in Workers, NEW j \in Jobs, Record(w, j) PROVE MoreTypes'
  <2>1. j.auth \in Auths /\ j.duration \in Durations /\ j.status \in Statuses /\ j.duration \in Int
    BY DEF Jobs
  <2>2. CASE RecordCount(w, j) \/ RecordInf(w, j)
    BY <2>2 DEF RecordCount, RecordInf, scraper, history
  <2>3. CASE RecordSum(w, j)
    BY <2>1, <2>3 DEF RecordSum, scraper, history
  <2>4. CASE \E b \in Bounds : RecordBucket(w, j, b)
    BY <2>4 DEF RecordBucket, scraper, history
  <2>5. CASE RecordErrors(w, j)
    <3>1. errors' \in [Auths -> [ErrorCodes -> Nat]]
      <4>1. CASE j.status >= 400
        <5>1. j.status \in ErrorCodes /\ errors' = [errors EXCEPT ![j.auth][j.status] = @ + 1]
          BY <2>1, <2>5, <4>1 DEF RecordErrors, ErrorCodes
        <5>2. [errors[j.auth] EXCEPT ![j.status] = @ + 1] \in [ErrorCodes -> Nat]
          BY <2>1, <5>1
        <5> QED
          BY <2>1, <5>1, <5>2
      <4>2. CASE ~(j.status >= 400)
        BY <2>5, <4>2 DEF RecordErrors
      <4> QED
        BY <4>1, <4>2
    <3>2. done' \in [Jobs -> Nat] /\ window' \in [Auths -> SUBSET Durations]
      BY <2>1, <2>5 DEF RecordErrors
    <3> QED
      BY <2>5, <3>1, <3>2 DEF RecordErrors, scraper
  <2> QED
    BY <1>2, <2>2, <2>3, <2>4, <2>5 DEF Record
<1>3. ASSUME NEW s \in Scrapers, Collect(s) PROVE MoreTypes'
  <2>1. Class(s) \in Auths /\ window[Class(s)] \in SUBSET Durations /\ {} \in SUBSET Durations
    BY ClassIsAuth DEF IInv
  <2>2. CASE ResetMax(s)
    <3>1. /\ taken' = [taken EXCEPT ![s] = window[Class(s)]]
          /\ window' = [window EXCEPT ![Class(s)] = {}]
          /\ UNCHANGED <<sum, errors, todo, arrived, done, failed>>
      BY <2>2 DEF ResetMax, worker
    <3> QED
      BY <2>1, <3>1
  <2>3. CASE NextClass(s)
    <3>1. /\ taken' = [taken EXCEPT ![s] = {}]
          /\ UNCHANGED <<sum, errors, todo, arrived, done, window, failed>>
      BY <2>3 DEF NextClass, stats, worker, history
    <3> QED
      BY <2>1, <3>1
  <2>4. CASE UNCHANGED <<stats, worker, taken, history>>
    BY <2>4 DEF stats, worker, history
  <2> QED
    BY <1>3, <2>2, <2>3, <2>4 DEF Collect, Scrape, ReadCount, ReadMax, ReadBuckets
<1> QED
  BY <1>1, <1>2, <1>3 DEF Next

-----------------------------------------------------------------------------
(* The maximum of a window.                                                *)

\* Requests of class a whose duration is in the maximum, but not yet in the
\* history of the window.
InRecord(a) ==
    {j \in Jobs : j.auth = a /\ \E w \in Workers : wpc[w] \in {"buckets", "errors"} /\ j \in job[w]}

Covered(a) == {0} \cup window[a] \cup {j.duration : j \in InRecord(a)}

MaxInv ==
    \A a \in Auths :
        /\ maxDuration[a] \in Covered(a)
        /\ \A d \in Covered(a) : d <= maxDuration[a]

\* While no worker holds the lock, nothing is being recorded.
LEMMA UnlockedRecordsNothing ==
  ASSUME IInv, lock \notin Workers, NEW a \in Auths
  PROVE  InRecord(a) = {}
BY DomainAssumption DEF IInv, LockInv, Inside, InRecord

\* Steps after which the maxima cover what they covered before.
LEMMA MaxStays ==
  ASSUME MaxInv, maxDuration' = maxDuration, \A a \in Auths : Covered(a)' = Covered(a)
  PROVE  MaxInv'
<1> SUFFICES ASSUME NEW a \in Auths
             PROVE  /\ maxDuration'[a] \in Covered(a)'
                    /\ \A d \in Covered(a)' : d <= maxDuration'[a]
  BY DEF MaxInv
<1> HIDE DEF Covered
<1> QED
  BY DEF MaxInv

\* A record covers a duration from the moment it has looked at the maximum,
\* and take_max has the lock only when all that is in the window.
LEMMA MaxStep ==
  ASSUME IInv, MoreTypes, MaxInv, Next
  PROVE  MaxInv'
<1>1. ASSUME NEW w \in Workers, NEW a \in Auths, NEW d \in Durations,
             NEW status \in Statuses, NEW raised \in BOOLEAN, Call(w, a, d, status, raised)
      PROVE  MaxInv'
  <2>1. /\ wpc[w] = "idle" /\ wpc' = [wpc EXCEPT ![w] = "record"]
        /\ \A v \in Workers : v # w => job'[v] = job[v]
        /\ UNCHANGED <<maxDuration, window>>
    BY <1>1 DEF Call, stats, IInv, Types
  <2>2. \A c \in Auths : InRecord(c)' = InRecord(c)
    BY <2>1 DEF InRecord, IInv, Types
  <2> QED
    BY <2>1, <2>2, MaxStays DEF Covered
<1>2. ASSUME NEW w \in Workers, NEW j \in Jobs, Record(w, j) PROVE MaxInv'
  <2>1. j.auth \in Auths /\ j.duration \in Int
    BY DomainAssumption DEF Jobs
  <2>2. CASE RecordCount(w, j)
    <3>1. /\ wpc[w] = "record" /\ wpc' = [wpc EXCEPT ![w] = "sum"]
          /\ UNCHANGED <<maxDuration, window, job>>
      BY <2>2 DEF RecordCount, history
    <3>2. \A c \in Auths : InRecord(c)' = InRecord(c)
      BY <3>1 DEF InRecord, IInv, Types
    <3> QED
      BY <3>1, <3>2, MaxStays DEF Covered
  <2>3. CASE RecordSum(w, j)
    <3>1. /\ wpc[w] = "sum" /\ j \in job[w] /\ wpc' = [wpc EXCEPT ![w] = "buckets"]
          /\ maxDuration' = [maxDuration EXCEPT ![j.auth] = IF j.duration > @ THEN j.duration ELSE @]
          /\ UNCHANGED <<window, job>>
      BY <2>3 DEF RecordSum, history
    <3>2. \A i \in job[w] : i = j
      BY <3>1 DEF IInv, LockInv
    <3>3. \A c \in Auths : InRecord(c)' = InRecord(c) \cup (IF c = j.auth THEN {j} ELSE {})
      BY <3>1, <3>2 DEF InRecord, IInv, Types
    <3>4. \A c \in Auths : Covered(c)' = Covered(c) \cup (IF c = j.auth THEN {j.duration} ELSE {})
      BY <3>1, <3>3 DEF Covered
    <3>5. ASSUME NEW c \in Auths
          PROVE  /\ maxDuration'[c] \in Covered(c)'
                 /\ \A d \in Covered(c)' : d <= maxDuration'[c]
      <4>1. /\ maxDuration[c] \in Covered(c) /\ \A d \in Covered(c) : d <= maxDuration[c]
            /\ maxDuration[c] \in Int
        BY DEF MaxInv, IInv, Types
      <4>2. \A d \in Covered(c) : d \in Int
        BY DomainAssumption DEF Covered, InRecord, Jobs, MoreTypes
      <4>3. maxDuration'[c] = IF c = j.auth /\ j.duration > maxDuration[c]
                              THEN j.duration ELSE maxDuration[c]
        BY <3>1 DEF IInv, Types
      <4> QED
        BY <2>1, <3>4, <4>1, <4>2, <4>3
    <3> QED
      BY <3>5 DEF MaxInv
  <2>4. CASE (\E b \in Bounds : RecordBucket(w, j, b)) \/ RecordInf(w, j)
    <3>1. /\ wpc[w] = "buckets" /\ wpc'[w] \in {"buckets", "errors"}
          /\ \A v \in Workers : v # w => wpc'[v] = wpc[v]
          /\ UNCHANGED <<maxDuration, window, job>>
      BY <2>4 DEF RecordBucket, RecordInf, history, IInv, Types
    <3>2. \A c \in Auths : InRecord(c)' = InRecord(c)
      BY <3>1 DEF InRecord
    <3> QED
      BY <3>1, <3>2, MaxStays DEF Covered
  <2>5. CASE RecordErrors(w, j)
    <3>1. /\ wpc[w] = "errors" /\ j \in job[w] /\ wpc' = [wpc EXCEPT ![w] = "idle"]
          /\ job' = [job EXCEPT ![w] = {}]
          /\ window' = [window EXCEPT ![j.auth] = @ \cup {j.duration}]
          /\ maxDuration' = maxDuration
      BY <2>5 DEF RecordErrors
    <3>2. /\ \A i \in job[w] : i = j
          /\ \A v \in Workers : wpc[v] \in {"buckets", "errors"} => v = w
      BY <3>1 DEF IInv, LockInv, Inside
    <3>3. \A c \in Auths : InRecord(c)' = {}
      BY <3>1, <3>2 DEF InRecord, IInv, Types
    <3>4. \A c \in Auths : InRecord(c) = IF c = j.auth THEN {j} ELSE {}
      BY <3>1, <3>2 DEF InRecord
    <3>5. \A c \in Auths : window'[c] = window[c] \cup (IF c = j.auth THEN {j.duration} ELSE {})
      BY <2>1, <3>1 DEF MoreTypes
    <3>6. ASSUME NEW c \in Auths PROVE Covered(c)' = Covered(c)
      <4>1. {i.duration : i \in InRecord(c)} = IF c = j.auth THEN {j.duration} ELSE {}
        BY <3>4
      <4>2. {i.duration : i \in InRecord(c)'} = {}
        BY <3>3
      <4> QED
        BY <3>5, <4>1, <4>2 DEF Covered
    <3> QED
      BY <3>1, <3>6, MaxStays
  <2> QED
    BY <1>2, <2>2, <2>3, <2>4, <2>5 DEF Record
<1>3. ASSUME NEW s \in Scrapers, Collect(s) PROVE MaxInv'
  <2>1. CASE ResetMax(s)
    <3>1. /\ lock \notin Workers /\ UNCHANGED <<wpc, job>>
          /\ maxDuration' = [maxDuration EXCEPT ![Class(s)] = 0]
          /\ window' = [window EXCEPT ![Class(s)] = {}]
      BY <2>1, DomainAssumption DEF ResetMax, worker, IInv, LockInv
    <3>2. \A c \in Auths : InRecord(c) = {} /\ InRecord(c)' = {}
      BY <3>1, UnlockedRecordsNothing DEF InRecord
    <3>3. ASSUME NEW c \in Auths
          PROVE  /\ maxDuration'[c] \in Covered(c)'
                 /\ \A d \in Covered(c)' : d <= maxDuration'[c]
      <4>1. CASE c = Class(s)
        BY <3>1, <3>2, <4>1 DEF Covered, MoreTypes, IInv, Types
      <4>2. CASE c # Class(s)
        <5>1. maxDuration'[c] = maxDuration[c] /\ Covered(c)' = Covered(c)
          BY <3>1, <3>2, <4>2 DEF Covered, MoreTypes, IInv, Types
        <5> QED
          BY <5>1 DEF MaxInv
      <4> QED
        BY <4>1, <4>2
    <3> QED
      BY <3>3 DEF MaxInv
  <2>2. CASE UNCHANGED <<maxDuration, window, wpc, job>>
    BY <2>2, MaxStays DEF Covered, InRecord
  <2> QED
    BY <1>3, <2>1, <2>2
       DEF Collect, Scrape, ReadCount, ReadMax, ReadBuckets, NextClass, stats, worker, history
<1> QED
  BY <1>1, <1>2, <1>3 DEF Next

-----------------------------------------------------------------------------
(* The maximum that a scrape takes.                                        *)

IsMaximum(m, D) == m \in {0} \cup D /\ \A d \in {0} \cup D : d <= m

\* Nobody touches the maximum between its read and its reset by the scraper
\* that has the lock; what it has read is then that of the window it ends.
TakenInv ==
    \A s \in Scrapers :
        /\ spc[s] = "reset" => seen[s].max = maxDuration[Class(s)]
        /\ spc[s] \in {"buckets", "done"} => IsMaximum(seen[s].max, taken[s])

\* Steps that touch nothing this is about.
LEMMA TakenStays ==
  ASSUME TakenInv, UNCHANGED <<spc, at, seen, taken>>,
         \A s \in Scrapers : spc[s] = "reset" => maxDuration'[Class(s)] = maxDuration[Class(s)]
  PROVE  TakenInv'
BY DEF TakenInv, Class

LEMMA TakenStep ==
  ASSUME IInv, MoreTypes, MaxInv, TakenInv, Next
  PROVE  TakenInv'
<1>1. ASSUME NEW w \in Workers, NEW a \in Auths, NEW d \in Durations,
             NEW status \in Statuses, NEW raised \in BOOLEAN, Call(w, a, d, status, raised)
      PROVE  TakenInv'
  BY <1>1, TakenStays DEF Call, stats, scraper
<1>2. ASSUME NEW w \in Workers, NEW j \in Jobs, Record(w, j) PROVE TakenInv'
  <2>1. UNCHANGED <<spc, at, seen, taken>>
    BY <1>2 DEF Record, RecordCount, RecordSum, RecordBucket, RecordInf, RecordErrors, scraper
  <2>2. CASE RecordSum(w, j)
    <3>1. lock = w /\ w \notin Scrapers
      BY <2>2, DomainAssumption DEF RecordSum, IInv, LockInv, Inside
    <3>2. \A s \in Scrapers : spc[s] # "reset"
      BY <3>1 DEF IInv, LockInv
    <3> QED
      BY <2>1, <3>2, TakenStays
  <2>3. CASE ~RecordSum(w, j)
    <3>1. maxDuration' = maxDuration
      BY <1>2, <2>3 DEF Record, RecordCount, RecordBucket, RecordInf, RecordErrors
    <3> QED
      BY <2>1, <3>1, TakenStays
  <2> QED
    BY <2>2, <2>3
<1>3. ASSUME NEW s \in Scrapers, Collect(s) PROVE TakenInv'
  <2>1. /\ \A r \in Scrapers \ {s} : /\ spc'[r] = spc[r] /\ seen'[r] = seen[r]
                                     /\ taken'[r] = taken[r] /\ Class(r)' = Class(r)
        /\ Class(s) \in Auths
    <3>1. /\ \E p : spc' = [spc EXCEPT ![s] = p]
          /\ at' = at \/ \E i : at' = [at EXCEPT ![s] = i]
          /\ seen' = seen \/ \E r : seen' = [seen EXCEPT ![s] = r]
          /\ taken' = taken \/ \E D : taken' = [taken EXCEPT ![s] = D]
      BY <1>3 DEF Collect, Scrape, ReadCount, ReadMax, ResetMax, ReadBuckets, NextClass
    <3> QED
      BY <3>1, ClassIsAuth DEF IInv, Types, MoreTypes, Class
  <2>2. ASSUME \A r \in Scrapers \ {s} : spc[r] = "reset" =>
                                            maxDuration'[Class(r)] = maxDuration[Class(r)],
               /\ spc'[s] = "reset" => seen'[s].max = maxDuration'[Class(s)']
               /\ spc'[s] \in {"buckets", "done"} => IsMaximum(seen'[s].max, taken'[s])
        PROVE  TakenInv'
    <3>1. ASSUME NEW r \in Scrapers
          PROVE  /\ spc'[r] = "reset" => seen'[r].max = maxDuration'[Class(r)']
                 /\ spc'[r] \in {"buckets", "done"} => IsMaximum(seen'[r].max, taken'[r])
      <4>1. CASE r = s
        BY <2>2, <4>1
      <4>2. CASE r # s
        BY <2>1, <2>2, <4>2 DEF TakenInv
      <4> QED
        BY <4>1, <4>2
    <3> QED
      BY <3>1 DEF TakenInv, IsMaximum, Class
  <2>3. CASE ReadMax(s)
    <3>1. /\ UNCHANGED <<maxDuration, at>> /\ spc' = [spc EXCEPT ![s] = "reset"]
          /\ seen' = [seen EXCEPT ![s].max = maxDuration[Class(s)]]
      BY <2>3 DEF ReadMax, stats
    <3>2. spc'[s] = "reset" /\ seen'[s].max = maxDuration[Class(s)] /\ Class(s)' = Class(s)
      BY <3>1 DEF IInv, Types, Class
    <3> QED
      BY <2>2, <3>1, <3>2
  <2>4. CASE ResetMax(s)
    <3>1. /\ spc[s] = "reset" /\ spc' = [spc EXCEPT ![s] = "buckets"]
          /\ taken' = [taken EXCEPT ![s] = window[Class(s)]]
          /\ seen' = seen
      BY <2>4 DEF ResetMax
    <3>2. lock = s /\ lock \notin Workers
      BY <3>1, DomainAssumption DEF IInv, LockInv
    <3>3. \A r \in Scrapers \ {s} : spc[r] # "reset"
      BY <3>2 DEF IInv, LockInv
    <3>4. Covered(Class(s)) = {0} \cup window[Class(s)]
      BY <2>1, <3>2, UnlockedRecordsNothing DEF Covered
    <3>5. IsMaximum(maxDuration[Class(s)], window[Class(s)])
      BY <2>1, <3>4 DEF MaxInv, IsMaximum
    <3>6. IsMaximum(seen'[s].max, taken'[s]) /\ spc'[s] = "buckets"
      <4>1. /\ seen'[s].max = maxDuration[Class(s)] /\ taken'[s] = window[Class(s)]
            /\ spc'[s] = "buckets"
        BY <3>1 DEF TakenInv, IInv, Types, MoreTypes
      <4> QED
        BY <3>5, <4>1
    <3> QED
      BY <2>2, <3>3, <3>6
  <2>5. CASE ReadBuckets(s)
    <3>1. /\ spc[s] = "buckets" /\ spc' = [spc EXCEPT ![s] = "done"]
          /\ UNCHANGED <<maxDuration, taken>>
          /\ seen' = [seen EXCEPT ![s].bucket = bucket[Class(s)], ![s].inf = inf[Class(s)]]
      BY <2>5 DEF ReadBuckets, stats
    <3>2. seen'[s].max = seen[s].max /\ spc'[s] = "done" /\ taken'[s] = taken[s]
      BY <3>1 DEF IInv, Types
    <3>3. IsMaximum(seen'[s].max, taken'[s])
      BY <3>1, <3>2 DEF TakenInv
    <3> QED
      BY <2>2, <3>1, <3>2, <3>3
  <2>6. CASE Scrape(s) \/ ReadCount(s) \/ NextClass(s)
    <3>1. maxDuration' = maxDuration /\ spc'[s] \in {"idle", "count", "max"}
      BY <2>6 DEF Scrape, ReadCount, NextClass, stats, IInv, Types
    <3> QED
      BY <2>2, <3>1
  <2> QED
    BY <1>3, <2>3, <2>4, <2>5, <2>6 DEF Collect
<1> QED
  BY <1>1, <1>2, <1>3 DEF Next

-----------------------------------------------------------------------------
(* Snapshots of the buckets.                                               *)

\* A worker has counted its request of class a in bucket b, but not in c.
Between(w, a, b, c) ==
    /\ wpc[w] = "buckets" /\ b \notin todo[w] /\ c \in todo[w]
    /\ \E j \in job[w] : j.auth = a /\ j.duration <= b

\* It has counted it in bucket b, but not in +Inf.
Below(w, a, b) ==
    /\ wpc[w] = "buckets" /\ b \notin todo[w]
    /\ \E j \in job[w] : j.auth = a /\ j.duration <= b

\* Buckets are passed in ascending order, so a lower one is ahead by one.
CumulativeInv ==
    /\ \A w \in Workers : wpc[w] = "buckets" =>
          \A b \in todo[w], c \in Bounds : b <= c => c \in todo[w]
    /\ \A a \in Auths, b, c \in Bounds : b <= c =>
          bucket[a][b] <= bucket[a][c] + (IF \E w \in Workers : Between(w, a, b, c) THEN 1 ELSE 0)
    /\ \A a \in Auths, b \in Bounds :
          bucket[a][b] <= inf[a] + (IF \E w \in Workers : Below(w, a, b) THEN 1 ELSE 0)
    /\ BucketsTornByOne

-----------------------------------------------------------------------------
(* A worker inside the lock.                                               *)

\* Whoever is among the buckets holds the lock, and has one job.
LEMMA OneAmongBuckets ==
  ASSUME IInv, NEW w \in Workers, wpc[w] = "buckets", NEW v \in Workers, wpc[v] = "buckets"
  PROVE  v = w
BY DEF IInv, LockInv, Inside

\* A step of the worker among the buckets keeps them cumulative.
LEMMA BucketStep ==
  ASSUME IInv, MoreTypes, CumulativeInv, NEW w \in Workers, NEW j \in Jobs,
         NEW e \in Bounds, RecordBucket(w, j, e)
  PROVE  CumulativeInv'
<1>1. /\ Bounds \subseteq Int /\ j.duration \in Int /\ j.auth \in Auths
      /\ bucket \in [Auths -> [Bounds -> Nat]] /\ inf \in [Auths -> Nat]
      /\ todo \in [Workers -> SUBSET Bounds]
  BY DomainAssumption DEF Jobs, IInv, Types, MoreTypes
<1>2. /\ wpc[w] = "buckets" /\ j \in job[w] /\ e \in todo[w] /\ \A c \in todo[w] : e <= c
      /\ bucket' = IF j.duration <= e THEN [bucket EXCEPT ![j.auth][e] = @ + 1] ELSE bucket
      /\ todo' = [todo EXCEPT ![w] = @ \ {e}]
      /\ UNCHANGED <<inf, wpc, job, spc, seen>>
  BY DEF RecordBucket, scraper
<1>3. /\ \A i \in job[w] : i = j
      /\ \A v \in Workers : wpc[v] = "buckets" => v = w
  BY <1>2, OneAmongBuckets DEF IInv, LockInv
<1>4. /\ todo'[w] = todo[w] \ {e}
      /\ \A v \in Workers : v # w => todo'[v] = todo[v]
  BY <1>1, <1>2
<1>5. \A v \in Workers : wpc'[v] = "buckets" =>
         \A b \in todo'[v], c \in Bounds : b <= c => c \in todo'[v]
  <2> SUFFICES ASSUME NEW b \in todo'[w], NEW c \in Bounds, b <= c
               PROVE  c \in todo'[w]
    BY <1>2, <1>3
  <2>1. b \in todo[w] /\ b # e /\ e <= b /\ b \in Bounds
    BY <1>1, <1>2, <1>4
  <2>2. c \in todo[w]
    BY <1>2, <2>1 DEF CumulativeInv
  <2>3. c # e
    BY <1>1, <2>1
  <2> QED
    BY <1>4, <2>2, <2>3
<1>6. ASSUME NEW a \in Auths, NEW b \in Bounds
      PROVE  /\ bucket[a][b] \in Nat /\ inf[a] \in Nat
             /\ bucket'[a][b] = IF a = j.auth /\ b = e /\ j.duration <= e
                                THEN bucket[a][b] + 1 ELSE bucket[a][b]
  BY <1>1, <1>2
<1>7. ASSUME NEW a \in Auths, NEW b \in Bounds, NEW c \in Bounds
      PROVE  /\ (\E v \in Workers : Between(v, a, b, c)) <=>
                   (b \notin todo[w] /\ c \in todo[w] /\ j.auth = a /\ j.duration <= b)
             /\ (\E v \in Workers : Between(v, a, b, c)') <=>
                   (b \notin todo'[w] /\ c \in todo'[w] /\ j.auth = a /\ j.duration <= b)
  BY <1>2, <1>3 DEF Between
<1>8. ASSUME NEW a \in Auths, NEW b \in Bounds
      PROVE  /\ (\E v \in Workers : Below(v, a, b)) <=>
                   (b \notin todo[w] /\ j.auth = a /\ j.duration <= b)
             /\ (\E v \in Workers : Below(v, a, b)') <=>
                   (b \notin todo'[w] /\ j.auth = a /\ j.duration <= b)
  BY <1>2, <1>3 DEF Below
<1>9. ASSUME NEW a \in Auths, NEW b \in Bounds, NEW c \in Bounds, b <= c
      PROVE  bucket'[a][b] <=
                bucket'[a][c] + (IF \E v \in Workers : Between(v, a, b, c)' THEN 1 ELSE 0)
  <2>1. bucket[a][b] <= bucket[a][c]
           + (IF b \notin todo[w] /\ c \in todo[w] /\ j.auth = a /\ j.duration <= b THEN 1 ELSE 0)
    BY <1>7, <1>9 DEF CumulativeInv
  <2>2. bucket'[a][b] <= bucket'[a][c]
           + (IF b \notin todo'[w] /\ c \in todo'[w] /\ j.auth = a /\ j.duration <= b THEN 1 ELSE 0)
    <3>1. CASE b = c
      BY <1>6, <3>1
    <3>2. CASE b # c /\ b = e
      <4>1. c \in todo[w]
        BY <1>2, <1>9, <3>2 DEF CumulativeInv
      <4>2. b \in todo[w] /\ b \notin todo'[w] /\ c \in todo'[w]
        BY <1>2, <1>4, <3>2, <4>1
      <4>3. bucket[a][b] <= bucket[a][c] /\ bucket'[a][c] = bucket[a][c]
        BY <1>6, <2>1, <3>2, <4>2
      <4> QED
        BY <1>6, <3>2, <4>2, <4>3
    <3>3. CASE b # c /\ c = e
      <4>1. c \in todo[w] /\ c \notin todo'[w] /\ bucket'[a][b] = bucket[a][b]
        BY <1>2, <1>4, <1>6, <3>3
      <4>2. j.auth = a /\ j.duration <= b => bucket'[a][c] = bucket[a][c] + 1
        BY <1>1, <1>6, <1>9, <3>3
      <4>3. bucket[a][c] <= bucket'[a][c] /\ bucket'[a][c] \in Nat
        BY <1>6
      <4>4. bucket[a][b] \in Nat /\ bucket[a][c] \in Nat
        BY <1>6
      <4>5. CASE j.auth = a /\ j.duration <= b
        BY <2>1, <4>1, <4>2, <4>4, <4>5
      <4>6. CASE ~(j.auth = a /\ j.duration <= b)
        BY <2>1, <4>1, <4>3, <4>4, <4>6
      <4> QED
        BY <4>5, <4>6
    <3>4. CASE b # e /\ c # e
      <4>1. (b \in todo'[w] <=> b \in todo[w]) /\ (c \in todo'[w] <=> c \in todo[w])
        BY <1>4, <3>4
      <4> QED
        BY <1>6, <2>1, <3>4, <4>1
    <3> QED
      BY <3>1, <3>2, <3>3, <3>4
  <2> QED
    BY <1>7, <2>2
<1>10. ASSUME NEW a \in Auths, NEW b \in Bounds
      PROVE  bucket'[a][b] <=
                inf'[a] + (IF \E v \in Workers : Below(v, a, b)' THEN 1 ELSE 0)
  <2>1. bucket[a][b] <= inf[a]
           + (IF b \notin todo[w] /\ j.auth = a /\ j.duration <= b THEN 1 ELSE 0)
    BY <1>8 DEF CumulativeInv
  <2>2. inf'[a] = inf[a] /\ inf[a] \in Nat /\ bucket[a][b] \in Nat
    BY <1>2, <1>6
  <2>3. bucket'[a][b] <= inf[a]
           + (IF b \notin todo'[w] /\ j.auth = a /\ j.duration <= b THEN 1 ELSE 0)
    <3>1. CASE b = e
      <4>1. b \in todo[w] /\ b \notin todo'[w]
        BY <1>2, <1>4, <3>1
      <4>2. bucket[a][b] <= inf[a]
        BY <2>1, <2>2, <4>1
      <4> QED
        BY <1>6, <2>2, <3>1, <4>1, <4>2
    <3>2. CASE b # e
      <4>1. b \in todo'[w] <=> b \in todo[w]
        BY <1>4, <3>2
      <4> QED
        BY <1>6, <2>1, <3>2, <4>1
    <3> QED
      BY <3>1, <3>2
  <2> QED
    BY <1>8, <2>2, <2>3
<1>11. BucketsTornByOne'
  BY <1>2 DEF CumulativeInv, BucketsTornByOne
<1> QED
  BY <1>5, <1>9, <1>10, <1>11 DEF CumulativeInv

\* Without a worker passing a bucket, nothing changes that is compared.
LEMMA CumulativeStays ==
  ASSUME CumulativeInv,
         UNCHANGED <<bucket, inf>>,
         \A w \in Workers : wpc'[w] = "buckets" =>
            wpc[w] = "buckets" /\ todo'[w] = todo[w] /\ job'[w] = job[w],
         \A w \in Workers : wpc[w] = "buckets" => wpc'[w] = "buckets",
         BucketsTornByOne'
  PROVE  CumulativeInv'
<1>1. \A w \in Workers, a \in Auths, b, c \in Bounds : Between(w, a, b, c)' <=> Between(w, a, b, c)
  BY DEF Between
<1>2. \A w \in Workers, a \in Auths, b \in Bounds : Below(w, a, b)' <=> Below(w, a, b)
  BY DEF Below
<1> QED
  BY <1>1, <1>2 DEF CumulativeInv

\* Every step keeps the buckets cumulative but for the one request.
LEMMA CumulativeStep ==
  ASSUME IInv, MoreTypes, CumulativeInv, Next
  PROVE  CumulativeInv'
<1>1. /\ bucket \in [Auths -> [Bounds -> Nat]] /\ inf \in [Auths -> Nat]
      /\ wpc \in [Workers -> {"idle", "record", "sum", "buckets", "errors"}]
      /\ todo \in [Workers -> SUBSET Bounds] /\ job \in [Workers -> SUBSET Jobs]
  BY DEF IInv, Types, MoreTypes
<1>2. ASSUME NEW w \in Workers, NEW a \in Auths, NEW d \in Durations,
             NEW status \in Statuses, NEW raised \in BOOLEAN, Call(w, a, d, status, raised)
      PROVE  CumulativeInv'
  <2>1. /\ wpc[w] = "idle" /\ wpc' = [wpc EXCEPT ![w] = "record"]
        /\ \A v \in Workers : v # w => job'[v] = job[v]
        /\ UNCHANGED <<bucket, inf, todo, spc, seen>>
    BY <1>1, <1>2 DEF Call, stats, scraper
  <2>2. BucketsTornByOne'
    BY <2>1 DEF CumulativeInv, BucketsTornByOne
  <2> QED
    BY <1>1, <2>1, <2>2, CumulativeStays
<1>3. ASSUME NEW w \in Workers, NEW j \in Jobs, Record(w, j) PROVE CumulativeInv'
  <2>1. UNCHANGED <<spc, seen>>
    BY <1>3 DEF Record, RecordCount, RecordSum, RecordBucket, RecordInf, RecordErrors, scraper
  <2>2. BucketsTornByOne'
    BY <2>1 DEF CumulativeInv, BucketsTornByOne
  <2>3. CASE RecordCount(w, j)
    <3>1. /\ wpc[w] = "record" /\ wpc' = [wpc EXCEPT ![w] = "sum"]
          /\ UNCHANGED <<bucket, inf, todo, job>>
      BY <2>3 DEF RecordCount
    <3> QED
      BY <1>1, <2>2, <3>1, CumulativeStays
  <2>4. CASE RecordErrors(w, j)
    <3>1. /\ wpc[w] = "errors" /\ wpc' = [wpc EXCEPT ![w] = "idle"]
          /\ job' = [job EXCEPT ![w] = {}]
          /\ UNCHANGED <<bucket, inf, todo>>
      BY <2>4 DEF RecordErrors
    <3> QED
      BY <1>1, <2>2, <3>1, CumulativeStays
  <2>5. CASE RecordSum(w, j)
    <3>1. /\ wpc[w] = "sum" /\ wpc' = [wpc EXCEPT ![w] = "buckets"]
          /\ todo' = [todo EXCEPT ![w] = Bounds]
          /\ UNCHANGED <<bucket, inf, job>>
      BY <2>5 DEF RecordSum
    <3>2. \A v \in Workers : wpc[v] # "buckets"
      BY <3>1 DEF IInv, LockInv, Inside
    <3>3. \A v \in Workers : wpc'[v] = "buckets" => v = w /\ todo'[v] = Bounds
      BY <1>1, <3>1, <3>2
    <3>4. \A a \in Auths, b, c \in Bounds : bucket[a][b] \in Nat /\ inf[a] \in Nat
      BY <1>1
    <3>5. /\ \A v \in Workers, a \in Auths, b, c \in Bounds : ~Between(v, a, b, c)
          /\ \A v \in Workers, a \in Auths, b \in Bounds : ~Below(v, a, b)
      BY <3>2 DEF Between, Below
    <3>6. \A a \in Auths, b, c \in Bounds : b <= c => bucket[a][b] <= bucket[a][c]
      BY <3>4, <3>5 DEF CumulativeInv
    <3>7. \A a \in Auths, b \in Bounds : bucket[a][b] <= inf[a]
      BY <3>4, <3>5 DEF CumulativeInv
    <3>8. /\ \A v \in Workers, a \in Auths, b, c \in Bounds : ~Between(v, a, b, c)'
          /\ \A v \in Workers, a \in Auths, b \in Bounds : ~Below(v, a, b)'
      BY <3>3 DEF Between, Below
    <3>9. \A v \in Workers : wpc'[v] = "buckets" =>
             \A b \in todo'[v], c \in Bounds : b <= c => c \in todo'[v]
      BY <3>3
    <3>10. /\ \A a \in Auths, b, c \in Bounds : b <= c =>
                 bucket'[a][b] <= bucket'[a][c]
                    + (IF \E v \in Workers : Between(v, a, b, c)' THEN 1 ELSE 0)
           /\ \A a \in Auths, b \in Bounds :
                 bucket'[a][b] <= inf'[a] + (IF \E v \in Workers : Below(v, a, b)' THEN 1 ELSE 0)
      BY <3>1, <3>4, <3>6, <3>7, <3>8
    <3> QED
      BY <2>2, <3>9, <3>10 DEF CumulativeInv
  <2>6. CASE \E e \in Bounds : RecordBucket(w, j, e)
    BY <2>6, BucketStep
  <2>7. CASE RecordInf(w, j)
    <3>1. /\ wpc[w] = "buckets" /\ todo[w] = {} /\ j \in job[w] /\ j.auth \in Auths
          /\ wpc' = [wpc EXCEPT ![w] = "errors"]
          /\ inf' = [inf EXCEPT ![j.auth] = @ + 1]
          /\ UNCHANGED <<bucket, todo, job>>
      BY <2>7 DEF RecordInf, Jobs
    <3>2. /\ \A i \in job[w] : i = j
          /\ \A v \in Workers : wpc[v] = "buckets" => v = w
      BY <3>1, OneAmongBuckets DEF IInv, LockInv
    <3>3. \A v \in Workers : wpc'[v] # "buckets"
      BY <1>1, <3>1, <3>2
    <3>4. /\ \A v \in Workers, a \in Auths, b, c \in Bounds :
                ~Between(v, a, b, c) /\ ~Between(v, a, b, c)'
          /\ \A v \in Workers, a \in Auths, b \in Bounds : ~Below(v, a, b)'
          /\ \A v \in Workers, a \in Auths, b \in Bounds : Below(v, a, b) => a = j.auth
      BY <3>1, <3>2, <3>3 DEF Between, Below
    <3>5. \A a \in Auths, b, c \in Bounds : b <= c => bucket[a][b] <= bucket[a][c]
      BY <1>1, <3>4 DEF CumulativeInv
    <3>6. ASSUME NEW a \in Auths, NEW b \in Bounds PROVE bucket[a][b] <= inf'[a]
      <4>1. bucket[a][b] \in Nat /\ inf[a] \in Nat /\ inf'[a] = IF a = j.auth THEN inf[a] + 1 ELSE inf[a]
        BY <1>1, <3>1
      <4>2. a # j.auth => bucket[a][b] <= inf[a]
        <5>1. bucket[a][b] <= inf[a] + (IF \E v \in Workers : Below(v, a, b) THEN 1 ELSE 0)
          BY DEF CumulativeInv
        <5> QED
          BY <3>4, <4>1, <5>1
      <4>3. bucket[a][b] <= inf[a] + 1
        <5>1. bucket[a][b] <= inf[a] + (IF \E v \in Workers : Below(v, a, b) THEN 1 ELSE 0)
          BY DEF CumulativeInv
        <5> QED
          BY <4>1, <5>1
      <4> QED
        BY <4>1, <4>2, <4>3
    <3>7. \A a \in Auths, b \in Bounds : bucket'[a][b] = bucket[a][b] /\ inf'[a] \in Nat
      BY <1>1, <3>1
    <3> QED
      BY <1>1, <2>2, <3>1, <3>3, <3>4, <3>5, <3>6, <3>7 DEF CumulativeInv
  <2> QED
    BY <1>3, <2>3, <2>4, <2>5, <2>6, <2>7 DEF Record
<1>4. ASSUME NEW s \in Scrapers, Collect(s) PROVE CumulativeInv'
  <2>1. UNCHANGED <<bucket, inf, wpc, job, todo>>
    BY <1>4 DEF Collect, Scrape, ReadCount, ReadMax, ResetMax, ReadBuckets, NextClass, stats, worker
  <2>2. BucketsTornByOne'
    <3>1. /\ spc \in [Scrapers -> {"idle", "count", "max", "reset", "buckets", "done"}]
          /\ seen \in [Scrapers -> [count : Nat, max : Int, bucket : [Bounds -> Nat], inf : Nat]]
          /\ Class(s) \in Auths
      BY ClassIsAuth DEF IInv, Types
    <3>2. CASE Scrape(s) \/ ReadCount(s) \/ ReadMax(s) \/ ResetMax(s) \/ NextClass(s)
      <4>1. /\ spc'[s] # "done"
            /\ \A r \in Scrapers : r # s => spc'[r] = spc[r] /\ seen'[r] = seen[r]
        BY <3>1, <3>2 DEF Scrape, ReadCount, ReadMax, ResetMax, NextClass
      <4> QED
        BY <4>1 DEF CumulativeInv, BucketsTornByOne
    <3>3. CASE ReadBuckets(s)
      <4>1. /\ seen'[s].bucket = bucket[Class(s)] /\ seen'[s].inf = inf[Class(s)]
            /\ \A r \in Scrapers : r # s => spc'[r] = spc[r] /\ seen'[r] = seen[r]
        BY <3>1, <3>3 DEF ReadBuckets
      <4>2. ASSUME NEW b \in Bounds
            PROVE  /\ bucket[Class(s)][b] <= inf[Class(s)] + 1
                   /\ \A c \in Bounds : b <= c =>
                         bucket[Class(s)][b] <= bucket[Class(s)][c] + 1
        <5>1. \A c \in Bounds : bucket[Class(s)][c] \in Nat /\ inf[Class(s)] \in Nat
          BY <1>1, <3>1
        <5>2. bucket[Class(s)][b] <= inf[Class(s)] + 1
          <6>1. bucket[Class(s)][b] <=
                   inf[Class(s)] + (IF \E v \in Workers : Below(v, Class(s), b) THEN 1 ELSE 0)
            BY <3>1 DEF CumulativeInv
          <6> QED
            BY <5>1, <6>1
        <5>3. ASSUME NEW c \in Bounds, b <= c
              PROVE  bucket[Class(s)][b] <= bucket[Class(s)][c] + 1
          <6>1. bucket[Class(s)][b] <= bucket[Class(s)][c]
                   + (IF \E v \in Workers : Between(v, Class(s), b, c) THEN 1 ELSE 0)
            BY <3>1, <5>3 DEF CumulativeInv
          <6> QED
            BY <5>1, <6>1
        <5> QED
          BY <5>2, <5>3
      <4> QED
        BY <4>1, <4>2 DEF CumulativeInv, BucketsTornByOne
    <3> QED
      BY <1>4, <3>2, <3>3 DEF Collect
  <2> QED
    BY <2>1, <2>2, CumulativeStays
<1> QED
  BY <1>2, <1>3, <1>4 DEF Next

-----------------------------------------------------------------------------

\* The second invariant holds in every reachable state.
LEMMA MoreHolds == Spec => [](MoreTypes /\ MaxInv /\ TakenInv /\ CumulativeInv)
<1>1. Init => MoreTypes /\ MaxInv /\ TakenInv /\ CumulativeInv
  <2> SUFFICES ASSUME Init PROVE MoreTypes /\ MaxInv /\ TakenInv /\ CumulativeInv
    OBVIOUS
  <2>1. MoreTypes
    BY DomainAssumption DEF Init, MoreTypes
  <2>2. MaxInv
    BY DEF Init, MaxInv, Covered, InRecord
  <2>3. CumulativeInv
    BY DEF Init, CumulativeInv, BucketsTornByOne, Between, Below
  <2>4. TakenInv
    BY DEF Init, TakenInv
  <2> QED
    BY <2>1, <2>2, <2>3, <2>4
<1>2. IInv /\ MoreTypes /\ MaxInv /\ TakenInv /\ CumulativeInv /\ [Next]_vars
         => (MoreTypes /\ MaxInv /\ TakenInv /\ CumulativeInv)'
  <2>1. CASE UNCHANGED vars
    BY <2>1 DEF vars, stats, worker, scraper, history, MoreTypes, MaxInv, Covered, InRecord,
                TakenInv, Class, IsMaximum, CumulativeInv, BucketsTornByOne, Between, Below
  <2> QED
    BY <2>1, MoreTypesStep, MaxStep, TakenStep, CumulativeStep
<1> QED
  BY <1>1, <1>2, InvariantHolds, PTL DEF Spec

(* Type correctness of the tracker, the middleware and the scrapes.        *)
THEOREM MetricsTypeCorrect == Spec => []TypeOK
<1>1. IInv /\ MoreTypes => TypeOK
  BY DEF IInv, Types, MoreTypes, TypeOK
<1> QED
  BY <1>1, InvariantHolds, MoreHolds, PTL

\* The maximum of a finite set of integers is the one that bounds it.
LEMMA MaximumIsMax ==
  ASSUME NEW D \in SUBSET Durations, NEW m, IsMaximum(m, D)
  PROVE  m = Max({0} \cup D)
<1> DEFINE S == {0} \cup D
<1>1. m \in S /\ \A d \in S : d \in Int /\ m >= d
  BY DomainAssumption DEF IsMaximum
<1> HIDE DEF S
<1>2. \A x \in S : (\A y \in S : x >= y) => x = m
  BY <1>1
<1>3. Max(S) \in S /\ \A y \in S : Max(S) >= y
  BY <1>1, Zenon DEF Max
<1> QED
  BY <1>2, <1>3 DEF S

(* The maximum kept for a class is that of all requests recorded since it    *)
(* was last taken, and what a scrape takes is that of the window it ends.    *)
THEOREM MaximumIsOfTheWindow == Spec => []WindowMaximum
<1>1. IInv /\ MoreTypes /\ MaxInv => KeptIsOfTheWindow
  <2> SUFFICES ASSUME IInv, MoreTypes, MaxInv, lock = Free, NEW a \in Auths
               PROVE  maxDuration[a] = Max({0} \cup window[a])
    BY DEF KeptIsOfTheWindow
  <2>1. Covered(a) = {0} \cup window[a]
    BY DomainAssumption, UnlockedRecordsNothing DEF Covered
  <2>2. IsMaximum(maxDuration[a], window[a])
    BY <2>1 DEF MaxInv, IsMaximum
  <2> QED
    BY <2>2, MaximumIsMax DEF MoreTypes
<1>2. MoreTypes /\ TakenInv => TakenIsOfTheWindow
  BY MaximumIsMax DEF MoreTypes, TakenInv, TakenIsOfTheWindow
<1> QED
  BY <1>1, <1>2, InvariantHolds, MoreHolds, PTL DEF WindowMaximum

(* What a scrape reads of a class is out by one request at most, and never   *)
(* has less in +Inf than in its count.                                       *)
THEOREM ScrapesAreTornByOneRequest == Spec => []TornByOneRequest
<1>1. IInv /\ CumulativeInv => TornByOneRequest
  BY DEF IInv, SeenInv, InfCoversCount, CumulativeInv, TornByOneRequest
<1> QED
  BY <1>1, InvariantHolds, MoreHolds, PTL

-----------------------------------------------------------------------------
(* The statistics against the history, once nobody holds the lock.         *)

Of(a) == {j \in Jobs : j.auth = a}
Within(a, b) == {j \in Jobs : j.auth = a /\ j.duration <= b}
Erring(a, e) == {j \in Jobs : j.auth = a /\ j.status = e}

Finished(J) == SumFunctionOnSet(done, J)

\* The statistics of a class are ahead of the history by what the worker
\* inside the lock has done so far: in the count, in +Inf, in the sum and in
\* the buckets of P.
Ahead(a, c, i, d, P) ==
    /\ count[a] = Finished(Of(a)) + c
    /\ inf[a] = Finished(Of(a)) + i
    /\ sum[a] = RecordedTime(a) + d
    /\ \A b \in Bounds : bucket[a][b] = Finished(Within(a, b)) + (IF b \in P THEN 1 ELSE 0)
    /\ \A e \in ErrorCodes : errors[a][e] = Finished(Erring(a, e))

Exact(a) == Ahead(a, 0, 0, 0, {})

\* The buckets that a job belongs to.
Buckets(j) == {b \in Bounds : j.duration <= b}

ExactInv ==
    /\ lock \notin Workers => \A a \in Auths : Exact(a)
    /\ \A w \in Workers : \A j \in job[w] :
          /\ wpc[w] \in Inside => \A a \in Auths \ {j.auth} : Exact(a)
          /\ wpc[w] = "sum" => Ahead(j.auth, 1, 0, 0, {})
          /\ wpc[w] = "buckets" =>
                \E P \in SUBSET Bounds :
                   P = Buckets(j) \ todo[w] /\ Ahead(j.auth, 1, 0, j.duration, P)
          /\ wpc[w] = "errors" => Ahead(j.auth, 1, 1, j.duration, Buckets(j))

\* There are finitely many different jobs.
LEMMA JobsFinite == IsFiniteSet(Jobs)
<1>1. IsFiniteSet(Auths)
  <2>1. Len(AUTH_CLASSES) \in Nat /\ DOMAIN AUTH_CLASSES = 1..Len(AUTH_CLASSES)
    BY DomainAssumption
  <2>2. IsFiniteSet(DOMAIN AUTH_CLASSES)
    BY <2>1, FS_Interval
  <2>3. [i \in DOMAIN AUTH_CLASSES |-> AUTH_CLASSES[i]] \in Surjection(DOMAIN AUTH_CLASSES, Auths)
    BY DEF Surjection, Auths
  <2> QED
    BY <2>2, <2>3, FS_Surjection
<1> DEFINE P == (Auths \X Durations) \X Statuses
           f == [p \in P |-> [auth |-> p[1][1], duration |-> p[1][2], status |-> p[2]]]
<1>2. IsFiniteSet(P)
  BY <1>1, FiniteAssumption, FS_Product
<1>3. f \in Surjection(P, Jobs)
  <2>1. f \in [P -> Jobs]
    BY DEF Jobs
  <2>2. ASSUME NEW j \in Jobs PROVE \E p \in P : f[p] = j
    <3> DEFINE p == <<<<j.auth, j.duration>>, j.status>>
    <3>1. p \in P
      BY DEF Jobs
    <3>2. f[p] = j
      BY <3>1 DEF Jobs
    <3> QED
      BY <3>1, <3>2
  <2> HIDE DEF f, P
  <2> QED
    BY <2>1, <2>2 DEF Surjection
<1> HIDE DEF f, P
<1> QED
  BY <1>2, <1>3, FS_Surjection

\* A sum over finished records is a number, and grows with a record of J.
LEMMA FinishedType ==
    ASSUME MoreTypes, NEW J \in SUBSET Jobs PROVE Finished(J) \in Int
<1>1. IsFiniteSet(J) /\ \A j \in J : done[j] \in Int
  BY JobsFinite, FS_Subset DEF MoreTypes
<1> QED
  BY <1>1, SumType DEF Finished

LEMMA FinishedOneMore ==
    ASSUME MoreTypes, NEW j \in Jobs, done' = [done EXCEPT ![j] = @ + 1], NEW J \in SUBSET Jobs
    PROVE  Finished(J)' = Finished(J) + (IF j \in J THEN 1 ELSE 0)
<1>1. IsFiniteSet(J) /\ \A i \in J : done[i] \in Int
  BY JobsFinite, FS_Subset DEF MoreTypes
<1>2. (\A i \in J \ {j} : done'[i] = done[i]) /\ (j \in J => done'[j] = done[j] + 1)
  BY DEF MoreTypes
<1> DEFINE g == done'
<1>3. SumFunctionOnSet(g, J) = SumFunctionOnSet(done, J) + (IF j \in J THEN 1 ELSE 0)
  <2> HIDE DEF g
  <2>1. (\A i \in J \ {j} : g[i] = done[i]) /\ (j \in J => g[j] = done[j] + 1)
    BY <1>2 DEF g
  <2>2. 1 \in Int
    OBVIOUS
  <2> QED
    BY <1>1, <2>1, <2>2, SumChanges
<1> QED
  BY <1>3 DEF Finished

LEMMA RecordedProduct ==
    ASSUME MoreTypes PROVE \A j \in Jobs : done[j] * j.duration \in Int
<1> SUFFICES ASSUME NEW j \in Jobs PROVE done[j] * j.duration \in Int
  OBVIOUS
<1>1. done[j] \in Int
  BY DEF MoreTypes
<1>2. j.duration \in Int
  BY DomainAssumption DEF Jobs
<1> QED
  BY <1>1, <1>2

LEMMA RecordedTimeType ==
    ASSUME MoreTypes, NEW a \in Auths PROVE RecordedTime(a) \in Int
<1> DEFINE f == [j \in Jobs |-> done[j] * j.duration]
           J == {j \in Jobs : j.auth = a}
<1>1. IsFiniteSet(J)
  BY JobsFinite, FS_Subset
<1>2. \A j \in J : f[j] \in Int
  BY RecordedProduct
<1> HIDE DEF f
<1> QED
  BY <1>1, <1>2, SumType DEF RecordedTime, f

LEMMA RecordedTimeGrows ==
    ASSUME MoreTypes, NEW j \in Jobs, done' = [done EXCEPT ![j] = @ + 1], NEW a \in Auths
    PROVE  RecordedTime(a)' = RecordedTime(a) + (IF j.auth = a THEN j.duration ELSE 0)
<1> DEFINE f == [i \in Jobs |-> done[i] * i.duration]
           g == [i \in Jobs |-> done'[i] * i.duration]
           J == {i \in Jobs : i.auth = a}
<1>1. IsFiniteSet(J)
  BY JobsFinite, FS_Subset
<1>2. \A i \in J : f[i] \in Int
  BY RecordedProduct
<1>3. \A i \in J \ {j} : g[i] = f[i]
  BY DEF MoreTypes
<1>4. j.duration \in Int
  BY DomainAssumption DEF Jobs
<1>5. g[j] = f[j] + j.duration
  <2>1. done[j] \in Int /\ done'[j] = done[j] + 1
    BY DEF MoreTypes
  <2>2. \A n, d \in Int : (n + 1) * d = n * d + d
    OBVIOUS
  <2> QED
    BY <1>4, <2>1, <2>2
<1> HIDE DEF f, g
<1>6. SumFunctionOnSet(g, J) = SumFunctionOnSet(f, J) + (IF j \in J THEN j.duration ELSE 0)
  BY <1>1, <1>2, <1>3, <1>4, <1>5, SumChanges
<1>7. j \in J <=> j.auth = a
  OBVIOUS
<1> QED
  BY <1>6, <1>7 DEF RecordedTime, f, g

\* What a class is ahead by depends on its statistics and on the history.
LEMMA AheadStays ==
    ASSUME NEW a \in Auths, NEW c, NEW i, NEW d, NEW P, Ahead(a, c, i, d, P),
           UNCHANGED <<count[a], inf[a], sum[a], bucket[a], errors[a], done>>
    PROVE  Ahead(a, c, i, d, P)'
BY DEF Ahead, Finished, RecordedTime, Of, Within, Erring

-----------------------------------------------------------------------------


\* Steps in which neither the statistics move nor the worker that holds the lock.
LEMMA ExactStays ==
    ASSUME ExactInv, job \in [Workers -> SUBSET Jobs],
           UNCHANGED <<count, inf, sum, bucket, errors, done>>,
           lock' \notin Workers <=> lock \notin Workers,
           \A w \in Workers : wpc'[w] \in Inside =>
               wpc'[w] = wpc[w] /\ job'[w] = job[w] /\ todo'[w] = todo[w]
    PROVE  ExactInv'
<1>1. ASSUME NEW a \in Auths, NEW c, NEW i, NEW d, NEW P, Ahead(a, c, i, d, P)
      PROVE  Ahead(a, c, i, d, P)'
  BY <1>1, AheadStays
<1>2. \A a \in Auths : Exact(a) => Exact(a)'
  BY <1>1 DEF Exact
<1>3. lock' \notin Workers => \A a \in Auths : Exact(a)'
  BY <1>2 DEF ExactInv
<1>4. ASSUME NEW w \in Workers, NEW j \in job'[w], wpc'[w] \in Inside
      PROVE  /\ \A a \in Auths \ {j.auth} : Exact(a)'
             /\ wpc'[w] = "sum" => Ahead(j.auth, 1, 0, 0, {})'
             /\ wpc'[w] = "buckets" =>
                   \E P \in SUBSET Bounds :
                      P = Buckets(j) \ todo'[w] /\ Ahead(j.auth, 1, 0, j.duration, P)'
             /\ wpc'[w] = "errors" => Ahead(j.auth, 1, 1, j.duration, Buckets(j))'
  <2>1. wpc'[w] = wpc[w] /\ j \in job[w] /\ j.auth \in Auths
    BY <1>4 DEF Jobs
  <2>2. \A a \in Auths \ {j.auth} : Exact(a)'
    BY <1>2, <1>4, <2>1 DEF ExactInv
  <2>3. CASE wpc[w] = "sum"
    BY <1>1, <2>1, <2>2, <2>3 DEF ExactInv
  <2>4. CASE wpc[w] = "buckets"
    <3>1. PICK P \in SUBSET Bounds :
             P = Buckets(j) \ todo[w] /\ Ahead(j.auth, 1, 0, j.duration, P)
      BY <2>1, <2>4 DEF ExactInv
    <3>2. P = Buckets(j) \ todo'[w] /\ Ahead(j.auth, 1, 0, j.duration, P)'
      BY <1>1, <1>4, <2>1, <3>1
    <3> QED
      BY <2>1, <2>2, <2>4, <3>2
  <2>5. CASE wpc[w] = "errors"
    BY <1>1, <2>1, <2>2, <2>5 DEF ExactInv
  <2> QED
    BY <1>4, <2>1, <2>3, <2>4, <2>5 DEF Inside
<1> QED
  BY <1>3, <1>4 DEF ExactInv, Inside, Buckets

\* After a step of the worker that holds the lock, it is the only one to ask.
LEMMA HolderExact ==
    ASSUME IInv', NEW w \in Workers, NEW j \in Jobs, j \in job'[w], wpc'[w] \in Inside,
           \A a \in Auths \ {j.auth} : Exact(a)',
           wpc'[w] = "sum" => Ahead(j.auth, 1, 0, 0, {})',
           wpc'[w] = "buckets" =>
              \E P \in SUBSET Bounds :
                 P = Buckets(j) \ todo'[w] /\ Ahead(j.auth, 1, 0, j.duration, P)',
           wpc'[w] = "errors" => Ahead(j.auth, 1, 1, j.duration, Buckets(j))'
    PROVE  ExactInv'
<1>1. /\ lock' = w
      /\ \A v \in Workers : wpc'[v] \in Inside => v = w
      /\ \A i \in job'[w] : i = j
  BY DomainAssumption DEF IInv, LockInv
<1> QED
  BY <1>1 DEF ExactInv, Inside, Buckets

LEMMA RecordExact ==
    ASSUME IInv, IInv', MoreTypes, ExactInv, NEW w \in Workers, NEW j \in Jobs, Record(w, j)
    PROVE  ExactInv'
<1>1. /\ count \in [Auths -> Nat] /\ inf \in [Auths -> Nat] /\ sum \in [Auths -> Int]
      /\ bucket \in [Auths -> [Bounds -> Nat]] /\ errors \in [Auths -> [ErrorCodes -> Nat]]
      /\ todo \in [Workers -> SUBSET Bounds]
      /\ wpc \in [Workers -> {"idle", "record", "sum", "buckets", "errors"}]
      /\ job \in [Workers -> SUBSET Jobs]
  BY DEF IInv, Types, MoreTypes
<1>2. j.auth \in Auths /\ j.duration \in Int /\ j.status \in Statuses /\ Bounds \subseteq Int
  BY DomainAssumption DEF Jobs
<1>3. \A a \in Auths :
         /\ Finished(Of(a)) \in Int /\ RecordedTime(a) \in Int
         /\ \A b \in Bounds : Finished(Within(a, b)) \in Int
  BY FinishedType, RecordedTimeType DEF Of, Within
<1>4. ASSUME NEW a \in Auths \ {j.auth}, Exact(a), UNCHANGED done,
             UNCHANGED <<count[a], inf[a], sum[a], bucket[a], errors[a]>>
      PROVE  Exact(a)'
  BY <1>4, AheadStays DEF Exact
<1>5. CASE RecordCount(w, j)
  <2>1. /\ lock = Free /\ j \in job'[w] /\ wpc'[w] = "sum"
        /\ count' = [count EXCEPT ![j.auth] = @ + 1]
        /\ UNCHANGED <<sum, inf, bucket, errors, done>>
    BY <1>1, <1>5 DEF RecordCount, history
  <2>2. \A a \in Auths \ {j.auth} : Exact(a)'
    BY <1>1, <1>4, <2>1, DomainAssumption DEF ExactInv
  <2>3. Ahead(j.auth, 1, 0, 0, {})'
    <3>1. Ahead(j.auth, 0, 0, 0, {})
      BY <1>2, <2>1, DomainAssumption DEF ExactInv, Exact
    <3>2. count'[j.auth] = Finished(Of(j.auth)) + 1
      <4>1. count[j.auth] = Finished(Of(j.auth)) + 0 /\ Finished(Of(j.auth)) \in Int
        BY <1>2, <1>3, <3>1 DEF Ahead
      <4> QED
        BY <1>1, <1>2, <2>1, <4>1
    <3> QED
      BY <2>1, <3>1, <3>2 DEF Ahead, Finished, RecordedTime, Of, Within, Erring
  <2> QED
    BY <2>1, <2>2, <2>3, HolderExact DEF Inside
<1>6. CASE RecordSum(w, j)
  <2>1. /\ wpc[w] = "sum" /\ j \in job[w] /\ j \in job'[w] /\ wpc'[w] = "buckets"
        /\ sum' = [sum EXCEPT ![j.auth] = @ + j.duration]
        /\ todo'[w] = Bounds
        /\ UNCHANGED <<count, inf, bucket, errors, done>>
    BY <1>1, <1>6 DEF RecordSum, history
  <2>2. \A a \in Auths \ {j.auth} : Exact(a)'
    BY <1>1, <1>4, <2>1 DEF ExactInv, Inside
  <2>3. Ahead(j.auth, 1, 0, j.duration, {})' /\ Buckets(j) \ todo'[w] = {}
    <3>1. Ahead(j.auth, 1, 0, 0, {})
      BY <2>1 DEF ExactInv
    <3>2. sum'[j.auth] = RecordedTime(j.auth) + j.duration
      <4>1. sum[j.auth] = RecordedTime(j.auth) + 0 /\ RecordedTime(j.auth) \in Int
        BY <1>2, <1>3, <3>1 DEF Ahead
      <4> QED
        BY <1>1, <1>2, <2>1, <4>1
    <3>3. Buckets(j) \ todo'[w] = {}
      BY <2>1 DEF Buckets
    <3>4. Ahead(j.auth, 1, 0, j.duration, {})'
      BY <2>1, <3>1, <3>2 DEF Ahead, Finished, RecordedTime, Of, Within, Erring
    <3> QED
      BY <3>3, <3>4
  <2> QED
    BY <2>1, <2>2, <2>3, HolderExact DEF Inside
<1>7. ASSUME NEW e \in Bounds, RecordBucket(w, j, e) PROVE ExactInv'
  <2>1. /\ wpc[w] = "buckets" /\ j \in job[w] /\ j \in job'[w] /\ wpc'[w] = "buckets"
        /\ e \in todo[w]
        /\ bucket' = IF j.duration <= e THEN [bucket EXCEPT ![j.auth][e] = @ + 1] ELSE bucket
        /\ todo'[w] = todo[w] \ {e}
        /\ UNCHANGED <<count, inf, sum, errors, done>>
    BY <1>1, <1>7 DEF RecordBucket, history
  <2>2. \A a \in Auths \ {j.auth} : Exact(a)'
    BY <1>1, <1>4, <2>1 DEF ExactInv, Inside
  <2>3. \E Q \in SUBSET Bounds :
           Q = Buckets(j) \ todo'[w] /\ Ahead(j.auth, 1, 0, j.duration, Q)'
    <3>1. PICK P \in SUBSET Bounds :
             P = Buckets(j) \ todo[w] /\ Ahead(j.auth, 1, 0, j.duration, P)
      BY <2>1 DEF ExactInv
    <3>2. PICK Q \in SUBSET Bounds : Q = Buckets(j) \ todo'[w]
      BY DEF Buckets
    <3>3. Q = IF j.duration <= e THEN P \cup {e} ELSE P
      BY <1>1, <2>1, <3>1, <3>2 DEF Buckets
    <3>4. e \notin P
      BY <2>1, <3>1
    <3>5. \A b \in Bounds : bucket'[j.auth][b] =
             Finished(Within(j.auth, b)) + (IF b \in Q THEN 1 ELSE 0)
      <4> SUFFICES ASSUME NEW b \in Bounds
                   PROVE  bucket'[j.auth][b] =
                             Finished(Within(j.auth, b)) + (IF b \in Q THEN 1 ELSE 0)
        OBVIOUS
      <4>1. bucket[j.auth][b] = Finished(Within(j.auth, b)) + (IF b \in P THEN 1 ELSE 0)
        BY <3>1 DEF Ahead
      <4>2. Finished(Within(j.auth, b)) \in Int /\ bucket[j.auth][b] \in Nat
        BY <1>1, <1>2, <1>3
      <4>3. bucket'[j.auth][b] = IF b = e /\ j.duration <= e THEN bucket[j.auth][b] + 1
                                 ELSE bucket[j.auth][b]
        BY <1>1, <1>2, <2>1
      <4> QED
        BY <3>3, <3>4, <4>1, <4>2, <4>3
    <3>6. Ahead(j.auth, 1, 0, j.duration, Q)'
      <4>1. /\ count'[j.auth] = Finished(Of(j.auth)) + 1
            /\ inf'[j.auth] = Finished(Of(j.auth)) + 0
            /\ sum'[j.auth] = RecordedTime(j.auth) + j.duration
            /\ \A c \in ErrorCodes : errors'[j.auth][c] = Finished(Erring(j.auth, c))
        BY <2>1, <3>1 DEF Ahead
      <4> QED
        BY <2>1, <3>5, <4>1 DEF Ahead, Finished, RecordedTime, Of, Within, Erring
    <3> QED
      BY <3>2, <3>6
  <2> QED
    BY <2>1, <2>2, <2>3, HolderExact DEF Inside
<1>8. CASE RecordInf(w, j)
  <2>1. /\ wpc[w] = "buckets" /\ j \in job[w] /\ j \in job'[w] /\ wpc'[w] = "errors"
        /\ todo[w] = {}
        /\ inf' = [inf EXCEPT ![j.auth] = @ + 1]
        /\ UNCHANGED <<count, sum, bucket, errors, done>>
    BY <1>1, <1>8 DEF RecordInf, history
  <2>2. \A a \in Auths \ {j.auth} : Exact(a)'
    BY <1>1, <1>4, <2>1 DEF ExactInv, Inside
  <2>3. Ahead(j.auth, 1, 1, j.duration, Buckets(j))'
    <3>1. Ahead(j.auth, 1, 0, j.duration, Buckets(j))
      <4>1. PICK P \in SUBSET Bounds :
               P = Buckets(j) \ todo[w] /\ Ahead(j.auth, 1, 0, j.duration, P)
        BY <2>1 DEF ExactInv
      <4>2. P = Buckets(j)
        BY <2>1, <4>1
      <4> QED
        BY <4>1, <4>2
    <3>2. inf'[j.auth] = Finished(Of(j.auth)) + 1
      <4>1. inf[j.auth] = Finished(Of(j.auth)) + 0 /\ Finished(Of(j.auth)) \in Int
        BY <1>2, <1>3, <3>1 DEF Ahead
      <4> QED
        BY <1>1, <1>2, <2>1, <4>1
    <3> QED
      BY <2>1, <3>1, <3>2 DEF Ahead, Finished, RecordedTime, Of, Within, Erring, Buckets
  <2> QED
    BY <2>1, <2>2, <2>3, HolderExact DEF Inside
<1>9. CASE RecordErrors(w, j)
  <2>1. /\ wpc[w] = "errors" /\ j \in job[w] /\ lock' = Free
        /\ errors' = IF j.status >= 400
                     THEN [errors EXCEPT ![j.auth][j.status] = @ + 1] ELSE errors
        /\ done' = [done EXCEPT ![j] = @ + 1]
        /\ UNCHANGED <<count, inf, sum, bucket>>
    BY <1>9 DEF RecordErrors
  <2>2. /\ \A a \in Auths \ {j.auth} : Exact(a)
        /\ Ahead(j.auth, 1, 1, j.duration, Buckets(j))
    BY <2>1 DEF ExactInv, Inside
  <2>3. ASSUME NEW a \in Auths PROVE Exact(a)'
    <3> DEFINE one == IF a = j.auth THEN 1 ELSE 0
    <3>1. /\ count[a] = Finished(Of(a)) + one /\ inf[a] = Finished(Of(a)) + one
          /\ sum[a] = RecordedTime(a) + (IF a = j.auth THEN j.duration ELSE 0)
          /\ \A b \in Bounds : bucket[a][b] =
                Finished(Within(a, b)) + (IF a = j.auth /\ j.duration <= b THEN 1 ELSE 0)
          /\ \A e \in ErrorCodes : errors[a][e] = Finished(Erring(a, e))
      <4>1. CASE a = j.auth
        BY <2>2, <4>1 DEF Ahead, Buckets
      <4>2. CASE a # j.auth
        BY <2>2, <4>2 DEF Exact, Ahead
      <4> QED
        BY <4>1, <4>2
    <3>2. /\ Finished(Of(a))' = Finished(Of(a)) + one
          /\ RecordedTime(a)' = RecordedTime(a) + (IF a = j.auth THEN j.duration ELSE 0)
      <4>1. Of(a) \in SUBSET Jobs /\ (j \in Of(a) <=> a = j.auth)
        BY DEF Of
      <4>2. Finished(Of(a))' = Finished(Of(a)) + (IF j \in Of(a) THEN 1 ELSE 0)
        BY <2>1, <4>1, FinishedOneMore DEF Of, Finished
      <4> QED
        BY <2>1, <4>1, <4>2, RecordedTimeGrows
    <3>3. ASSUME NEW b \in Bounds
          PROVE  bucket'[a][b] = Finished(Within(a, b))'
      <4>1. Within(a, b) \in SUBSET Jobs /\ (j \in Within(a, b) <=> a = j.auth /\ j.duration <= b)
        BY DEF Within
      <4>2. Finished(Within(a, b))' = Finished(Within(a, b)) + (IF j \in Within(a, b) THEN 1 ELSE 0)
        BY <2>1, <4>1, FinishedOneMore DEF Within, Finished
      <4> QED
        BY <2>1, <3>1, <4>1, <4>2
    <3>4. ASSUME NEW e \in ErrorCodes
          PROVE  errors'[a][e] = Finished(Erring(a, e))'
      <4>1. Erring(a, e) \in SUBSET Jobs /\ (j \in Erring(a, e) <=> a = j.auth /\ j.status = e)
        BY DEF Erring
      <4>2. Finished(Erring(a, e))' = Finished(Erring(a, e)) + (IF j \in Erring(a, e) THEN 1 ELSE 0)
        BY <2>1, <4>1, FinishedOneMore DEF Erring, Finished
      <4>3. errors'[a][e] = errors[a][e] + (IF a = j.auth /\ j.status = e THEN 1 ELSE 0)
        <5>1. errors[a][e] \in Int /\ errors[a][e] = errors[a][e] + 0
          BY <1>1
        <5>2. CASE j.status >= 400
          <6>1. errors' = [errors EXCEPT ![j.auth] = [errors[j.auth] EXCEPT ![j.status] = @ + 1]]
            BY <2>1, <5>2
          <6> QED
            BY <1>1, <1>2, <5>1, <6>1
        <5>3. CASE ~(j.status >= 400)
          BY <2>1, <5>1, <5>3 DEF ErrorCodes
        <5> QED
          BY <5>2, <5>3
      <4> QED
        BY <3>1, <4>1, <4>2, <4>3
    <3>5. /\ count'[a] = Finished(Of(a))' /\ inf'[a] = Finished(Of(a))'
          /\ sum'[a] = RecordedTime(a)'
      BY <2>1, <3>1, <3>2
    <3>6. /\ count'[a] \in Int /\ inf'[a] \in Int /\ sum'[a] \in Int
          /\ \A b \in Bounds : bucket'[a][b] \in Int
      BY <1>1, <2>1
    <3> QED
      BY <3>3, <3>4, <3>5, <3>6 DEF Exact, Ahead
  <2>4. \A v \in Workers : wpc'[v] \notin Inside
    BY <2>1, DomainAssumption DEF IInv, LockInv
  <2> QED
    BY <2>3, <2>4 DEF ExactInv, Inside
<1> QED
  BY <1>5, <1>6, <1>7, <1>8, <1>9 DEF Record

LEMMA ExactStep == IInv /\ IInv' /\ MoreTypes /\ ExactInv /\ [Next]_vars => ExactInv'
<1> SUFFICES ASSUME IInv, IInv', MoreTypes, ExactInv, [Next]_vars PROVE ExactInv'
  OBVIOUS
<1>1. /\ wpc \in [Workers -> {"idle", "record", "sum", "buckets", "errors"}]
      /\ job \in [Workers -> SUBSET Jobs]
  BY DEF IInv, Types
<1>2. CASE UNCHANGED vars
  BY <1>1, <1>2, ExactStays DEF vars, stats, worker, history
<1>3. ASSUME NEW w \in Workers, NEW a \in Auths, NEW d \in Durations,
             NEW status \in Statuses, NEW raised \in BOOLEAN, Call(w, a, d, status, raised)
      PROVE  ExactInv'
  <2>1. /\ UNCHANGED <<count, inf, sum, bucket, errors, done, lock, todo>>
        /\ wpc'[w] = "record"
        /\ \A v \in Workers \ {w} : wpc'[v] = wpc[v] /\ job'[v] = job[v]
    BY <1>1, <1>3 DEF Call, stats
  <2> QED
    BY <1>1, <2>1, ExactStays DEF Inside
<1>4. ASSUME NEW s \in Scrapers, Collect(s) PROVE ExactInv'
  <2>1. /\ UNCHANGED <<count, inf, sum, bucket, errors, done, wpc, job, todo>>
        /\ lock' \notin Workers <=> lock \notin Workers
    BY <1>4, CollectLock
       DEF IInv, Collect, Scrape, ReadCount, ReadMax, ResetMax, ReadBuckets, NextClass, stats, worker, history
  <2> QED
    BY <1>1, <2>1, ExactStays
<1> QED
  BY <1>2, <1>3, <1>4, RecordExact DEF Next

LEMMA ExactInit == Init => ExactInv
<1> SUFFICES ASSUME Init PROVE ExactInv
  OBVIOUS
<1>1. \A J \in SUBSET Jobs : Finished(J) = 0
  <2> SUFFICES ASSUME NEW J \in SUBSET Jobs PROVE Finished(J) = 0
    OBVIOUS
  <2>1. IsFiniteSet(J) /\ \A j \in J : done[j] = 0
    BY JobsFinite, FS_Subset DEF Init
  <2> QED
    BY <2>1, SumOfZeros DEF Finished
<1>2. ASSUME NEW a \in Auths PROVE RecordedTime(a) = 0
  <2> DEFINE f == [j \in Jobs |-> done[j] * j.duration]
             J == {j \in Jobs : j.auth = a}
  <2>1. \A j \in J : f[j] = 0
    <3> SUFFICES ASSUME NEW j \in J PROVE 0 * j.duration = 0
      BY DEF Init
    <3>1. j.duration \in Int
      BY DomainAssumption DEF Jobs
    <3> QED
      BY <3>1
  <2>2. IsFiniteSet(J)
    BY JobsFinite, FS_Subset
  <2> HIDE DEF f
  <2> QED
    BY <2>1, <2>2, SumOfZeros DEF RecordedTime, f
<1>3. ASSUME NEW a \in Auths PROVE Exact(a)
  <2>1. /\ Finished(Of(a)) = 0
        /\ \A b \in Bounds : Finished(Within(a, b)) = 0
        /\ \A e \in ErrorCodes : Finished(Erring(a, e)) = 0
    BY <1>1 DEF Of, Within, Erring
  <2> QED
    BY <1>2, <2>1 DEF Init, Exact, Ahead
<1> QED
  BY <1>3 DEF Init, ExactInv, Inside

LEMMA ExactHolds == Spec => []ExactInv
BY ExactInit, ExactStep, InvariantHolds, MoreHolds, PTL DEF Spec

(* With the lock free, the statistics of each class are exactly those of the *)
(* requests recorded for it: count, sum, cumulative buckets, +Inf and error  *)
(* counts, however the workers and the scrapers have interleaved.            *)
THEOREM StatisticsAreExact == Spec => []ExactWhenUnlocked
<1>1. IInv /\ MoreTypes /\ ExactInv => ExactWhenUnlocked
  <2> SUFFICES ASSUME IInv, MoreTypes, ExactInv, lock = Free, NEW a \in Auths
               PROVE  /\ count[a] = Finished(Of(a)) /\ inf[a] = count[a]
                      /\ sum[a] = RecordedTime(a)
                      /\ \A b \in Bounds : bucket[a][b] = Finished(Within(a, b))
                      /\ \A e \in ErrorCodes : errors[a][e] = Finished(Erring(a, e))
    BY DEF ExactWhenUnlocked, Recorded, Finished, Of, Within, Erring
  <2>1. \A b \in Bounds :
           /\ Finished(Of(a)) \in Int /\ RecordedTime(a) \in Int
           /\ Finished(Within(a, b)) \in Int
    BY FinishedType, RecordedTimeType DEF Of, Within
  <2>2. Finished(Of(a)) \in Int
    BY FinishedType DEF Of
  <2>3. RecordedTime(a) \in Int
    BY RecordedTimeType
  <2>4. Ahead(a, 0, 0, 0, {})
    BY DomainAssumption DEF ExactInv, Exact
  <2> QED
    BY <2>1, <2>2, <2>3, <2>4 DEF Ahead
<1> QED
  BY <1>1, InvariantHolds, MoreHolds, ExactHolds, PTL

=============================================================================
