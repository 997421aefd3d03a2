--------------------------- MODULE RequestMetrics ---------------------------
(***************************************************************************)
(* The request metrics of plone.observability                              *)
(* (metrics/providers/request.py): ObservabilityMiddleware times every     *)
(* request and calls RequestTracker.record under the tracker's lock;       *)
(* RequestMetricProvider.collect reads the same statistics WITHOUT the     *)
(* lock, one metric after the other, except for take_max, which reads and  *)
(* resets the maximum under the lock.                                      *)
(*                                                                         *)
(* record is split where an unlocked reader can see the difference: after  *)
(* the count, after the sum, after every bucket and after +Inf.  take_max  *)
(* is split between its read and its reset, and collect at every read      *)
(* whose value the properties use.                                         *)
(***************************************************************************)
EXTENDS Integers, Sequences, Functions, FiniteSetsExt

CONSTANTS
    Workers,       \* WSGI worker threads
    Scrapers,      \* threads serving @@metrics
    AUTH_CLASSES,  \* the tuple of auth classes, in the order collect takes
    Bounds,        \* RequestTracker.buckets, +Inf apart
    Durations,     \* what time.time() - start may come out as, negative if the
                   \* clock has been set back
    Statuses,      \* status codes the application answers with
    MaxRequests,   \* bound on the requests of a behaviour
    Free           \* nobody holds the lock

Auths == {AUTH_CLASSES[i] : i \in DOMAIN AUTH_CLASSES}
ErrorCodes == {s \in Statuses : s >= 400}
Jobs == [auth : Auths, duration : Durations, status : Statuses]

ASSUME DomainAssumption ==
    /\ Bounds \subseteq Int /\ Durations \subseteq Int
    /\ Statuses \subseteq Nat /\ 200 \in Statuses
    /\ MaxRequests \in Nat
    /\ AUTH_CLASSES \in Seq(STRING) /\ AUTH_CLASSES # <<>>
    /\ Free \notin Workers \cup Scrapers /\ Workers \cap Scrapers = {}

\* A duration is a float, a status a number of three digits.
ASSUME FiniteAssumption == IsFiniteSet(Durations) /\ IsFiniteSet(Statuses)

VARIABLES
    \* RequestTracker: _stats[auth], one function per key, and _lock
    count, sum, maxDuration, bucket, inf, errors, lock,
    \* WSGI workers: the place in record, its arguments (a set of at most one
    \* job) and the bucket bounds its loop has not passed yet
    wpc, job, todo,
    \* scrapers: the next metric of collect, the index of the class it is at,
    \* and what it has read of that class
    spc, at, seen,
    taken,    \* the window that its last take_max is to report (history)
    \* history; only the bound on requests reads it
    arrived,  \* requests so far
    done,     \* how often record has finished with which arguments
    window,   \* durations recorded since the last take_max
    failed    \* requests that ended in an error for the client

stats == <<count, sum, maxDuration, bucket, inf, errors>>
worker == <<wpc, job, todo>>
scraper == <<spc, at, seen, taken>>
history == <<arrived, done, window, failed>>
vars == <<stats, lock, worker, scraper, history>>

Nothing == [count |-> 0, max |-> 0, bucket |-> [b \in Bounds |-> 0], inf |-> 0]

Init ==
    /\ count = [a \in Auths |-> 0]
    /\ sum = [a \in Auths |-> 0]
    /\ maxDuration = [a \in Auths |-> 0]
    /\ bucket = [a \in Auths |-> [b \in Bounds |-> 0]]
    /\ inf = [a \in Auths |-> 0]
    /\ errors = [a \in Auths |-> [e \in ErrorCodes |-> 0]]
    /\ lock = Free
    /\ wpc = [w \in Workers |-> "idle"]
    /\ job = [w \in Workers |-> {}]
    /\ todo = [w \in Workers |-> {}]
    /\ spc = [s \in Scrapers |-> "idle"]
    /\ at = [s \in Scrapers |-> 1]
    /\ seen = [s \in Scrapers |-> Nothing]
    /\ taken = [s \in Scrapers |-> {}]
    /\ arrived = 0
    /\ done = [j \in Jobs |-> 0]
    /\ window = [a \in Auths |-> {}]
    /\ failed = 0

-----------------------------------------------------------------------------
(* ObservabilityMiddleware and RequestTracker.record.                      *)

\* The wrapped application answers with status, or raises before it calls
\* start_response: the middleware then still holds its default of 200, while
\* the middleware outside it turns the exception into an error response.
Call(w, a, d, status, raised) ==
    /\ wpc[w] = "idle"
    /\ arrived < MaxRequests
    /\ arrived' = arrived + 1
    /\ failed' = IF raised \/ status >= 400 THEN failed + 1 ELSE failed
    /\ job' = [job EXCEPT ![w] =
                  {[auth |-> a, duration |-> d, status |-> IF raised THEN 200 ELSE status]}]
    /\ wpc' = [wpc EXCEPT ![w] = "record"]
    /\ UNCHANGED <<stats, lock, todo, scraper, done, window>>

\* Mutant: the lock is taken without waiting for it.
RecordCountUnlocked(w, j) ==
    /\ wpc[w] = "record" /\ j \in job[w]
    /\ lock' = w
    /\ count' = [count EXCEPT ![j.auth] = @ + 1]
    /\ wpc' = [wpc EXCEPT ![w] = "sum"]
    /\ UNCHANGED <<sum, maxDuration, bucket, inf, errors, job, todo, scraper, history>>

RecordCount(w, j) ==
    /\ wpc[w] = "record" /\ j \in job[w]
    /\ lock = Free
    /\ lock' = w
    /\ count' = [count EXCEPT ![j.auth] = @ + 1]
    /\ wpc' = [wpc EXCEPT ![w] = "sum"]
    /\ UNCHANGED <<sum, maxDuration, bucket, inf, errors, job, todo, scraper, history>>

RecordSum(w, j) ==
    /\ wpc[w] = "sum" /\ j \in job[w]
    /\ sum' = [sum EXCEPT ![j.auth] = @ + j.duration]
    /\ maxDuration' = [maxDuration EXCEPT ![j.auth] = IF j.duration > @ THEN j.duration ELSE @]
    /\ todo' = [todo EXCEPT ![w] = Bounds]
    /\ wpc' = [wpc EXCEPT ![w] = "buckets"]
    /\ UNCHANGED <<count, bucket, inf, errors, lock, job, scraper, history>>

\* One turn of the loop over self.buckets, which are in ascending order.
RecordBucket(w, j, b) ==
    /\ wpc[w] = "buckets" /\ j \in job[w]
    /\ b \in todo[w] /\ \A c \in todo[w] : b <= c
    /\ bucket' = IF j.duration <= b THEN [bucket EXCEPT ![j.auth][b] = @ + 1] ELSE bucket
    /\ todo' = [todo EXCEPT ![w] = @ \ {b}]
    /\ UNCHANGED <<count, sum, maxDuration, inf, errors, lock, wpc, job, scraper, history>>

RecordInf(w, j) ==
    /\ wpc[w] = "buckets" /\ j \in job[w]
    /\ todo[w] = {}
    /\ inf' = [inf EXCEPT ![j.auth] = @ + 1]
    /\ wpc' = [wpc EXCEPT ![w] = "errors"]
    /\ UNCHANGED <<count, sum, maxDuration, bucket, errors, lock, job, todo, scraper, history>>

\* The error count, and the end of the with block.
RecordErrors(w, j) ==
    /\ wpc[w] = "errors" /\ j \in job[w]
    /\ errors' = IF j.status >= 400 THEN [errors EXCEPT ![j.auth][j.status] = @ + 1] ELSE errors
    /\ lock' = Free
    /\ job' = [job EXCEPT ![w] = {}]
    /\ wpc' = [wpc EXCEPT ![w] = "idle"]
    /\ done' = [done EXCEPT ![j] = @ + 1]
    /\ window' = [window EXCEPT ![j.auth] = @ \cup {j.duration}]
    /\ UNCHANGED <<count, sum, maxDuration, bucket, inf, todo, scraper, arrived, failed>>

-----------------------------------------------------------------------------
(* RequestMetricProvider.collect.                                          *)

\* The class the scraper is at.
Class(s) == AUTH_CLASSES[at[s]]

Scrape(s) ==
    /\ spc[s] = "idle"
    /\ spc' = [spc EXCEPT ![s] = "count"]
    /\ UNCHANGED <<stats, lock, worker, at, seen, taken, history>>

\* plone_request_duration_seconds_count
ReadCount(s) ==
    /\ spc[s] = "count"
    /\ seen' = [seen EXCEPT ![s].count = count[Class(s)]]
    /\ spc' = [spc EXCEPT ![s] = "max"]
    /\ UNCHANGED <<stats, lock, worker, at, taken, history>>

\* Mutant: the maximum is read before the lock is taken.
ReadMaxUnlocked(s) ==
    /\ spc[s] = "max"
    /\ seen' = [seen EXCEPT ![s].max = maxDuration[Class(s)]]
    /\ spc' = [spc EXCEPT ![s] = "reset"]
    /\ UNCHANGED <<stats, lock, worker, at, taken, history>>

\* take_max waits for the lock and reads ...
ReadMax(s) ==
    /\ spc[s] = "max"
    /\ lock = Free
    /\ lock' = s
    /\ seen' = [seen EXCEPT ![s].max = maxDuration[Class(s)]]
    /\ spc' = [spc EXCEPT ![s] = "reset"]
    /\ UNCHANGED <<stats, worker, at, taken, history>>

\* ... and resets before it releases it: a new window begins.
ResetMax(s) ==
    /\ spc[s] = "reset"
    /\ maxDuration' = [maxDuration EXCEPT ![Class(s)] = 0]
    /\ lock' = Free
    /\ taken' = [taken EXCEPT ![s] = window[Class(s)]]
    /\ window' = [window EXCEPT ![Class(s)] = {}]
    /\ spc' = [spc EXCEPT ![s] = "buckets"]
    /\ UNCHANGED <<count, sum, bucket, inf, errors, worker, at, seen, arrived, done, failed>>

\* sorted(stats["buckets"].items()) copies the dict in one go.
ReadBuckets(s) ==
    /\ spc[s] = "buckets"
    /\ seen' = [seen EXCEPT ![s].bucket = bucket[Class(s)], ![s].inf = inf[Class(s)]]
    /\ spc' = [spc EXCEPT ![s] = "done"]
    /\ UNCHANGED <<stats, lock, worker, at, taken, history>>

\* On to the next class, or the scrape is complete.
NextClass(s) ==
    /\ spc[s] = "done"
    /\ seen' = [seen EXCEPT ![s] = Nothing]
    /\ taken' = [taken EXCEPT ![s] = {}]
    /\ IF at[s] < Len(AUTH_CLASSES)
       THEN at' = [at EXCEPT ![s] = @ + 1] /\ spc' = [spc EXCEPT ![s] = "count"]
       ELSE at' = [at EXCEPT ![s] = 1] /\ spc' = [spc EXCEPT ![s] = "idle"]
    /\ UNCHANGED <<stats, lock, worker, history>>

Record(w, j) ==
    \/ RecordCount(w, j) \/ RecordSum(w, j)
    \/ \E b \in Bounds : RecordBucket(w, j, b)
    \/ RecordInf(w, j) \/ RecordErrors(w, j)

Collect(s) ==
    \/ Scrape(s) \/ ReadCount(s) \/ ReadMax(s) \/ ResetMax(s)
    \/ ReadBuckets(s) \/ NextClass(s)

Next ==
    \/ \E w \in Workers, a \in Auths, d \in Durations, status \in Statuses, raised \in BOOLEAN :
          Call(w, a, d, status, raised)
    \/ \E w \in Workers, j \in Jobs : Record(w, j)
    \/ \E s \in Scrapers : Collect(s)

Spec == Init /\ [][Next]_vars

-----------------------------------------------------------------------------

TypeOK ==
    /\ count \in [Auths -> Nat]
    /\ sum \in [Auths -> Int]
    /\ maxDuration \in [Auths -> Int]
    /\ bucket \in [Auths -> [Bounds -> Nat]]
    /\ inf \in [Auths -> Nat]
    /\ errors \in [Auths -> [ErrorCodes -> Nat]]
    /\ lock \in Workers \cup Scrapers \cup {Free}
    /\ wpc \in [Workers -> {"idle", "record", "sum", "buckets", "errors"}]
    /\ job \in [Workers -> SUBSET Jobs]
    /\ todo \in [Workers -> SUBSET Bounds]
    /\ spc \in [Scrapers -> {"idle", "count", "max", "reset", "buckets", "done"}]
    /\ at \in [Scrapers -> DOMAIN AUTH_CLASSES]
    /\ seen \in [Scrapers -> [count : Nat, max : Int, bucket : [Bounds -> Nat], inf : Nat]]
    /\ taken \in [Scrapers -> SUBSET Durations]
    /\ arrived \in 0..MaxRequests
    /\ done \in [Jobs -> Nat]
    /\ window \in [Auths -> SUBSET Durations]
    /\ failed \in 0..arrived

\* How many finished records satisfy a test.
Recorded(Test(_)) == SumFunctionOnSet(done, {j \in Jobs : Test(j)})

\* The time they took.
RecordedTime(a) ==
    SumFunctionOnSet([j \in Jobs |-> done[j] * j.duration], {j \in Jobs : j.auth = a})

(* Whenever nobody holds the lock, the statistics of each class are exactly *)
(* those of the requests recorded for it: no concurrent record is lost or   *)
(* counted in the other class, the buckets are cumulative, and +Inf, the    *)
(* count, the sum and the error counts agree with them.  A duration that is *)
(* negative, the clock having been set back, is in every bucket and lowers  *)
(* the sum.                                                                 *)
ExactWhenUnlocked ==
    lock = Free => \A a \in Auths :
        /\ count[a] = Recorded(LAMBDA j : j.auth = a)
        /\ inf[a] = count[a]
        /\ sum[a] = RecordedTime(a)
        /\ \A b \in Bounds : bucket[a][b] = Recorded(LAMBDA j : j.auth = a /\ j.duration <= b)
        /\ \A e \in ErrorCodes : errors[a][e] = Recorded(LAMBDA j : j.auth = a /\ j.status = e)

\* What is kept for a class is the maximum since it was last taken.
KeptIsOfTheWindow ==
    lock = Free => \A a \in Auths : maxDuration[a] = Max({0} \cup window[a])

\* What a scrape reports is the maximum of the window that its reset ended.
TakenIsOfTheWindow ==
    \A s \in Scrapers : spc[s] \in {"buckets", "done"} => seen[s].max = Max({0} \cup taken[s])

(* No slow request is forgotten: every request recorded for a class is in   *)
(* the maximum kept for it or in that of exactly one scrape, also one that  *)
(* is being recorded while a scraper reads and then resets the maximum.     *)
WindowMaximum == KeptIsOfTheWindow /\ TakenIsOfTheWindow

\* In every class of a scrape the +Inf bucket covers the count reported before
\* it: take_max, in between, waits for whoever was recording at the time.
InfCoversCount ==
    \A s \in Scrapers : spc[s] = "done" => seen[s].count <= seen[s].inf

BucketsTornByOne ==
    \A s \in Scrapers : spc[s] = "done" =>
        \A b \in Bounds :
            /\ seen[s].bucket[b] <= seen[s].inf + 1
            /\ \A c \in Bounds : b <= c => seen[s].bucket[b] <= seen[s].bucket[c] + 1

(* A scrape that overlaps record() reads a histogram that is not cumulative *)
(* and whose count is not its +Inf.  But however many workers record, its   *)
(* buckets are out by no more than the one request that is inside the lock, *)
(* and its +Inf is never below the count.                                   *)
TornByOneRequest == InfCoversCount /\ BucketsTornByOne

-----------------------------------------------------------------------------
(* A claim of the documentation that the code does not keep.               *)

(* plone_request_errors is documented as the HTTP errors by status code: with *)
(* no request under way, every request that failed would be counted.         *)
EveryErrorCounted ==
    (\A w \in Workers : wpc[w] = "idle") =>
        failed = Recorded(LAMBDA j : j.status >= 400)

=============================================================================
