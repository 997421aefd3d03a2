----------------------------- MODULE GaugeCache -----------------------------
(***************************************************************************)
(* The cache of the two expensive ZODB gauges, object count and database   *)
(* size (metrics/providers/zodb.py, _expensive_global_gauges).  A scrape   *)
(* takes the time first, looks the entry up under a lock, queries the      *)
(* database WITHOUT the lock on a miss, and stores the value under the     *)
(* lock with the time it took at the start.                                *)
(*                                                                         *)
(* The entries of different databases do not interact, so there is one.    *)
(* A value is represented by the instant at which the database was read.   *)
(* time.time() advances, and may be set back by an operator or by NTP: the *)
(* time that has really passed is clock + back.                            *)
(***************************************************************************)
EXTENDS Integers

CONSTANTS
    Scrapers,  \* threads serving @@metrics
    TTL,       \* PLONE_OBSERVABILITY_METRICS_CACHE_TTL, in clock ticks
    MaxTime,   \* bound on the time of a behaviour
    MaxBack,   \* bound on what the clock is set back by, in all
    None       \* no entry

ASSUME TimeAssumption == TTL \in Nat /\ MaxTime \in Nat /\ MaxBack \in Nat
ASSUME NoneAssumption == None \notin [at : Nat, value : Nat]

VARIABLES
    clock,   \* time.time()
    entry,   \* _global_gauge_cache[db_name]: (timestamp, value)
    pc,      \* where each scrape is
    now,     \* the time it took when it started
    value,   \* what it is about to return
    \* history; only the two bounds read it
    back,    \* how far the clock has been set back, in all
    began,   \* when each scrape really started ...
    behind,  \* ... and what back was then
    dated,   \* what back was when the time of the entry was taken
    slipped  \* by how much the clock was set back between the entry that a
             \* scrape was served from was dated and the scrape started

scraper == <<pc, now, value, began, behind, slipped>>
vars == <<clock, back, entry, dated, scraper>>

Init ==
    /\ clock = 0
    /\ entry = None
    /\ pc = [s \in Scrapers |-> "idle"]
    /\ now = [s \in Scrapers |-> 0]
    /\ value = [s \in Scrapers |-> 0]
    /\ back = 0
    /\ began = [s \in Scrapers |-> 0]
    /\ behind = [s \in Scrapers |-> 0]
    /\ dated = 0
    /\ slipped = [s \in Scrapers |-> 0]

Goto(s, from, to) == pc[s] = from /\ pc' = [pc EXCEPT ![s] = to]

Fresh(s) == entry # None /\ now[s] - entry.at < TTL

Start(s) ==
    /\ Goto(s, "idle", "lookup")
    /\ now' = [now EXCEPT ![s] = clock]
    /\ began' = [began EXCEPT ![s] = clock + back]
    /\ behind' = [behind EXCEPT ![s] = back]
    /\ UNCHANGED <<clock, back, entry, dated, value, slipped>>

Hit(s) ==
    /\ Fresh(s)
    /\ Goto(s, "lookup", "return")
    /\ value' = [value EXCEPT ![s] = entry.value]
    /\ slipped' = [slipped EXCEPT ![s] = behind[s] - dated]
    /\ UNCHANGED <<clock, back, entry, dated, now, began, behind>>

Miss(s) ==
    /\ ~Fresh(s)
    /\ Goto(s, "lookup", "query")
    /\ UNCHANGED <<clock, back, entry, dated, now, value, began, behind, slipped>>

\* objectCount() and getSize() see the database as it is at this moment;
\* the answer may be long in coming (Store).
Query(s) ==
    /\ Goto(s, "query", "store")
    /\ value' = [value EXCEPT ![s] = clock + back]
    /\ UNCHANGED <<clock, back, entry, dated, now, began, behind, slipped>>

\* The storage raises: the provider fails and nothing is cached.
QueryFails(s) ==
    /\ \/ Goto(s, "query", "idle")
       \/ Goto(s, "store", "idle")
    /\ UNCHANGED <<clock, back, entry, dated, now, value, began, behind, slipped>>

\* Mutant: the entry is dated when it is written.
StoreDatedLate(s) ==
    /\ Goto(s, "store", "return")
    /\ entry' = [at |-> clock, value |-> value[s]]
    /\ dated' = back
    /\ UNCHANGED <<clock, back, now, value, began, behind, slipped>>

Store(s) ==
    /\ Goto(s, "store", "return")
    /\ entry' = [at |-> now[s], value |-> value[s]]
    /\ dated' = behind[s]
    /\ UNCHANGED <<clock, back, now, value, began, behind, slipped>>

\* The gauges are yielded and the scrape goes on elsewhere.
Return(s) ==
    /\ Goto(s, "return", "idle")
    /\ UNCHANGED <<clock, back, entry, dated, now, value, began, behind, slipped>>

Tick ==
    /\ clock + back < MaxTime
    /\ clock' = clock + 1
    /\ UNCHANGED <<back, entry, dated, scraper>>

SetBack ==
    /\ \E k \in 1..clock :
          /\ back + k <= MaxBack
          /\ clock' = clock - k
          /\ back' = back + k
    /\ UNCHANGED <<entry, dated, scraper>>

Scrape(s) ==
    Start(s) \/ Hit(s) \/ Miss(s) \/ Query(s) \/ QueryFails(s) \/ Store(s) \/ Return(s)

Next == Tick \/ SetBack \/ \E s \in Scrapers : Scrape(s)

Spec == Init /\ [][Next]_vars

-----------------------------------------------------------------------------

TypeOK ==
    /\ clock \in Nat
    /\ entry \in [at : Nat, value : Nat] \cup {None}
    /\ pc \in [Scrapers -> {"idle", "lookup", "query", "store", "return"}]
    /\ now \in [Scrapers -> Nat]
    /\ value \in [Scrapers -> Nat]
    /\ back \in 0..MaxBack
    /\ began \in [Scrapers -> Nat]
    /\ behind \in [Scrapers -> 0..MaxBack]
    /\ dated \in 0..MaxBack
    /\ slipped \in [Scrapers -> (-MaxBack)..MaxBack]

(* No scrape returns a value that was read from the database TTL or longer  *)
(* before the scrape began (or, when it queried itself, before it began),   *)
(* although queries may be slow and overtake each other: the timestamp of   *)
(* an entry is never later than the reading it stands for.  A clock set     *)
(* back after an entry was dated leaves it dated in the future, and it is   *)
(* served for longer by exactly as much.  That ends with the entry: what    *)
(* the clock was set back by before an entry was dated, or after a scrape   *)
(* took the time, adds nothing.                                             *)
NeverStale ==
    \A s \in Scrapers : pc[s] = "return" =>
        began[s] - value[s] < TTL + slipped[s] \/ value[s] >= began[s]

=============================================================================
