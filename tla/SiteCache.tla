----------------------------- MODULE SiteCache -----------------------------
(***************************************************************************)
(* The per-site cache of the content metrics (metrics/providers/           *)
(* content.py).  A scrape lists the Plone sites of its own ZODB snapshot,  *)
(* takes the time once, and visits the sites one after the other: it looks *)
(* the site up under the lock, collects from the catalog WITHOUT the lock  *)
(* on a miss, and stores the list under the lock, dated with the time it   *)
(* took at the start.  At the end it drops the entries of all sites that   *)
(* are not on its list.                                                    *)
(*                                                                         *)
(* A list of metrics is represented by whether both catalog indexes could  *)
(* be read, and by the site it is about: a site may be deleted and another *)
(* one be created under its id, which the code does not tell apart.  The   *)
(* snapshot is older than the time that dates what is collected from it,   *)
(* by as long as the request has been busy before (lag).                   *)
(***************************************************************************)
EXTENDS Integers, Sequences

CONSTANTS
    Scrapers,    \* threads serving @@metrics
    Sites,       \* ids a Plone site may have
    TTL,         \* PLONE_OBSERVABILITY_METRICS_CACHE_TTL, in clock ticks
    MaxTime,     \* bound on the clock of a behaviour
    MaxLag,      \* bound on the time from a snapshot to what dates it
    MaxRemovals, \* bound on how often a site of one id is deleted
    None         \* no entry

ASSUME SiteTimeAssumption ==
    TTL \in Nat /\ MaxTime \in Nat /\ MaxLag \in Nat /\ MaxRemovals \in Nat
ASSUME SiteNoneAssumption == None \notin [at : Nat, whole : BOOLEAN, of : Nat]

VARIABLES
    clock,       \* time.time()
    cache,       \* _site_cache
    \* each scrape
    pc,          \* where it is
    snapshot,    \* what it sees of the database
    todo,        \* ids of the sites it has not reported yet
    now,         \* the time it took when it started
    metrics,     \* the list just collected, and for which site
    \* the environment
    root,        \* ids of the sites in the application root
    broken,      \* sites whose catalog lacks an index or fails on it
    \* history, read by no decision
    removed,     \* when the sites of each id were deleted
    lastBroken,  \* when a site was last broken (-1: never)
    began,       \* when each scrape began that has not taken the time
    lag          \* the longest that took any scrape

scraper == <<pc, snapshot, todo, now, metrics, began, lag>>
environment == <<root, broken, removed, lastBroken>>
vars == <<clock, cache, scraper, environment>>

NoList == [site |-> None, whole |-> TRUE, of |-> 0]
NoSnapshot == [sites |-> {}, broken |-> {}, of |-> [x \in Sites |-> 0]]

Init ==
    /\ clock = 0
    /\ cache = [x \in Sites |-> None]
    /\ pc = [s \in Scrapers |-> "idle"]
    /\ snapshot = [s \in Scrapers |-> NoSnapshot]
    /\ todo = [s \in Scrapers |-> {}]
    /\ now = [s \in Scrapers |-> 0]
    /\ metrics = [s \in Scrapers |-> NoList]
    /\ root \in SUBSET Sites
    /\ broken = {}
    /\ removed = [x \in Sites |-> <<>>]
    /\ lastBroken = [x \in Sites |-> -1]
    /\ began = [s \in Scrapers |-> 0]
    /\ lag = 0

Goto(s, from, to) == pc[s] = from /\ pc' = [pc EXCEPT ![s] = to]

\* The transaction begins.  What it sees, and what _find_plone_sites lists, is
\* the database as it is now; the site of an id is told by how many have gone.
Begin(s) ==
    /\ Goto(s, "idle", "time")
    /\ snapshot' = [snapshot EXCEPT ![s] =
          [sites |-> root, broken |-> broken, of |-> [x \in Sites |-> Len(removed[x])]]]
    /\ began' = [began EXCEPT ![s] = clock]
    /\ UNCHANGED <<clock, cache, todo, now, metrics, lag, environment>>

\* sites = _find_plone_sites(self.context), and only then the time.
TakeTime(s) ==
    /\ Goto(s, "time", "visit")
    /\ now' = [now EXCEPT ![s] = clock]
    /\ todo' = [todo EXCEPT ![s] = snapshot[s].sites]
    /\ lag' = IF clock - began[s] > lag THEN clock - began[s] ELSE lag
    /\ began' = [began EXCEPT ![s] = 0]
    /\ UNCHANGED <<clock, cache, snapshot, metrics, environment>>

\* Mutant: an entry is served when it is exactly as old as the TTL.
FreshInclusive(s, x) == cache[x] # None /\ now[s] - cache[x].at <= TTL

Fresh(s, x) == cache[x] # None /\ now[s] - cache[x].at < TTL

Hit(s, x) ==
    /\ pc[s] = "visit" /\ x \in todo[s]
    /\ Fresh(s, x)
    /\ todo' = [todo EXCEPT ![s] = @ \ {x}]
    /\ UNCHANGED <<clock, cache, pc, snapshot, now, metrics, began, lag, environment>>

\* Also of an entry that has expired.
Miss(s, x) ==
    /\ x \in todo[s]
    /\ ~Fresh(s, x)
    /\ Goto(s, "visit", "collect")
    /\ metrics' = [metrics EXCEPT ![s] =
                     [site |-> x, whole |-> FALSE, of |-> snapshot[s].of[x]]]
    /\ UNCHANGED <<clock, cache, snapshot, todo, now, began, lag, environment>>

\* _collect_site: the failure of an index is swallowed, the list then lacks
\* its metrics.  An index that is missing is so in the snapshot; a catalog
\* that keeps its indexes elsewhere fails by what is so now.
CollectSite(s) ==
    /\ Goto(s, "collect", "store")
    /\ \E failing \in {broken, snapshot[s].broken} :
          metrics' = [metrics EXCEPT ![s].whole = metrics[s].site \notin failing]
    /\ UNCHANGED <<clock, cache, snapshot, todo, now, began, lag, environment>>

Stop(s) ==
    /\ snapshot' = [snapshot EXCEPT ![s] = NoSnapshot]
    /\ todo' = [todo EXCEPT ![s] = {}]
    /\ metrics' = [metrics EXCEPT ![s] = NoList]
    /\ now' = [now EXCEPT ![s] = 0]
    /\ UNCHANGED <<began, lag>>

\* Any other exception (the catalog tool itself cannot be loaded) leaves the
\* provider; the view logs it and goes on without the remaining sites.
CollectFails(s) ==
    /\ Goto(s, "collect", "idle")
    /\ Stop(s)
    /\ UNCHANGED <<clock, cache, environment>>

\* Mutant: the entry is dated when it is written.
StoreDatedLate(s) ==
    /\ Goto(s, "store", "visit")
    /\ LET m == metrics[s] IN
       /\ cache' = [cache EXCEPT ![m.site] = [at |-> clock, whole |-> m.whole, of |-> m.of]]
       /\ todo' = [todo EXCEPT ![s] = @ \ {m.site}]
    /\ metrics' = [metrics EXCEPT ![s] = NoList]
    /\ UNCHANGED <<clock, snapshot, now, began, lag, environment>>

Store(s) ==
    /\ Goto(s, "store", "visit")
    /\ LET m == metrics[s] IN
       /\ cache' = [cache EXCEPT ![m.site] = [at |-> now[s], whole |-> m.whole, of |-> m.of]]
       /\ todo' = [todo EXCEPT ![s] = @ \ {m.site}]
    /\ metrics' = [metrics EXCEPT ![s] = NoList]
    /\ UNCHANGED <<clock, snapshot, now, began, lag, environment>>

\* Mutant: nothing is dropped when the list of sites is empty.
DropOthersUnlessEmpty(s) ==
    /\ todo[s] = {}
    /\ Goto(s, "visit", "idle")
    /\ cache' = [x \in Sites |->
                    IF snapshot[s].sites = {} \/ x \in snapshot[s].sites
                    THEN cache[x] ELSE None]
    /\ Stop(s)
    /\ UNCHANGED <<clock, environment>>

\* "Drop entries of sites that no longer exist", judged by the scrape's list.
DropOthers(s) ==
    /\ todo[s] = {}
    /\ Goto(s, "visit", "idle")
    /\ cache' = [x \in Sites |-> IF x \in snapshot[s].sites THEN cache[x] ELSE None]
    /\ Stop(s)
    /\ UNCHANGED <<clock, environment>>

-----------------------------------------------------------------------------
(* The environment: time, site managers, and the catalogs.                 *)

Tick ==
    /\ clock < MaxTime
    /\ \A s \in Scrapers : pc[s] = "time" => clock - began[s] < MaxLag
    /\ clock' = clock + 1
    /\ lastBroken' = [x \in Sites |-> IF x \in broken THEN clock + 1 ELSE lastBroken[x]]
    /\ UNCHANGED <<cache, scraper, root, broken, removed>>

AddSite(x) ==
    /\ x \notin root
    /\ root' = root \cup {x}
    /\ UNCHANGED <<clock, cache, scraper, broken, removed, lastBroken>>

RemoveSite(x) ==
    /\ x \in root /\ Len(removed[x]) < MaxRemovals
    /\ root' = root \ {x}
    /\ broken' = broken \ {x}
    /\ removed' = [removed EXCEPT ![x] = Append(@, clock)]
    /\ UNCHANGED <<clock, cache, scraper, lastBroken>>

Break(x) ==
    /\ x \in root
    /\ broken' = broken \cup {x}
    /\ lastBroken' = [lastBroken EXCEPT ![x] = clock]
    /\ UNCHANGED <<clock, cache, scraper, root, removed>>

Repair(x) ==
    /\ broken' = broken \ {x}
    /\ UNCHANGED <<clock, cache, scraper, root, removed, lastBroken>>

Scrape(s) ==
    \/ Begin(s) \/ TakeTime(s)
    \/ \E x \in Sites : Hit(s, x) \/ Miss(s, x)
    \/ CollectSite(s) \/ CollectFails(s) \/ Store(s) \/ DropOthers(s)

Next ==
    \/ \E s \in Scrapers : Scrape(s)
    \/ Tick
    \/ \E x \in Sites : AddSite(x) \/ RemoveSite(x) \/ Break(x) \/ Repair(x)

Spec == Init /\ [][Next]_vars

\* A scrape that has begun is carried on by its thread.
FairSpec ==
    Spec /\ \A s \in Scrapers : WF_vars(pc[s] # "idle" /\ Scrape(s))

-----------------------------------------------------------------------------

TypeOK ==
    /\ clock \in Nat
    /\ cache \in [Sites -> [at : Nat, whole : BOOLEAN, of : Nat] \cup {None}]
    /\ pc \in [Scrapers -> {"idle", "time", "visit", "collect", "store"}]
    /\ snapshot \in [Scrapers ->
          [sites : SUBSET Sites, broken : SUBSET Sites, of : [Sites -> Nat]]]
    /\ todo \in [Scrapers -> SUBSET Sites]
    /\ now \in [Scrapers -> Nat]
    /\ metrics \in [Scrapers -> [site : Sites \cup {None}, whole : BOOLEAN, of : Nat]]
    /\ root \subseteq Sites
    /\ broken \subseteq Sites
    /\ removed \in [Sites -> Seq(Nat)]
    /\ lastBroken \in [Sites -> Nat \cup {-1}]
    /\ began \in [Scrapers -> Nat]
    /\ lag \in Nat

\* The scrape s is about to take the list of the site x from the cache.
Serves(s, x) == pc[s] = "visit" /\ x \in todo[s] /\ Fresh(s, x)

(* An index failure that was swallowed and cached is not reported for longer *)
(* than a TTL: an incomplete list that a scrape is about to take from the    *)
(* cache means that the site was broken less than a TTL before the scrape    *)
(* took the time, however slow the scrape was that collected it, give or     *)
(* take what a snapshot may be older than the time that dates it.            *)
FailuresExpire ==
    \A s \in Scrapers, x \in Sites :
        Serves(s, x) /\ ~cache[x].whole => now[s] - lastBroken[x] < TTL + lag

(* A list does not outlive its site by more, although nothing tells the list *)
(* of a deleted site from that of its successor under the same id.           *)
EarlierSitesExpire ==
    \A s \in Scrapers, x \in Sites :
        Serves(s, x) /\ cache[x].of < Len(removed[x]) =>
            now[s] - removed[x][cache[x].of + 1] < TTL + lag

(* Entries do not outlive their sites: once a site is gone for good and      *)
(* scrapes keep being completed, its entry is dropped and not brought back,  *)
(* not even by a scrape that still saw the site.                             *)
GoneSitesAreForgotten ==
    \A x \in Sites :
        (/\ <>[](x \notin root)
         /\ []<><<\E s \in Scrapers : DropOthers(s)>>_vars)
            => <>[](cache[x] = None)

=============================================================================
