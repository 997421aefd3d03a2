-------------------------- MODULE SiteCacheProofs --------------------------
(***************************************************************************)
(* Proofs about SiteCache, for every set of scrapers and sites, every TTL  *)
(* and every length of behaviour.                                          *)
(***************************************************************************)
EXTENDS SiteCache, TLAPS

Entries == [at : Nat, whole : BOOLEAN, of : Nat]
Lists == [site : Sites \cup {None}, whole : BOOLEAN, of : Nat]
Snapshots == [sites : SUBSET Sites, broken : SUBSET Sites, of : [Sites -> Nat]]

\* The n-th site of an id was there at the time d, give or take l; r are the
\* times at which the sites of the id were deleted.
There(r, n, d, l) == n <= Len(r) /\ (n < Len(r) => d <= r[n + 1] + l)

\* A scrape visits sites of its own snapshot only, and while it collects,
\* metrics names the site it collects from.
AtASite ==
    \A s \in Scrapers :
        /\ pc[s] \in {"idle", "time"} => todo[s] = {}
        /\ todo[s] \subseteq snapshot[s].sites
        /\ pc[s] \in {"collect", "store"} =>
              /\ metrics[s].site \in snapshot[s].sites
              /\ metrics[s].of = snapshot[s].of[metrics[s].site]

\* lastBroken is what its name says, and nobody is ahead of the clock.
BrokenDated ==
    /\ \A x \in Sites : lastBroken[x] <= clock
    /\ \A x \in broken : lastBroken[x] = clock
    /\ \A s \in Scrapers : now[s] <= clock /\ began[s] <= clock

\* What a snapshot shows was so when it was taken: no longer ago than lag,
\* once the time is taken that dates it.
SnapshotDated(s) ==
    \A x \in Sites :
        /\ pc[s] = "time" =>
              /\ x \in snapshot[s].broken => began[s] <= lastBroken[x]
              /\ There(removed[x], snapshot[s].of[x], began[s], 0)
        /\ pc[s] \in {"visit", "collect", "store"} =>
              /\ x \in snapshot[s].broken => now[s] <= lastBroken[x] + lag
              /\ There(removed[x], snapshot[s].of[x], now[s], lag)

SnapshotsDated == \A s \in Scrapers : SnapshotDated(s)

\* The same of the lists that are collected from it, and of the entries.
ListsDated ==
    \A s \in Scrapers :
        (pc[s] = "store" /\ ~metrics[s].whole) =>
            now[s] <= lastBroken[metrics[s].site] + lag

EntryDated(x) ==
    cache[x] # None =>
        /\ cache[x].at <= clock
        /\ ~cache[x].whole => cache[x].at <= lastBroken[x] + lag
        /\ There(removed[x], cache[x].of, cache[x].at, lag)

EntriesDated == \A x \in Sites : EntryDated(x)

IInv == TypeOK /\ AtASite /\ BrokenDated /\ SnapshotsDated /\ ListsDated /\ EntriesDated

-----------------------------------------------------------------------------
(* Time goes on: what has been dated stays so.                             *)

LEMMA StillThere ==
    ASSUME NEW r \in Seq(Nat), NEW n \in Nat, NEW d \in Nat, NEW l \in Nat, NEW m \in Nat,
           l <= m, NEW c \in Nat, d <= c, NEW q, q = r \/ q = Append(r, c),
           There(r, n, d, l)
    PROVE  There(q, n, d, m)
<1> DEFINE N == Len(r)
<1>1. N \in Nat /\ n <= N /\ (n < N => d <= r[n + 1] + l) /\ \A k \in 1..N : r[k] \in Nat
  BY DEF There
<1>2. n < N => d <= r[n + 1] + m
  <2> SUFFICES ASSUME n < N PROVE d <= r[n + 1] + m
    OBVIOUS
  <2> DEFINE t == r[n + 1]
  <2>1. t \in Nat /\ d <= t + l
    BY <1>1
  <2> HIDE DEF t
  <2>2. d <= t + m
    BY <2>1
  <2> QED
    BY <2>2 DEF t
<1>3. CASE q = r
  BY <1>1, <1>2, <1>3 DEF There
<1>4. CASE q = Append(r, c)
  <2>1. Len(q) = N + 1 /\ q[N + 1] = c /\ \A k \in 1..N : q[k] = r[k]
    BY <1>4
  <2>2. CASE n = N
    BY <1>1, <2>1, <2>2 DEF There
  <2>3. CASE n # N
    <3>1. n < N /\ n + 1 \in 1..N
      BY <1>1, <2>3
    <3>2. q[n + 1] = r[n + 1]
      BY <2>1, <3>1
    <3> QED
      BY <1>1, <1>2, <2>1, <3>1, <3>2 DEF There
  <2> QED
    BY <2>2, <2>3
<1> QED
  BY <1>3, <1>4

LEMMA LaterBound ==
    ASSUME NEW d \in Nat, NEW b \in Int, NEW c \in Int, NEW l \in Nat, NEW m \in Nat,
           b <= c, l <= m, d <= b + l
    PROVE  d <= c + m
OBVIOUS

\* What a step does to the dates.
Onward ==
    /\ clock' \in Nat /\ clock <= clock'
    /\ lag' \in Nat /\ lag <= lag'
    /\ lastBroken' \in [Sites -> Nat \cup {-1}]
    /\ removed' \in [Sites -> Seq(Nat)]
    /\ \A x \in Sites :
          /\ lastBroken[x] <= lastBroken'[x]
          /\ removed'[x] = removed[x] \/ removed'[x] = Append(removed[x], clock)

\* Where the snapshot is the same, it is dated as before.
LEMMA SnapshotStays ==
    ASSUME IInv, Onward, NEW s \in Scrapers,
           snapshot'[s] = snapshot[s], began'[s] = began[s], now'[s] = now[s],
           \/ pc'[s] = pc[s]
           \/ pc[s] \in {"visit", "collect", "store"} /\ pc'[s] \in {"visit", "collect", "store"}
           \/ pc'[s] = "idle"
    PROVE  SnapshotDated(s)'
<1> SUFFICES ASSUME NEW x \in Sites
    PROVE  /\ pc'[s] = "time" =>
                /\ x \in snapshot[s].broken => began[s] <= lastBroken'[x]
                /\ There(removed'[x], snapshot[s].of[x], began[s], 0)
           /\ pc'[s] \in {"visit", "collect", "store"} =>
                /\ x \in snapshot[s].broken => now[s] <= lastBroken'[x] + lag'
                /\ There(removed'[x], snapshot[s].of[x], now[s], lag')
  BY DEF SnapshotDated
<1>1. /\ clock \in Nat /\ lag \in Nat /\ lag' \in Nat /\ lag <= lag'
      /\ lastBroken[x] \in Nat \cup {-1} /\ lastBroken'[x] \in Nat \cup {-1}
      /\ lastBroken[x] <= lastBroken'[x]
      /\ removed[x] \in Seq(Nat) /\ snapshot[s].of[x] \in Nat
      /\ removed'[x] = removed[x] \/ removed'[x] = Append(removed[x], clock)
      /\ began[s] \in Nat /\ now[s] \in Nat /\ began[s] <= clock /\ now[s] <= clock
  BY DEF IInv, TypeOK, BrokenDated, Onward
<1>2. /\ pc[s] = "time" =>
            /\ x \in snapshot[s].broken => began[s] <= lastBroken[x]
            /\ There(removed[x], snapshot[s].of[x], began[s], 0)
      /\ pc[s] \in {"visit", "collect", "store"} =>
            /\ x \in snapshot[s].broken => now[s] <= lastBroken[x] + lag
            /\ There(removed[x], snapshot[s].of[x], now[s], lag)
  BY DEF IInv, SnapshotsDated, SnapshotDated
<1>3. ASSUME pc'[s] = "time"
      PROVE  /\ x \in snapshot[s].broken => began[s] <= lastBroken'[x]
             /\ There(removed'[x], snapshot[s].of[x], began[s], 0)
  <2>1. pc[s] = "time"
    BY <1>3
  <2>2. There(removed'[x], snapshot[s].of[x], began[s], 0)
    <3>1. 0 \in Nat /\ 0 <= 0
      OBVIOUS
    <3> QED
      BY <1>1, <1>2, <2>1, <3>1, StillThere
  <2> QED
    BY <1>1, <1>2, <2>1, <2>2
<1>4. ASSUME pc'[s] \in {"visit", "collect", "store"}
      PROVE  /\ x \in snapshot[s].broken => now[s] <= lastBroken'[x] + lag'
             /\ There(removed'[x], snapshot[s].of[x], now[s], lag')
  <2>1. pc[s] \in {"visit", "collect", "store"}
    BY <1>4
  <2>2. There(removed'[x], snapshot[s].of[x], now[s], lag')
    BY <1>1, <1>2, <2>1, StillThere
  <2>3. x \in snapshot[s].broken => now[s] <= lastBroken[x] + lag
    BY <1>2, <2>1
  <2> DEFINE b == lastBroken[x]
             c == lastBroken'[x]
  <2>4. b \in Int /\ c \in Int /\ b <= c
    BY <1>1
  <2> HIDE DEF b, c
  <2>5. now[s] <= b + lag => now[s] <= c + lag'
    BY <1>1, <2>4
  <2> QED
    BY <2>2, <2>3, <2>5 DEF b, c
<1> QED
  BY <1>3, <1>4

LEMMA EntryStays ==
    ASSUME IInv, Onward, NEW x \in Sites, cache'[x] = cache[x] \/ cache'[x] = None
    PROVE  EntryDated(x)'
<1> SUFFICES ASSUME cache[x] # None
    PROVE  /\ cache[x].at <= clock'
           /\ ~cache[x].whole => cache[x].at <= lastBroken'[x] + lag'
           /\ There(removed'[x], cache[x].of, cache[x].at, lag')
  BY DEF EntryDated
<1> DEFINE a == cache[x].at
           n == cache[x].of
           b == lastBroken[x]
           c == lastBroken'[x]
           r == removed[x]
           q == removed'[x]
<1>1. cache[x] \in Entries
  BY DEF IInv, TypeOK, Entries
<1>2. a \in Nat /\ n \in Nat
  BY <1>1 DEF Entries
<1>3. /\ clock \in Nat /\ clock' \in Nat /\ clock <= clock'
      /\ lag \in Nat /\ lag' \in Nat /\ lag <= lag'
      /\ b \in Int /\ c \in Int /\ b <= c /\ r \in Seq(Nat)
      /\ q = r \/ q = Append(r, clock)
  BY DEF IInv, TypeOK, Onward
<1>4. a <= clock /\ (~cache[x].whole => a <= b + lag) /\ There(r, n, a, lag)
  BY DEF IInv, EntriesDated, EntryDated
<1> HIDE DEF a, n, b, c, r, q
<1>5. There(q, n, a, lag')
  BY <1>2, <1>3, <1>4, StillThere
<1>6. a <= clock' /\ (a <= b + lag => a <= c + lag')
  <2>1. /\ clock \in Nat /\ clock' \in Nat /\ clock <= clock'
        /\ lag \in Nat /\ lag' \in Nat /\ lag <= lag'
        /\ b \in Int /\ c \in Int /\ b <= c /\ a \in Nat /\ a <= clock
    BY <1>2, <1>3, <1>4
  <2>2. a <= clock'
    BY <2>1
  <2>3. a <= b + lag => a <= c + lag'
    BY <2>1, LaterBound
  <2> QED
    BY <2>2, <2>3
<1> QED
  BY <1>4, <1>5, <1>6 DEF a, n, c, q

\* Init establishes the invariant.
LEMMA InitIInv == Init => IInv
<1> SUFFICES ASSUME Init PROVE IInv
  OBVIOUS
<1>1. NoSnapshot \in Snapshots /\ NoList \in Lists
  BY DEF NoSnapshot, Snapshots, NoList, Lists
<1>2. TypeOK
  BY <1>1 DEF Init, TypeOK, Snapshots, Lists
<1>3. AtASite /\ BrokenDated /\ SnapshotsDated /\ ListsDated /\ EntriesDated
  BY DEF Init, NoSnapshot, AtASite, BrokenDated, SnapshotsDated, SnapshotDated, ListsDated,
         EntriesDated, EntryDated
<1> QED
  BY <1>2, <1>3 DEF IInv

\* Where only the clock, the sites or their catalogs move.
LEMMA ScrapersStay ==
    ASSUME IInv, Onward, UNCHANGED <<cache, scraper>>, root' \subseteq Sites,
           broken' \subseteq Sites, \A x \in Sites : lastBroken'[x] <= clock',
           \A x \in broken' : lastBroken'[x] = clock'
    PROVE  IInv'
<1>1. UNCHANGED <<cache, pc, snapshot, todo, now, metrics, began>>
  BY DEF scraper
<1>2. TypeOK'
  BY <1>1 DEF IInv, TypeOK, Onward
<1>3. AtASite'
  BY <1>1 DEF IInv, AtASite
<1>4. BrokenDated'
  <2> SUFFICES ASSUME NEW s \in Scrapers PROVE now[s] <= clock' /\ began[s] <= clock'
    BY <1>1 DEF BrokenDated
  <2>1. /\ now[s] \in Nat /\ began[s] \in Nat /\ now[s] <= clock /\ began[s] <= clock
        /\ clock \in Nat /\ clock' \in Nat /\ clock <= clock'
    BY DEF IInv, TypeOK, BrokenDated, Onward
  <2> QED
    BY <2>1
<1>5. SnapshotsDated'
  <2> SUFFICES ASSUME NEW s \in Scrapers PROVE SnapshotDated(s)'
    BY DEF SnapshotsDated
  <2> QED
    BY <1>1, SnapshotStays
<1>6. ListsDated'
  <2> SUFFICES ASSUME NEW s \in Scrapers, pc[s] = "store", ~metrics[s].whole
               PROVE  now[s] <= lastBroken'[metrics[s].site] + lag'
    BY <1>1 DEF ListsDated
  <2> DEFINE x == metrics[s].site
             b == lastBroken[x]
             c == lastBroken'[x]
  <2>1. x \in Sites
    BY DEF IInv, AtASite, TypeOK
  <2>2. b \in Int /\ c \in Int /\ b <= c
    BY <2>1 DEF IInv, TypeOK, Onward
  <2>3. now[s] <= b + lag
    BY DEF IInv, ListsDated
  <2> HIDE DEF b, c
  <2>4. now[s] \in Nat /\ lag \in Nat /\ lag' \in Nat /\ lag <= lag'
    BY DEF IInv, TypeOK, Onward
  <2>5. now[s] <= c + lag'
    BY <2>2, <2>3, <2>4
  <2> QED
    BY <2>5 DEF c
<1>7. EntriesDated'
  <2> SUFFICES ASSUME NEW x \in Sites PROVE EntryDated(x)'
    BY DEF EntriesDated
  <2> QED
    BY <1>1, EntryStays
<1> QED
  BY <1>2, <1>3, <1>4, <1>5, <1>6, <1>7 DEF IInv

\* The environment preserves it.
LEMMA EnvironmentIInv ==
    ASSUME IInv,
           Tick \/ \E x \in Sites : AddSite(x) \/ RemoveSite(x) \/ Break(x) \/ Repair(x)
    PROVE  IInv'
<1>1. /\ clock \in Nat /\ lag \in Nat /\ lastBroken \in [Sites -> Nat \cup {-1}]
      /\ removed \in [Sites -> Seq(Nat)] /\ root \subseteq Sites /\ broken \subseteq Sites
      /\ \A x \in Sites : lastBroken[x] <= clock
      /\ \A x \in broken : lastBroken[x] = clock
  BY DEF IInv, TypeOK, BrokenDated
<1>2. CASE Tick
  <2>1. /\ clock' = clock + 1
        /\ lastBroken' = [x \in Sites |-> IF x \in broken THEN clock + 1 ELSE lastBroken[x]]
        /\ UNCHANGED <<cache, scraper, root, broken, removed, lag>>
    BY <1>2 DEF Tick, scraper
  <2>2. \A x \in Sites : lastBroken[x] <= lastBroken'[x] /\ lastBroken'[x] <= clock'
    BY <1>1, <2>1
  <2>3. \A x \in broken' : lastBroken'[x] = clock'
    BY <1>1, <2>1
  <2>4. Onward
    <3>1. lastBroken' \in [Sites -> Nat \cup {-1}]
      BY <1>1, <2>1
    <3> QED
      BY <1>1, <2>1, <2>2, <3>1 DEF Onward
  <2> QED
    BY <1>1, <2>1, <2>2, <2>3, <2>4, ScrapersStay
<1>3. ASSUME NEW x \in Sites, AddSite(x) \/ Repair(x) PROVE IInv'
  <2>1. UNCHANGED <<clock, cache, scraper, removed, lastBroken, lag>>
    BY <1>3 DEF AddSite, Repair, scraper
  <2>2. root' \subseteq Sites /\ broken' \subseteq broken
    BY <1>1, <1>3 DEF AddSite, Repair
  <2>3. Onward
    BY <1>1, <2>1 DEF Onward
  <2> QED
    BY <1>1, <2>1, <2>2, <2>3, ScrapersStay
<1>4. ASSUME NEW x \in Sites, RemoveSite(x) PROVE IInv'
  <2>1. /\ UNCHANGED <<clock, cache, scraper, lastBroken, lag>>
        /\ removed' = [removed EXCEPT ![x] = Append(@, clock)]
        /\ root' \subseteq root /\ broken' \subseteq broken
    BY <1>4 DEF RemoveSite, scraper
  <2>2. Onward
    <3>1. \A y \in Sites : removed'[y] = removed[y] \/ removed'[y] = Append(removed[y], clock)
      BY <1>1, <2>1
    <3>2. Append(removed[x], clock) \in Seq(Nat)
      BY <1>1
    <3>3. removed' \in [Sites -> Seq(Nat)]
      BY <1>1, <2>1, <3>2
    <3>4. \A y \in Sites : lastBroken[y] <= lastBroken'[y]
      <4>1. \A y \in Sites : lastBroken[y] \in Int
        BY <1>1
      <4>2. lastBroken' = lastBroken
        BY <2>1
      <4> QED
        BY <4>1, <4>2
    <3>5. lastBroken' \in [Sites -> Nat \cup {-1}] /\ clock <= clock' /\ lag <= lag'
          /\ clock' \in Nat /\ lag' \in Nat
      BY <1>1, <2>1
    <3> QED
      BY <3>1, <3>3, <3>4, <3>5 DEF Onward
  <2> QED
    BY <1>1, <2>1, <2>2, ScrapersStay
<1>5. ASSUME NEW x \in Sites, Break(x) PROVE IInv'
  <2>1. /\ UNCHANGED <<clock, cache, scraper, root, removed, lag>>
        /\ broken' = broken \cup {x}
        /\ lastBroken' = [lastBroken EXCEPT ![x] = clock]
    BY <1>5 DEF Break, scraper
  <2>2. ASSUME NEW y \in Sites
        PROVE  lastBroken[y] <= lastBroken'[y] /\ lastBroken'[y] <= clock'
    <3>1. lastBroken[y] \in Nat \cup {-1} /\ lastBroken[y] <= clock
      BY <1>1
    <3>2. lastBroken'[y] = IF y = x THEN clock ELSE lastBroken[y]
      BY <1>1, <2>1
    <3> QED
      BY <1>1, <2>1, <3>1, <3>2
  <2>3. \A y \in broken' : lastBroken'[y] = clock'
    BY <1>1, <2>1
  <2>4. Onward
    <3>1. lastBroken' \in [Sites -> Nat \cup {-1}]
      BY <1>1, <2>1
    <3> QED
      BY <1>1, <2>1, <2>2, <3>1 DEF Onward
  <2> QED
    BY <1>1, <2>1, <2>2, <2>3, <2>4, ScrapersStay
<1> QED
  BY <1>2, <1>3, <1>4, <1>5

-----------------------------------------------------------------------------
(* A scrape.                                                               *)

\* A step of a scrape that takes no time leaves the dates alone.
LEMMA StepIsOnward ==
    ASSUME IInv, UNCHANGED <<clock, environment>>, lag' \in Nat, lag <= lag'
    PROVE  /\ Onward
           /\ UNCHANGED <<clock, root, broken, removed, lastBroken>>
<1>1. UNCHANGED <<clock, root, broken, removed, lastBroken>>
  BY DEF environment
<1>2. /\ clock \in Nat /\ removed \in [Sites -> Seq(Nat)]
      /\ lastBroken \in [Sites -> Nat \cup {-1}]
  BY DEF IInv, TypeOK
<1>3. \A x \in Sites : lastBroken[x] \in Int
  BY <1>2
<1>4. \A x \in Sites : lastBroken[x] <= lastBroken'[x]
  BY <1>1, <1>3
<1> QED
  BY <1>1, <1>2, <1>4 DEF Onward

\* What has to be shown of a step of the scrape s: the rest stays by itself.
LEMMA OneScrape ==
    ASSUME IInv, NEW s \in Scrapers, UNCHANGED <<clock, environment>>,
           lag' \in Nat, lag <= lag', TypeOK', AtASite',
           \A t \in Scrapers : t # s =>
               /\ pc'[t] = pc[t] /\ snapshot'[t] = snapshot[t] /\ now'[t] = now[t]
               /\ began'[t] = began[t] /\ metrics'[t] = metrics[t],
           now'[s] <= clock, began'[s] <= clock, SnapshotDated(s)',
           pc'[s] = "store" /\ ~metrics'[s].whole =>
               now'[s] <= lastBroken[metrics'[s].site] + lag',
           EntriesDated'
    PROVE  IInv'
<1>1. Onward /\ UNCHANGED <<clock, root, broken, removed, lastBroken>>
  BY StepIsOnward
<1>2. BrokenDated'
  BY <1>1 DEF IInv, BrokenDated
<1>3. SnapshotsDated'
  <2> SUFFICES ASSUME NEW t \in Scrapers, t # s PROVE SnapshotDated(t)'
    BY DEF SnapshotsDated
  <2> QED
    BY <1>1, SnapshotStays
<1>4. ListsDated'
  <2> SUFFICES ASSUME NEW t \in Scrapers, t # s, pc[t] = "store", ~metrics[t].whole
               PROVE  now[t] <= lastBroken[metrics[t].site] + lag'
    BY <1>1 DEF ListsDated
  <2> DEFINE b == lastBroken[metrics[t].site]
  <2>1. metrics[t].site \in Sites
    BY DEF IInv, AtASite, TypeOK
  <2>2. b \in Int /\ b <= b /\ now[t] \in Nat /\ lag \in Nat
    BY <2>1 DEF IInv, TypeOK
  <2>3. now[t] <= b + lag
    BY DEF IInv, ListsDated
  <2> HIDE DEF b
  <2>4. now[t] <= b + lag'
    BY <2>2, <2>3, LaterBound
  <2> QED
    BY <2>4 DEF b
<1> QED
  BY <1>2, <1>3, <1>4 DEF IInv

\* Most steps leave the entries alone, or drop some.
LEMMA EntriesStay ==
    ASSUME IInv, UNCHANGED <<clock, environment>>, lag' \in Nat, lag <= lag',
           \A x \in Sites : cache'[x] = cache[x] \/ cache'[x] = None
    PROVE  EntriesDated'
<1>1. Onward
  BY StepIsOnward
<1> QED
  BY <1>1, EntryStays DEF EntriesDated

\* Here the snapshot, the time and the entries stay.
LEMMA SameSnapshot ==
    ASSUME IInv, NEW s \in Scrapers,
           UNCHANGED <<clock, cache, snapshot, now, began, lag, environment>>,
           TypeOK', AtASite',
           \A t \in Scrapers : t # s => pc'[t] = pc[t] /\ metrics'[t] = metrics[t],
           pc[s] \in {"visit", "collect", "store"}, pc'[s] \in {"visit", "collect", "store"},
           pc'[s] = "store" /\ ~metrics'[s].whole =>
               now[s] <= lastBroken[metrics'[s].site] + lag
    PROVE  IInv'
<1>1. lag' \in Nat /\ lag <= lag' /\ now'[s] <= clock /\ began'[s] <= clock
  BY DEF IInv, TypeOK, BrokenDated
<1>2. Onward
  BY <1>1, StepIsOnward
<1>3. SnapshotDated(s)'
  BY <1>2, SnapshotStays
<1>4. EntriesDated'
  BY <1>1, EntriesStay
<1> QED
  BY <1>1, <1>3, <1>4, OneScrape

LEMMA BeginIInv == ASSUME IInv, NEW s \in Scrapers, Begin(s) PROVE IInv'
<1> DEFINE v == [sites |-> root, broken |-> broken, of |-> [x \in Sites |-> Len(removed[x])]]
<1>1. /\ pc[s] = "idle" /\ pc' = [pc EXCEPT ![s] = "time"]
      /\ snapshot' = [snapshot EXCEPT ![s] = v] /\ began' = [began EXCEPT ![s] = clock]
      /\ UNCHANGED <<clock, cache, todo, now, metrics, lag, environment>>
  BY DEF Begin, Goto
<1>2. UNCHANGED <<root, broken, removed, lastBroken>>
  BY <1>1 DEF environment
<1>3. /\ clock \in Nat /\ lag \in Nat /\ removed \in [Sites -> Seq(Nat)]
      /\ broken \subseteq Sites /\ root \subseteq Sites
  BY DEF IInv, TypeOK
<1>4. v \in Snapshots /\ v.broken = broken /\ \A x \in Sites : v.of[x] = Len(removed[x])
  <2>1. [x \in Sites |-> Len(removed[x])] \in [Sites -> Nat]
    BY <1>3
  <2> QED
    BY <1>3, <2>1 DEF Snapshots
<1> HIDE DEF v
<1>5. TypeOK'
  <2>1. snapshot' \in [Scrapers -> Snapshots]
    BY <1>1, <1>4 DEF IInv, TypeOK, Snapshots
  <2>2. began' \in [Scrapers -> Nat]
    BY <1>1, <1>3 DEF IInv, TypeOK
  <2>3. pc' \in [Scrapers -> {"idle", "time", "visit", "collect", "store"}]
    BY <1>1 DEF IInv, TypeOK
  <2> QED
    BY <1>1, <1>2, <2>1, <2>2, <2>3 DEF IInv, TypeOK, Snapshots
<1>6. /\ pc'[s] = "time" /\ snapshot'[s] = v /\ began'[s] = clock /\ now'[s] = now[s]
      /\ todo[s] = {}
  BY <1>1 DEF IInv, TypeOK, AtASite
<1>7. AtASite'
  BY <1>1, <1>6 DEF IInv, TypeOK, AtASite
<1>8. SnapshotDated(s)'
  <2> SUFFICES ASSUME NEW x \in Sites
               PROVE  /\ x \in v.broken => clock <= lastBroken[x]
                      /\ There(removed[x], v.of[x], clock, 0)
    BY <1>2, <1>6 DEF SnapshotDated
  <2>1. x \in v.broken => clock <= lastBroken[x]
    BY <1>3, <1>4 DEF IInv, BrokenDated
  <2>2. There(removed[x], v.of[x], clock, 0)
    BY <1>3, <1>4 DEF There
  <2> QED
    BY <2>1, <2>2
<1>9. EntriesDated'
  BY <1>1, <1>3, EntriesStay
<1>10. now'[s] <= clock /\ began'[s] <= clock
  BY <1>1, <1>3, <1>6 DEF IInv, BrokenDated
<1> QED
  BY <1>1, <1>3, <1>5, <1>6, <1>7, <1>8, <1>9, <1>10, OneScrape

LEMMA TakeTimeIInv == ASSUME IInv, NEW s \in Scrapers, TakeTime(s) PROVE IInv'
<1>1. /\ pc[s] = "time" /\ pc' = [pc EXCEPT ![s] = "visit"]
      /\ now' = [now EXCEPT ![s] = clock]
      /\ todo' = [todo EXCEPT ![s] = snapshot[s].sites]
      /\ lag' = IF clock - began[s] > lag THEN clock - began[s] ELSE lag
      /\ began' = [began EXCEPT ![s] = 0]
      /\ UNCHANGED <<clock, cache, snapshot, metrics, environment>>
  BY DEF TakeTime, Goto
<1>2. UNCHANGED <<root, broken, removed, lastBroken>>
  BY <1>1 DEF environment
<1>3. /\ clock \in Nat /\ lag \in Nat /\ began[s] \in Nat /\ began[s] <= clock
      /\ snapshot[s] \in Snapshots
  BY DEF IInv, TypeOK, BrokenDated, Snapshots
<1>4. lag' \in Nat /\ lag <= lag' /\ clock <= began[s] + lag'
  BY <1>1, <1>3
<1>5. /\ pc'[s] = "visit" /\ now'[s] = clock /\ began'[s] = 0
      /\ todo'[s] = snapshot[s].sites
  BY <1>1 DEF IInv, TypeOK
<1>6. TypeOK'
  <2>1. now' \in [Scrapers -> Nat] /\ began' \in [Scrapers -> Nat]
    BY <1>1, <1>3 DEF IInv, TypeOK
  <2>2. todo' \in [Scrapers -> SUBSET Sites]
    BY <1>1, <1>3 DEF IInv, TypeOK, Snapshots
  <2>3. pc' \in [Scrapers -> {"idle", "time", "visit", "collect", "store"}]
    BY <1>1 DEF IInv, TypeOK
  <2> QED
    BY <1>1, <1>2, <1>4, <2>1, <2>2, <2>3 DEF IInv, TypeOK
<1>7. AtASite'
  BY <1>1, <1>5 DEF IInv, TypeOK, AtASite
<1>8. SnapshotDated(s)'
  <2> SUFFICES ASSUME NEW x \in Sites
               PROVE  /\ x \in snapshot[s].broken => clock <= lastBroken[x] + lag'
                      /\ There(removed[x], snapshot[s].of[x], clock, lag')
    BY <1>1, <1>2, <1>5 DEF SnapshotDated
  <2>1. /\ x \in snapshot[s].broken => began[s] <= lastBroken[x]
        /\ There(removed[x], snapshot[s].of[x], began[s], 0)
    BY <1>1 DEF IInv, SnapshotsDated, SnapshotDated
  <2> DEFINE b == lastBroken[x]
             n == snapshot[s].of[x]
             r == removed[x]
  <2>2. b \in Int /\ n \in Nat /\ r \in Seq(Nat)
    BY <1>3 DEF IInv, TypeOK, Snapshots
  <2>3. x \in snapshot[s].broken => clock <= lastBroken[x] + lag'
    <3> HIDE DEF b
    <3>1. began[s] <= b => clock <= b + lag'
      <4>1. began[s] \in Int /\ lag' <= lag'
        BY <1>3, <1>4
      <4> QED
        BY <1>3, <1>4, <2>2, <4>1, LaterBound
    <3> QED
      BY <2>1, <3>1 DEF b
  <2>4. n < Len(r) => clock <= r[n + 1] + lag'
    <3> SUFFICES ASSUME n < Len(r) PROVE clock <= r[n + 1] + lag'
      OBVIOUS
    <3> DEFINE t == r[n + 1]
    <3>1. t \in Nat
      BY <2>2
    <3>2. began[s] <= t + 0
      BY <2>1 DEF There
    <3> HIDE DEF t
    <3>3. clock <= t + lag'
      BY <1>3, <1>4, <3>1, <3>2
    <3> QED
      BY <3>3 DEF t
  <2> QED
    BY <2>1, <2>3, <2>4 DEF There
<1>9. EntriesDated'
  BY <1>1, <1>4, EntriesStay
<1>10. now'[s] <= clock /\ began'[s] <= clock
  BY <1>3, <1>5
<1>11. \A t \in Scrapers : t # s =>
          /\ pc'[t] = pc[t] /\ snapshot'[t] = snapshot[t] /\ now'[t] = now[t]
          /\ began'[t] = began[t] /\ metrics'[t] = metrics[t]
  BY <1>1 DEF IInv, TypeOK
<1>12. ~(pc'[s] = "store")
  BY <1>5
<1> QED
  BY <1>1, <1>4, <1>6, <1>7, <1>8, <1>9, <1>10, <1>11, <1>12, OneScrape

LEMMA HitIInv == ASSUME IInv, NEW s \in Scrapers, NEW x \in Sites, Hit(s, x) PROVE IInv'
<1>1. /\ pc[s] = "visit" /\ todo' = [todo EXCEPT ![s] = @ \ {x}]
      /\ UNCHANGED <<clock, cache, pc, snapshot, now, metrics, began, lag, environment>>
  BY DEF Hit
<1>2. UNCHANGED <<root, broken, removed, lastBroken>>
  BY <1>1 DEF environment
<1>3. TypeOK'
  BY <1>1, <1>2 DEF IInv, TypeOK
<1>4. AtASite'
  BY <1>1 DEF IInv, TypeOK, AtASite
<1> QED
  BY <1>1, <1>3, <1>4, SameSnapshot

LEMMA MissIInv == ASSUME IInv, NEW s \in Scrapers, NEW x \in Sites, Miss(s, x) PROVE IInv'
<1> DEFINE m == [site |-> x, whole |-> FALSE, of |-> snapshot[s].of[x]]
<1>1. /\ pc[s] = "visit" /\ pc' = [pc EXCEPT ![s] = "collect"] /\ x \in todo[s]
      /\ metrics' = [metrics EXCEPT ![s] = m]
      /\ UNCHANGED <<clock, cache, snapshot, todo, now, began, lag, environment>>
  BY DEF Miss, Goto
<1>2. UNCHANGED <<root, broken, removed, lastBroken>>
  BY <1>1 DEF environment
<1>3. m \in Lists /\ m.site = x /\ m.of = snapshot[s].of[x]
  BY DEF IInv, TypeOK, Lists
<1> HIDE DEF m
<1>4. TypeOK'
  <2>1. metrics' \in [Scrapers -> Lists]
    BY <1>1, <1>3 DEF IInv, TypeOK, Lists
  <2>2. pc' \in [Scrapers -> {"idle", "time", "visit", "collect", "store"}]
    BY <1>1 DEF IInv, TypeOK
  <2> QED
    BY <1>1, <1>2, <2>1, <2>2 DEF IInv, TypeOK, Lists
<1>5. AtASite'
  BY <1>1, <1>3 DEF IInv, TypeOK, AtASite
<1>6. /\ \A t \in Scrapers : t # s => pc'[t] = pc[t] /\ metrics'[t] = metrics[t]
      /\ pc'[s] = "collect"
  BY <1>1 DEF IInv, TypeOK
<1> QED
  BY <1>1, <1>4, <1>5, <1>6, SameSnapshot

LEMMA CollectSiteIInv == ASSUME IInv, NEW s \in Scrapers, CollectSite(s) PROVE IInv'
<1>1. /\ pc[s] = "collect" /\ pc' = [pc EXCEPT ![s] = "store"]
      /\ UNCHANGED <<clock, cache, snapshot, todo, now, began, lag, environment>>
  BY DEF CollectSite, Goto
<1>2. UNCHANGED <<root, broken, removed, lastBroken>>
  BY <1>1 DEF environment
<1>3. PICK failing \in {broken, snapshot[s].broken} :
         metrics' = [metrics EXCEPT ![s].whole = metrics[s].site \notin failing]
  BY DEF CollectSite
<1> DEFINE m == [metrics[s] EXCEPT !.whole = metrics[s].site \notin failing]
           x == metrics[s].site
<1>4. /\ metrics[s] \in Lists /\ x \in snapshot[s].sites /\ metrics[s].of = snapshot[s].of[x]
      /\ x \in Sites
  BY <1>1 DEF IInv, TypeOK, AtASite, Lists
<1>5. /\ m \in Lists /\ m.site = x /\ m.of = metrics[s].of
      /\ m.whole <=> x \notin failing
  BY <1>4 DEF Lists
<1>6. metrics' = [metrics EXCEPT ![s] = m]
  BY <1>3
<1> HIDE DEF m
<1>7. TypeOK'
  <2>1. metrics' \in [Scrapers -> Lists]
    BY <1>5, <1>6 DEF IInv, TypeOK, Lists
  <2>2. pc' \in [Scrapers -> {"idle", "time", "visit", "collect", "store"}]
    BY <1>1 DEF IInv, TypeOK
  <2> QED
    BY <1>1, <1>2, <2>1, <2>2 DEF IInv, TypeOK, Lists
<1>8. AtASite'
  BY <1>1, <1>4, <1>5, <1>6 DEF IInv, TypeOK, AtASite
<1>9. /\ \A t \in Scrapers : t # s => pc'[t] = pc[t] /\ metrics'[t] = metrics[t]
      /\ pc'[s] = "store" /\ metrics'[s] = m
  BY <1>1, <1>6 DEF IInv, TypeOK
<1>10. ~m.whole => now[s] <= lastBroken[x] + lag
  <2>1. CASE x \in snapshot[s].broken
    BY <1>1, <1>4, <2>1 DEF IInv, SnapshotsDated, SnapshotDated
  <2>2. CASE x \in broken
    <3> DEFINE b == lastBroken[x]
    <3>1. b = clock /\ now[s] <= clock /\ now[s] \in Nat /\ clock \in Nat /\ lag \in Nat
      BY <2>2 DEF IInv, BrokenDated, TypeOK
    <3> HIDE DEF b
    <3>2. now[s] <= b + lag
      BY <3>1
    <3> QED
      BY <3>2 DEF b
  <2> QED
    BY <1>3, <1>5, <2>1, <2>2
<1> QED
  BY <1>1, <1>5, <1>7, <1>8, <1>9, <1>10, SameSnapshot

\* A finished or failed scrape leaves well-typed attributes behind.
LEMMA StopType ==
    ASSUME IInv, NEW s \in Scrapers, Stop(s), pc' = [pc EXCEPT ![s] = "idle"],
           UNCHANGED <<clock, environment>>,
           cache' \in [Sites -> Entries \cup {None}]
    PROVE  TypeOK' /\ AtASite'
<1>1. NoList \in Lists /\ NoSnapshot \in Snapshots
  BY DEF NoList, Lists, NoSnapshot, Snapshots
<1>2. /\ snapshot' = [snapshot EXCEPT ![s] = NoSnapshot]
      /\ todo' = [todo EXCEPT ![s] = {}]
      /\ metrics' = [metrics EXCEPT ![s] = NoList]
      /\ now' = [now EXCEPT ![s] = 0]
      /\ UNCHANGED <<began, lag>>
      /\ UNCHANGED <<root, broken, removed, lastBroken>>
  BY DEF Stop, environment
<1>3. snapshot' \in [Scrapers -> Snapshots] /\ metrics' \in [Scrapers -> Lists]
  BY <1>1, <1>2 DEF IInv, TypeOK, Snapshots, Lists
<1>4. /\ pc' \in [Scrapers -> {"idle", "time", "visit", "collect", "store"}]
      /\ todo' \in [Scrapers -> SUBSET Sites] /\ now' \in [Scrapers -> Nat]
  BY <1>2 DEF IInv, TypeOK
<1>5. TypeOK'
  BY <1>2, <1>3, <1>4 DEF IInv, TypeOK, Snapshots, Lists, Entries
<1>6. AtASite'
  BY <1>2 DEF IInv, TypeOK, AtASite
<1> QED
  BY <1>5, <1>6

\* It drops entries, and adds none.
LEMMA StopIInv ==
    ASSUME IInv, NEW s \in Scrapers, Stop(s), pc' = [pc EXCEPT ![s] = "idle"],
           UNCHANGED <<clock, environment>>,
           cache' \in [Sites -> Entries \cup {None}],
           \A x \in Sites : cache'[x] = cache[x] \/ cache'[x] = None
    PROVE  IInv'
<1>1. TypeOK' /\ AtASite'
  BY StopType
<1>2. lag' \in Nat /\ lag <= lag' /\ clock \in Nat
  BY DEF Stop, IInv, TypeOK
<1>3. EntriesDated'
  BY <1>2, EntriesStay
<1>4. pc'[s] = "idle" /\ now'[s] = 0 /\ began'[s] = began[s]
  BY DEF Stop, IInv, TypeOK
<1>5. SnapshotDated(s)'
  BY <1>4 DEF SnapshotDated
<1>6. now'[s] <= clock /\ began'[s] <= clock
  BY <1>2, <1>4 DEF IInv, BrokenDated
<1>7. \A t \in Scrapers : t # s =>
          /\ pc'[t] = pc[t] /\ snapshot'[t] = snapshot[t] /\ now'[t] = now[t]
          /\ began'[t] = began[t] /\ metrics'[t] = metrics[t]
  BY DEF Stop, IInv, TypeOK
<1>8. ~(pc'[s] = "store")
  BY <1>4
<1> QED
  BY <1>1, <1>2, <1>3, <1>5, <1>6, <1>7, <1>8, OneScrape

LEMMA EndIInv ==
    ASSUME IInv, NEW s \in Scrapers, CollectFails(s) \/ DropOthers(s) PROVE IInv'
<1>1. Stop(s) /\ pc' = [pc EXCEPT ![s] = "idle"] /\ UNCHANGED <<clock, environment>>
  BY DEF CollectFails, DropOthers, Goto
<1>2. cache \in [Sites -> Entries \cup {None}]
  BY DEF IInv, TypeOK, Entries
<1>3. CASE CollectFails(s)
  <2>1. cache' = cache
    BY <1>3 DEF CollectFails
  <2> QED
    BY <1>1, <1>2, <2>1, StopIInv
<1>4. CASE DropOthers(s)
  <2>1. cache' = [x \in Sites |-> IF x \in snapshot[s].sites THEN cache[x] ELSE None]
    BY <1>4 DEF DropOthers
  <2>2. cache' \in [Sites -> Entries \cup {None}]
    BY <1>2, <2>1
  <2>3. \A x \in Sites : cache'[x] = cache[x] \/ cache'[x] = None
    BY <2>1
  <2> QED
    BY <1>1, <2>2, <2>3, StopIInv
<1> QED
  BY <1>3, <1>4

LEMMA StoreIInv == ASSUME IInv, NEW s \in Scrapers, Store(s) PROVE IInv'
<1> DEFINE x == metrics[s].site
           e == [at |-> now[s], whole |-> metrics[s].whole, of |-> metrics[s].of]
<1>1. /\ pc[s] = "store" /\ pc' = [pc EXCEPT ![s] = "visit"]
      /\ cache' = [cache EXCEPT ![x] = e] /\ todo' = [todo EXCEPT ![s] = @ \ {x}]
      /\ metrics' = [metrics EXCEPT ![s] = NoList]
      /\ UNCHANGED <<clock, snapshot, now, began, lag, environment>>
  BY DEF Store, Goto
<1>2. UNCHANGED <<root, broken, removed, lastBroken>>
  BY <1>1 DEF environment
<1>3. x \in Sites /\ metrics[s] \in Lists /\ metrics[s].of = snapshot[s].of[x]
  BY <1>1 DEF IInv, TypeOK, AtASite, Lists
<1>4. /\ e \in Entries /\ e.at = now[s] /\ e.whole = metrics[s].whole
      /\ e.of = snapshot[s].of[x]
  BY <1>3 DEF IInv, TypeOK, Lists, Entries
<1>5. /\ ~e.whole => e.at <= lastBroken[x] + lag
      /\ There(removed[x], e.of, e.at, lag)
      /\ e.at <= clock
  <2>1. ~e.whole => e.at <= lastBroken[x] + lag
    BY <1>1, <1>4 DEF IInv, ListsDated
  <2>2. There(removed[x], snapshot[s].of[x], now[s], lag)
    BY <1>1, <1>3 DEF IInv, SnapshotsDated, SnapshotDated
  <2>3. now[s] <= clock
    BY DEF IInv, BrokenDated
  <2> QED
    BY <1>4, <2>1, <2>2, <2>3
<1> HIDE DEF e
<1>6. TypeOK'
  <2>1. NoList \in Lists
    BY DEF NoList, Lists
  <2>2. cache' \in [Sites -> Entries \cup {None}]
    BY <1>1, <1>3, <1>4 DEF IInv, TypeOK, Entries
  <2>3. todo' \in [Scrapers -> SUBSET Sites]
    BY <1>1 DEF IInv, TypeOK
  <2>4. metrics' \in [Scrapers -> Lists]
    BY <1>1, <2>1 DEF IInv, TypeOK, Lists
  <2>5. pc' \in [Scrapers -> {"idle", "time", "visit", "collect", "store"}]
    BY <1>1 DEF IInv, TypeOK
  <2> QED
    BY <1>1, <1>2, <2>2, <2>3, <2>4, <2>5 DEF IInv, TypeOK, Lists, Entries
<1>7. AtASite'
  BY <1>1 DEF IInv, TypeOK, AtASite
<1>8. lag' \in Nat /\ lag <= lag' /\ now'[s] <= clock /\ began'[s] <= clock
  BY <1>1 DEF IInv, TypeOK, BrokenDated
<1>9. Onward
  BY <1>1, <1>8, StepIsOnward
<1>10. EntriesDated'
  <2> SUFFICES ASSUME NEW y \in Sites PROVE EntryDated(y)'
    BY DEF EntriesDated
  <2>1. cache'[y] = IF y = x THEN e ELSE cache[y]
    BY <1>1, <1>3 DEF IInv, TypeOK
  <2>2. CASE y = x
    <3>1. cache'[x] = e
      BY <2>1, <2>2
    <3> HIDE DEF x
    <3> QED
      BY <1>1, <1>2, <1>5, <2>2, <3>1 DEF EntryDated
  <2>3. CASE y # x
    BY <1>9, <2>1, <2>3, EntryStays
  <2> QED
    BY <2>2, <2>3
<1>11. /\ \A t \in Scrapers : t # s => pc'[t] = pc[t] /\ metrics'[t] = metrics[t]
       /\ pc'[s] = "visit"
  BY <1>1 DEF IInv, TypeOK
<1>12. SnapshotDated(s)'
  BY <1>1, <1>9, <1>11, SnapshotStays
<1> QED
  BY <1>1, <1>6, <1>7, <1>8, <1>10, <1>11, <1>12, OneScrape

\* It holds in every reachable state.
LEMMA InvariantHolds == Spec => []IInv
<1>1. IInv /\ [Next]_vars => IInv'
  <2> SUFFICES ASSUME IInv, [Next]_vars PROVE IInv'
    OBVIOUS
  <2>1. CASE UNCHANGED vars
    <3>1. UNCHANGED <<clock, cache, scraper, environment, lag>>
      BY <2>1 DEF vars, scraper
    <3>2. Onward /\ UNCHANGED <<clock, root, broken, removed, lastBroken>>
      <4>1. lag' \in Nat /\ lag <= lag'
        BY <3>1 DEF IInv, TypeOK
      <4> QED
        BY <3>1, <4>1, StepIsOnward
    <3> QED
      BY <3>1, <3>2, ScrapersStay DEF IInv, TypeOK, BrokenDated
  <2>2. ASSUME NEW s \in Scrapers, Scrape(s) PROVE IInv'
    BY <2>2, BeginIInv, TakeTimeIInv, HitIInv, MissIInv, CollectSiteIInv, StoreIInv, EndIInv
       DEF Scrape
  <2>3. CASE Tick \/ \E x \in Sites : AddSite(x) \/ RemoveSite(x) \/ Break(x) \/ Repair(x)
    BY <2>3, EnvironmentIInv
  <2> QED
    BY <2>1, <2>2, <2>3 DEF Next
<1> QED
  BY InitIInv, <1>1, PTL DEF Spec

(* Type correctness of the content metrics cache.                           *)
THEOREM SiteTypeCorrect == Spec => []TypeOK
<1>1. IInv => TypeOK
  BY DEF IInv
<1> QED
  BY <1>1, InvariantHolds, PTL

(* An incomplete list served from the cache stems from a failure less than  *)
(* a TTL before the scrape, however slow the scrape that collected it, give *)
(* or take the age of its snapshot.                                         *)
THEOREM SiteFailuresExpire == Spec => []FailuresExpire
<1>1. IInv => FailuresExpire
  <2> SUFFICES ASSUME IInv, NEW s \in Scrapers, NEW x \in Sites, Fresh(s, x), ~cache[x].whole
               PROVE  now[s] - lastBroken[x] < TTL + lag
    BY DEF FailuresExpire, Serves
  <2> DEFINE a == cache[x].at
             b == lastBroken[x]
  <2>1. cache[x] \in Entries /\ now[s] - a < TTL /\ a <= b + lag
    BY DEF IInv, TypeOK, Fresh, Entries, EntriesDated, EntryDated
  <2>2. a \in Nat /\ b \in Int /\ now[s] \in Nat /\ lag \in Nat /\ TTL \in Nat
    BY <2>1, SiteTimeAssumption DEF IInv, TypeOK, Entries
  <2> HIDE DEF a, b
  <2>3. now[s] - b < TTL + lag
    BY <2>1, <2>2
  <2> QED
    BY <2>3 DEF b
<1> QED
  BY <1>1, InvariantHolds, PTL

(* The list of a deleted site is served no longer than that after it was    *)
(* deleted, also under the name of its successor; for every number of them. *)
THEOREM ListsOfEarlierSitesExpire == Spec => []EarlierSitesExpire
<1>1. IInv => EarlierSitesExpire
  <2> SUFFICES ASSUME IInv, NEW s \in Scrapers, NEW x \in Sites, Fresh(s, x),
                      cache[x].of < Len(removed[x])
               PROVE  now[s] - removed[x][cache[x].of + 1] < TTL + lag
    BY DEF EarlierSitesExpire, Serves
  <2> DEFINE a == cache[x].at
             n == cache[x].of
             r == removed[x]
             t == r[n + 1]
  <2>1. cache[x] \in Entries /\ now[s] - a < TTL /\ There(r, n, a, lag)
    BY DEF IInv, TypeOK, Fresh, Entries, EntriesDated, EntryDated
  <2>2. a \in Nat /\ n \in Nat /\ r \in Seq(Nat) /\ now[s] \in Nat /\ lag \in Nat /\ TTL \in Nat
    BY <2>1, SiteTimeAssumption DEF IInv, TypeOK, Entries
  <2>3. t \in Nat
    BY <2>2
  <2>4. a <= t + lag
    BY <2>1 DEF There
  <2> HIDE DEF a, t
  <2>5. now[s] - t < TTL + lag
    BY <2>1, <2>2, <2>3, <2>4
  <2> QED
    BY <2>5 DEF t
<1> QED
  BY <1>1, InvariantHolds, PTL

=============================================================================
