--------------------------- MODULE ActivityMonitor ---------------------------
(***************************************************************************)
(* The load counters: LoadStoreActivityMonitor and its installation by     *)
(* scrapes (metrics/providers/zodb.py), and the deltas that spans take of  *)
(* the same per-connection counts (otel/dbcounts.py).                      *)
(*                                                                         *)
(* A connection counts the objects it loads.  When it is closed, the       *)
(* monitor in the database's slot, if there is one, reads and resets that  *)
(* count and adds it to its total under its lock.  Spans of the request    *)
(* that uses the connection peek at the count when they start and end.     *)
(* The first scrape that finds the slot free installs the monitor.  Other  *)
(* packages may put a monitor of theirs into the slot at any time, also    *)
(* between the scrape's look at the slot and its installation.             *)
(*                                                                         *)
(* Stored objects go through the same statements as loaded ones; only the  *)
(* loads are represented.                                                  *)
(***************************************************************************)
EXTENDS Integers, Sequences, FiniteSets, Functions

CONSTANTS
    Conns,       \* ZODB connections, each used by one request at a time
    Scrapers,    \* threads serving @@metrics
    MaxLoads,    \* bound on the objects a connection loads in a behaviour
    MaxDepth     \* bound on the nesting of spans

\* A process opens finitely many connections.
ASSUME MonitorAssumption == IsFiniteSet(Conns) /\ MaxLoads \in Nat /\ MaxDepth \in Nat

VARIABLES
    enabled,     \* _monitor_enabled()
    slot,        \* the database's activity monitor
    monitor,     \* _monitor
    holder,      \* the scraper inside _monitor_lock, if any
    slipped,     \* a foreign monitor came after a scrape's look (history)
    totals,      \* the attribute loads of each monitor object created
    \* each connection
    cpc,         \* where the request that uses it is
    loads,       \* its transfer count
    pending,     \* read and reset by closedConnection, not yet added
    target,      \* the monitor whose closedConnection is running
    temp,        \* the total read by +=, to be written back
    spans,       \* the counts its open spans started from, outermost first
    \* each scrape
    spc,         \* where it is
    created,     \* the monitor object it has created
    floor,       \* the highest total reported before it began (history)
    \* history, read by no action
    done,        \* objects each connection has loaded so far
    elsewhere,   \* loads that a foreign monitor has read and reset
    reported     \* the highest total any scrape has reported

connection == <<cpc, loads, pending, target, temp, spans, done, elsewhere>>
scrape == <<spc, created, floor, reported>>
installation == <<enabled, slot, monitor, holder, slipped>>
vars == <<installation, totals, connection, scrape>>

Nobody == 0      \* no monitor; the monitors created are 1, 2, ...
Foreign == -1    \* a monitor of another package
Free == "free"

ASSUME FreeAssumption == Free \notin Scrapers

Init ==
    /\ enabled \in BOOLEAN
    /\ slot \in {Nobody, Foreign}
    /\ monitor = Nobody
    /\ holder = Free
    /\ slipped = FALSE
    /\ totals = <<>>
    /\ cpc = [c \in Conns |-> "closed"]
    /\ loads = [c \in Conns |-> 0]
    /\ pending = [c \in Conns |-> 0]
    /\ target = [c \in Conns |-> Nobody]
    /\ temp = [c \in Conns |-> 0]
    /\ spans = [c \in Conns |-> <<>>]
    /\ spc = [s \in Scrapers |-> "idle"]
    /\ created = [s \in Scrapers |-> Nobody]
    /\ floor = [s \in Scrapers |-> 0]
    /\ done = [c \in Conns |-> 0]
    /\ elsewhere = 0
    /\ reported = 0

CGoto(c, from, to) == cpc[c] = from /\ cpc' = [cpc EXCEPT ![c] = to]
SGoto(s, from, to) == spc[s] = from /\ spc' = [spc EXCEPT ![s] = to]

-----------------------------------------------------------------------------
(* A request uses a connection.                                            *)

Open(c) ==
    /\ CGoto(c, "closed", "open")
    /\ UNCHANGED <<installation, totals, loads, pending, target, temp, spans, done, elsewhere, scrape>>

Load(c) ==
    /\ cpc[c] = "open" /\ done[c] < MaxLoads
    /\ loads' = [loads EXCEPT ![c] = @ + 1]
    /\ done' = [done EXCEPT ![c] = @ + 1]
    /\ UNCHANGED <<installation, totals, cpc, pending, target, temp, spans, elsewhere, scrape>>

\* Mutant: reading the counts resets them.
StartSpanResetting(c) ==
    /\ cpc[c] = "open" /\ Len(spans[c]) < MaxDepth
    /\ spans' = [spans EXCEPT ![c] = Append(@, [before |-> loads[c], at |-> done[c]])]
    /\ loads' = [loads EXCEPT ![c] = 0]
    /\ UNCHANGED <<installation, totals, cpc, pending, target, temp, done, elsewhere, scrape>>

\* read_counts at the start of a span; "at" is history.
StartSpan(c) ==
    /\ cpc[c] = "open" /\ Len(spans[c]) < MaxDepth
    /\ spans' = [spans EXCEPT ![c] = Append(@, [before |-> loads[c], at |-> done[c]])]
    /\ UNCHANGED <<installation, totals, cpc, loads, pending, target, temp, done, elsewhere, scrape>>

\* read_counts and annotate at its end; an exception ends it without them.
EndSpan(c) ==
    /\ cpc[c] = "open" /\ spans[c] # <<>>
    /\ spans' = [spans EXCEPT ![c] = SubSeq(@, 1, Len(@) - 1)]
    /\ UNCHANGED <<installation, totals, cpc, loads, pending, target, temp, done, elsewhere, scrape>>

\* What annotate sets on a span that ends now.
Delta(c, i) == loads[c] - spans[c][i].before

-----------------------------------------------------------------------------
(* The connection is closed, after the spans of its request have ended.    *)

CloseUnmonitored(c) ==
    /\ spans[c] = <<>> /\ slot \in {Nobody, Foreign}
    /\ CGoto(c, "open", "closed")
    /\ UNCHANGED <<installation, totals, loads, pending, target, temp, spans, done, elsewhere, scrape>>

\* A foreign monitor may read and reset the counts in its closedConnection.
CloseElsewhere(c) ==
    /\ spans[c] = <<>> /\ slot = Foreign
    /\ CGoto(c, "open", "closed")
    /\ elsewhere' = elsewhere + loads[c]
    /\ loads' = [loads EXCEPT ![c] = 0]
    /\ UNCHANGED <<installation, totals, pending, target, temp, spans, done, scrape>>

\* conn.getTransferCounts(True), outside the monitor's lock.
ClosedConnection(c) ==
    /\ spans[c] = <<>> /\ slot \notin {Nobody, Foreign}
    /\ CGoto(c, "open", "lock")
    /\ target' = [target EXCEPT ![c] = slot]
    /\ pending' = [pending EXCEPT ![c] = loads[c]]
    /\ loads' = [loads EXCEPT ![c] = 0]
    /\ UNCHANGED <<installation, totals, temp, spans, done, elsewhere, scrape>>

Locked(m) == \E d \in Conns : cpc[d] = "add" /\ target[d] = m

\* Mutant: the lock is not taken.
ReadTotalUnlocked(c) ==
    /\ CGoto(c, "lock", "add")
    /\ temp' = [temp EXCEPT ![c] = totals[target[c]]]
    /\ UNCHANGED <<installation, totals, loads, pending, target, spans, done, elsewhere, scrape>>

\* The two halves of self.loads += loads, under self._lock.
ReadTotal(c) ==
    /\ ~Locked(target[c])
    /\ CGoto(c, "lock", "add")
    /\ temp' = [temp EXCEPT ![c] = totals[target[c]]]
    /\ UNCHANGED <<installation, totals, loads, pending, target, spans, done, elsewhere, scrape>>

AddToTotal(c) ==
    /\ CGoto(c, "add", "closed")
    /\ totals' = [totals EXCEPT ![target[c]] = temp[c] + pending[c]]
    /\ pending' = [pending EXCEPT ![c] = 0]
    /\ target' = [target EXCEPT ![c] = Nobody]
    /\ temp' = [temp EXCEPT ![c] = 0]
    /\ UNCHANGED <<installation, loads, spans, done, elsewhere, scrape>>

-----------------------------------------------------------------------------
(* A scrape: _ensure_activity_monitor, then the totals are reported.       *)

Begin(s) ==
    /\ SGoto(s, "idle", IF monitor # Nobody \/ ~enabled THEN "report" ELSE "lock")
    /\ floor' = [floor EXCEPT ![s] = reported]
    /\ UNCHANGED <<installation, totals, connection, created, reported>>

\* Mutant: the lock keeps nobody out.
LockShared(s) ==
    /\ SGoto(s, "lock", IF monitor # Nobody THEN "unlock" ELSE "look")
    /\ holder' = s
    /\ UNCHANGED <<enabled, slot, monitor, slipped, totals, connection,
                   created, floor, reported>>

\* _monitor is looked at once more under _monitor_lock.
Lock(s) ==
    /\ holder = Free
    /\ SGoto(s, "lock", IF monitor # Nobody THEN "unlock" ELSE "look")
    /\ holder' = s
    /\ UNCHANGED <<enabled, slot, monitor, slipped, totals, connection,
                   created, floor, reported>>

\* Mutant: whatever is in the slot is replaced.
LookAway(s) ==
    /\ SGoto(s, "look", "install")
    /\ UNCHANGED <<installation, totals, connection, created, floor, reported>>

\* A monitor of another package is left alone.
Look(s) ==
    /\ SGoto(s, "look", IF slot # Nobody THEN "unlock" ELSE "install")
    /\ UNCHANGED <<installation, totals, connection, created, floor, reported>>

SetActivityMonitor(s) ==
    /\ SGoto(s, "install", "remember")
    /\ totals' = Append(totals, 0)
    /\ slot' = Len(totals) + 1
    /\ created' = [created EXCEPT ![s] = Len(totals) + 1]
    /\ UNCHANGED <<enabled, monitor, holder, slipped, connection, floor, reported>>

Remember(s) ==
    /\ SGoto(s, "remember", "unlock")
    /\ monitor' = created[s]
    /\ created' = [created EXCEPT ![s] = Nobody]
    /\ UNCHANGED <<enabled, slot, holder, slipped, totals, connection, floor, reported>>

Unlock(s) ==
    /\ SGoto(s, "unlock", "report")
    /\ holder' = Free
    /\ UNCHANGED <<enabled, slot, monitor, slipped, totals, connection,
                   created, floor, reported>>

\* What the scrape yields as plone_zodb_loads_total.
Reading == totals[monitor]

Report(s) ==
    /\ SGoto(s, "report", "idle")
    /\ reported' = IF monitor # Nobody /\ Reading > reported THEN Reading ELSE reported
    /\ floor' = [floor EXCEPT ![s] = 0]
    /\ UNCHANGED <<installation, totals, connection, created>>

-----------------------------------------------------------------------------

\* db.setActivityMonitor of another package, which need not look first.
ForeignMonitor ==
    /\ slot # Foreign
    /\ slot' = Foreign
    /\ slipped' = (slipped \/ \E s \in Scrapers : spc[s] = "install")
    /\ UNCHANGED <<enabled, monitor, holder, totals, connection, scrape>>

Use(c) ==
    \/ Open(c) \/ Load(c) \/ StartSpan(c) \/ EndSpan(c)
    \/ CloseUnmonitored(c) \/ CloseElsewhere(c)
    \/ ClosedConnection(c) \/ ReadTotal(c) \/ AddToTotal(c)

Scrape(s) ==
    \/ Begin(s) \/ Lock(s) \/ Look(s) \/ SetActivityMonitor(s)
    \/ Remember(s) \/ Unlock(s) \/ Report(s)

Next == (\E c \in Conns : Use(c)) \/ (\E s \in Scrapers : Scrape(s)) \/ ForeignMonitor

Spec == Init /\ [][Next]_vars

-----------------------------------------------------------------------------

TypeOK ==
    /\ enabled \in BOOLEAN
    /\ totals \in Seq(Nat)
    /\ slot \in {Nobody, Foreign} \cup DOMAIN totals
    /\ monitor \in {Nobody} \cup DOMAIN totals
    /\ holder \in Scrapers \cup {Free}
    /\ slipped \in BOOLEAN
    /\ cpc \in [Conns -> {"closed", "open", "lock", "add"}]
    /\ loads \in [Conns -> Nat]
    /\ pending \in [Conns -> Nat]
    /\ target \in [Conns -> {Nobody} \cup DOMAIN totals]
    /\ temp \in [Conns -> Nat]
    /\ spans \in [Conns -> Seq([before : Nat, at : Nat])]
    /\ spc \in [Scrapers -> {"idle", "lock", "look", "install", "remember",
                             "unlock", "report"}]
    /\ created \in [Scrapers -> {Nobody} \cup DOMAIN totals]
    /\ floor \in [Scrapers -> Nat]
    /\ done \in [Conns -> Nat]
    /\ elsewhere \in Nat
    /\ reported \in Nat

(* Every loaded object is in exactly one place, also while connections are  *)
(* being closed by several threads and monitors change: still on its        *)
(* connection, read but not yet added, in a total, or read by a foreign     *)
(* monitor.                                                                 *)
NoLoadIsLost ==
    SumFunction(done) =
        SumFunction(totals) + SumFunction(pending) + SumFunction(loads) + elsewhere

(* plone_zodb_loads_total is a counter: a scrape never reports less than    *)
(* any scrape that was answered before it began.  It would if a second      *)
(* monitor ever replaced the first.                                         *)
CounterNeverFalls ==
    \A s \in Scrapers :
        (spc[s] = "report" /\ reported > 0) => monitor # Nobody /\ floor[s] <= Reading

(* A monitor of another package is replaced in one case only: it was put   *)
(* into the slot after a scrape had found the slot free and before that     *)
(* scrape filled it (zodb.py:117-129; _monitor_lock does not keep other     *)
(* packages out).  And while the switch is off, nothing of ours gets in.    *)
ForeignMonitorStays ==
    [][ /\ (slot = Foreign /\ slot' # Foreign) => slipped
        /\ ~enabled => monitor' = Nobody /\ slot' \in {slot, Foreign} ]_vars

(* dbcounts.py:3-5: peeking is non-disruptive.  However the spans of a      *)
(* request nest, each sees exactly the objects loaded since it started.     *)
SpansCountTheirLoads ==
    \A c \in Conns : \A i \in DOMAIN spans[c] : Delta(c, i) = done[c] - spans[c][i].at

=============================================================================
