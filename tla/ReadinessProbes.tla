-------------------------- MODULE ReadinessProbes --------------------------
(***************************************************************************)
(* The health probe endpoints of plone.observability (health/server.py).   *)
(*                                                                         *)
(* ThreadingHTTPServer gives every probe a thread of its own.  The threads *)
(* share the attributes of one HealthServer: the last readiness result,    *)
(* the mark that a readiness run is in flight, and the startup latch.  A   *)
(* readiness check may hang (db.open() during a database failover) or      *)
(* raise, so a run spans many steps between two critical sections of       *)
(* _readiness_lock; each critical section is one atomic action here.       *)
(*                                                                         *)
(* Time is kept as ages that saturate at the threshold they are compared   *)
(* with: the code only ever asks whether now - _readiness_result_at is     *)
(* below the TTL and whether now - _readiness_running_since is below       *)
(* the stuck threshold, both under the lock, so nothing is lost.           *)
(***************************************************************************)
EXTENDS Integers

CONSTANTS
    Threads,     \* probe threads alive at the same time (slots, reused)
    Checks,      \* names of the registered IReadinessCheck utilities
    TTL,         \* readiness_cache_ttl, in clock ticks
    StuckAfter,  \* readiness_stuck_after, in clock ticks
    None         \* Python's None: no readiness run has completed yet

Probes == {"live", "ready", "startup"}

\* The dict run_checks builds: a verdict for every check called so far.
NoChecks == [c \in {} |-> FALSE]
Results == [ok : BOOLEAN, checks : UNION {[S -> BOOLEAN] : S \in SUBSET Checks}]

\* (False, {}): what check_readiness answers when it has nothing to serve.
NotReady == [ok |-> FALSE, checks |-> NoChecks]
\* What run_checks starts from: nothing has failed yet.
AllGood == [ok |-> TRUE, checks |-> NoChecks]

ASSUME TimeAssumption == TTL \in Nat /\ StuckAfter \in Nat
ASSUME NoneAssumption == None \notin Results

VARIABLES
    \* HealthServer, shared by the threads
    last,        \* _readiness_result
    resultAge,   \* now - _readiness_result_at, up to TTL
    running,     \* _readiness_running_since is not None
    runAge,      \* now - _readiness_running_since, up to StuckAfter
    warned,      \* _readiness_stuck_warned
    started,     \* _started, the startup latch
    \* each probe thread
    pc,          \* where the handler is
    probe,       \* self.path
    res,         \* its (ok, checks): first being built, then being answered
    \* the environment
    health,      \* what calling each readiness check does at the moment
    \* history, read by no action
    promised,    \* a client has received 200 from /ready or /startup
    owed         \* threads whose probe arrived after that

server == <<last, resultAge, running, runAge, warned, started>>
history == <<promised, owed>>
vars == <<server, pc, probe, res, health, history>>

-----------------------------------------------------------------------------

Init ==
    /\ last = None
    /\ resultAge = TTL
    /\ running = FALSE
    /\ runAge = 0
    /\ warned = FALSE
    /\ started = FALSE
    /\ pc = [t \in Threads |-> "idle"]
    /\ probe = [t \in Threads |-> "live"]
    /\ res = [t \in Threads |-> NotReady]
    /\ health \in [Checks -> {"up", "down", "raises", "hangs"}]
    /\ promised = FALSE
    /\ owed = {}

Goto(t, from, to) == pc[t] = from /\ pc' = [pc EXCEPT ![t] = to]

\* The thread is done with its probe, whatever the client saw.
Leave(t) ==
    /\ pc' = [pc EXCEPT ![t] = "idle"]
    /\ probe' = [probe EXCEPT ![t] = "live"]
    /\ res' = [res EXCEPT ![t] = NotReady]
    /\ owed' = owed \ {t}

\* A probe connects and gets a thread; do_GET has the path.
Arrive(t, p) ==
    /\ Goto(t, "idle", "dispatch")
    /\ probe' = [probe EXCEPT ![t] = p]
    /\ owed' = IF promised THEN owed \cup {t} ELSE owed
    /\ UNCHANGED <<server, res, health, promised>>

\* _handle_live: the liveness checks that other packages register decide; this
\* one registers none.  No state of the readiness machinery is read.
HandleLive(t) ==
    /\ probe[t] = "live"
    /\ Goto(t, "dispatch", "send")
    /\ \E verdict \in {AllGood, NotReady} : res' = [res EXCEPT ![t] = verdict]
    /\ UNCHANGED <<server, probe, health, history>>

\* A liveness check raises: the connection is closed without an answer.
LivenessRaises(t) ==
    /\ probe[t] = "live" /\ pc[t] = "dispatch"
    /\ Leave(t)
    /\ UNCHANGED <<server, health, promised>>

HandleReady(t) ==
    /\ probe[t] = "ready"
    /\ Goto(t, "dispatch", "enter")
    /\ UNCHANGED <<server, probe, res, health, history>>

\* _handle_startup reads the latch without the lock, to decide whether to ask
\* check_readiness, and reads it again for the answer (ReadLatch).
HandleStartup(t) ==
    /\ probe[t] = "startup"
    /\ Goto(t, "dispatch", IF started THEN "reread" ELSE "enter")
    /\ UNCHANGED <<server, probe, res, health, history>>

-----------------------------------------------------------------------------
(* check_readiness: the first critical section, one action per exit.       *)

\* Mutant: a failed result never expires.
FreshWhileFailed == last # None /\ (resultAge < TTL \/ ~last.ok)

Fresh == last # None /\ resultAge < TTL
Stuck == runAge >= StuckAfter

AnswerFromCache(t) ==
    /\ Fresh
    /\ Goto(t, "enter", "answered")
    /\ res' = [res EXCEPT ![t] = last]
    /\ UNCHANGED <<server, probe, health, history>>

\* Mutant: the last result is served however long the run has been out.
AnswerFromLastRunForever(t) ==
    /\ ~Fresh /\ running /\ last # None
    /\ Goto(t, "enter", "answered")
    /\ res' = [res EXCEPT ![t] = last]
    /\ UNCHANGED <<server, probe, health, history>>

AnswerFromLastRun(t) ==
    /\ ~Fresh /\ running /\ ~Stuck /\ last # None
    /\ Goto(t, "enter", "answered")
    /\ res' = [res EXCEPT ![t] = last]
    /\ UNCHANGED <<server, probe, health, history>>

\* Mutant: without any result yet, probes wait for the run.
AnswerInProgressOnceStuck(t) ==
    /\ ~Fresh /\ running /\ Stuck /\ last # None
    /\ Goto(t, "enter", "answered")
    /\ res' = [res EXCEPT ![t] = NotReady]
    /\ warned' = TRUE
    /\ UNCHANGED <<last, resultAge, running, runAge, started, probe, health, history>>

AnswerInProgress(t) ==
    /\ ~Fresh /\ running
    /\ Stuck \/ last = None
    /\ Goto(t, "enter", "answered")
    /\ res' = [res EXCEPT ![t] = NotReady]
    /\ warned' = (warned \/ Stuck)
    /\ UNCHANGED <<last, resultAge, running, runAge, started, probe, health, history>>

\* Mutant: a stuck run is given up for a new one.
StartRunSuperseding(t) ==
    /\ ~Fresh /\ (~running \/ Stuck)
    /\ Goto(t, "enter", "run")
    /\ res' = [res EXCEPT ![t] = AllGood]
    /\ running' = TRUE /\ runAge' = 0 /\ warned' = FALSE
    /\ UNCHANGED <<last, resultAge, started, probe, health, history>>

\* Mutant: the warned mark is not reset.
StartRunQuietly(t) ==
    /\ ~Fresh /\ ~running
    /\ Goto(t, "enter", "run")
    /\ res' = [res EXCEPT ![t] = AllGood]
    /\ running' = TRUE /\ runAge' = 0
    /\ UNCHANGED <<last, resultAge, warned, started, probe, health, history>>

StartRun(t) ==
    /\ ~Fresh /\ ~running
    /\ Goto(t, "enter", "run")
    /\ res' = [res EXCEPT ![t] = AllGood]
    /\ running' = TRUE
    /\ runAge' = 0
    /\ warned' = FALSE
    /\ UNCHANGED <<last, resultAge, started, probe, health, history>>

-----------------------------------------------------------------------------
(* run_checks, outside the lock, and the second critical section.          *)

Pending(t) == Checks \ DOMAIN res[t].checks

\* Mutant: the last verdict decides.
ExtendLastWins(r, c, up) ==
    [ok |-> up,
     checks |-> [d \in DOMAIN r.checks \cup {c} |-> IF d = c THEN up ELSE r.checks[d]]]

\* The verdict of one more check joins (ok, checks).
Extend(r, c, up) ==
    [ok |-> r.ok /\ up,
     checks |-> [d \in DOMAIN r.checks \cup {c} |-> IF d = c THEN up ELSE r.checks[d]]]

RunCheck(t, c) ==
    /\ pc[t] = "run"
    /\ c \in Pending(t)
    /\ health[c] \in {"up", "down"}
    /\ res' = [res EXCEPT ![t] = Extend(@, c, health[c] = "up")]
    /\ UNCHANGED <<server, pc, probe, health, history>>

\* An exception leaves run_checks; ``result`` stays None.
CheckRaises(t, c) ==
    /\ c \in Pending(t)
    /\ health[c] = "raises"
    /\ Goto(t, "run", "abort")
    /\ UNCHANGED <<server, probe, res, health, history>>

Publish(t) ==
    /\ Pending(t) = {}
    /\ Goto(t, "run", "answered")
    /\ last' = res[t]
    /\ resultAge' = 0
    /\ running' = FALSE
    /\ runAge' = 0
    /\ UNCHANGED <<warned, started, probe, res, health, history>>

\* Mutant: the finally block stores whatever there is.
AbortPublishing(t) ==
    /\ pc[t] = "abort"
    /\ Leave(t)
    /\ running' = FALSE /\ runAge' = 0
    /\ last' = res[t] /\ resultAge' = 0
    /\ UNCHANGED <<warned, started, health, promised>>

\* Mutant: no finally, the exception leaves the running mark behind.
AbortLeavingMark(t) ==
    /\ pc[t] = "abort"
    /\ Leave(t)
    /\ UNCHANGED <<server, health, promised>>

\* The finally block without a result, then the exception closes the
\* connection: the probe gets no HTTP answer at all.
Abort(t) ==
    /\ pc[t] = "abort"
    /\ Leave(t)
    /\ running' = FALSE
    /\ runAge' = 0
    /\ UNCHANGED <<last, resultAge, warned, started, health, promised>>

-----------------------------------------------------------------------------
(* Back in the handlers.                                                   *)

\* Mutant: only /startup sets the latch.
LatchOnStartupOnly(t) ==
    /\ Goto(t, "answered", IF probe[t] = "startup" THEN "reread" ELSE "send")
    /\ started' = (started \/ (probe[t] = "startup" /\ res[t].ok))
    /\ UNCHANGED <<last, resultAge, running, runAge, warned, probe, res, health, history>>

\* Mutant: any answer sets the latch.
LatchAlways(t) ==
    /\ Goto(t, "answered", IF probe[t] = "startup" THEN "reread" ELSE "send")
    /\ started' = TRUE
    /\ UNCHANGED <<last, resultAge, running, runAge, warned, probe, res, health, history>>

\* Both handlers latch a positive answer before they send anything.
Latch(t) ==
    /\ Goto(t, "answered", IF probe[t] = "startup" THEN "reread" ELSE "send")
    /\ started' = (started \/ res[t].ok)
    /\ UNCHANGED <<last, resultAge, running, runAge, warned, probe, res, health, history>>

ReadLatch(t) ==
    /\ Goto(t, "reread", "send")
    /\ res' = [res EXCEPT ![t] = [ok |-> started, checks |-> NoChecks]]
    /\ UNCHANGED <<server, probe, health, history>>

\* _send_json reaches the client ...
Deliver(t) ==
    /\ pc[t] = "send"
    /\ Leave(t)
    /\ promised' = (promised \/ (probe[t] # "live" /\ res[t].ok))
    /\ UNCHANGED <<server, health>>

\* ... or the client gave up first and the error is swallowed.
ClientGone(t) ==
    /\ pc[t] = "send"
    /\ Leave(t)
    /\ UNCHANGED <<server, health, promised>>

-----------------------------------------------------------------------------
(* The environment: the clock, and the database behind the checks.         *)

Older(age, limit) == IF age < limit THEN age + 1 ELSE age

Tick ==
    /\ resultAge' = Older(resultAge, TTL)
    /\ runAge' = IF running THEN Older(runAge, StuckAfter) ELSE runAge
    /\ UNCHANGED <<last, running, warned, started, pc, probe, res, health, history>>

ChangeHealth(c, h) ==
    /\ health' = [health EXCEPT ![c] = h]
    /\ UNCHANGED <<server, pc, probe, res, history>>

Enter(t) ==
    \/ AnswerFromCache(t)
    \/ AnswerFromLastRun(t)
    \/ AnswerInProgress(t)
    \/ StartRun(t)

Step(t) ==
    \/ HandleLive(t) \/ LivenessRaises(t) \/ HandleReady(t) \/ HandleStartup(t)
    \/ Enter(t)
    \/ \E c \in Checks : RunCheck(t, c) \/ CheckRaises(t, c)
    \/ Publish(t) \/ Abort(t)
    \/ Latch(t) \/ ReadLatch(t)
    \/ Deliver(t) \/ ClientGone(t)

Next ==
    \/ \E t \in Threads : Step(t)
    \/ \E t \in Threads, p \in Probes : Arrive(t, p)
    \/ Tick
    \/ \E c \in Checks, h \in {"up", "down", "raises", "hangs"} : ChangeHealth(c, h)

Spec == Init /\ [][Next]_vars

\* The operating system schedules every thread and the clock advances; nothing
\* is assumed of the clients or of the database.
FairSpec == Spec /\ WF_vars(Tick) /\ \A t \in Threads : WF_vars(Step(t))

-----------------------------------------------------------------------------

PCs == {"idle", "dispatch", "enter", "run", "abort", "answered", "reread", "send"}

TypeOK ==
    /\ last \in Results \cup {None}
    /\ resultAge \in 0..TTL
    /\ running \in BOOLEAN
    /\ runAge \in 0..StuckAfter
    /\ warned \in BOOLEAN
    /\ started \in BOOLEAN
    /\ pc \in [Threads -> PCs]
    /\ probe \in [Threads -> Probes]
    /\ res \in [Threads -> Results]
    /\ health \in [Checks -> {"up", "down", "raises", "hangs"}]
    /\ promised \in BOOLEAN
    /\ owed \subseteq Threads

\* Threads between the two critical sections of a readiness run.
InFlight == {t \in Threads : pc[t] \in {"run", "abort"}}

(* At most one thread is inside a readiness run, however many probes arrive *)
(* while a check hangs, and the mark that a run is in flight is set exactly *)
(* while there is one: it is neither lost while a run is alive nor left     *)
(* behind by a run that raised.                                             *)
SingleFlight ==
    /\ \A s, t \in InFlight : s = t
    /\ running <=> InFlight # {}

(* A probe answered while a run has been in flight for StuckAfter or longer *)
(* is told "not ready": although the cache is consulted before the run, no  *)
(* result is still within its TTL by then.                                  *)
StuckAnswersNotReady ==
    [][\A t \in Threads :
          (pc[t] = "enter" /\ pc'[t] = "answered" /\ running /\ Stuck) => ~res'[t].ok]_vars

(* The mark that the "stuck" warning has been logged (server.py:165-170)    *)
(* belongs to the run in flight: a new run never inherits it, which would   *)
(* silence the warning of that run.                                         *)
WarningIsForThisRun == (warned /\ running) => Stuck

(* Once a client has had a 200 from /ready or /startup, every /startup probe *)
(* that arrives later is answered 200 without waiting for a readiness run:   *)
(* the latch is set before the first positive answer can be seen.            *)
StartupStaysGreen ==
    \A t \in owed : probe[t] = "startup" =>
        \/ pc[t] \in {"dispatch", "reread"}
        \/ pc[t] = "send" /\ res[t].ok

(* A positive answer of check_readiness reports every registered check, each *)
(* of them passed in one and the same completed run, up to the response.     *)
GreenListsEveryCheck ==
    \A t \in Threads :
        (res[t].ok /\ (pc[t] = "answered" \/ (pc[t] = "send" /\ probe[t] = "ready"))) =>
            res[t].checks = [c \in Checks |-> TRUE]

(* The startup latch flips only on a run in which every check passed, and   *)
(* never back.                                                              *)
LatchedByAFullPass ==
    [][started' # started =>
          /\ started'
          /\ \E t \in Threads : res[t].checks = [c \in Checks |-> TRUE]]_vars

\* The detailed protocol seen as callers of check_readiness see it.
Told == [t \in Threads |-> IF pc[t] = "answered" THEN res[t] ELSE None]

Flight == INSTANCE OneFlight WITH
    Callers <- Threads,
    flight <- InFlight,
    published <- last,
    reply <- Told

(* The lock, the clock, the cache and the running mark implement OneFlight:  *)
(* no caller is told anything but the published result or, while a run is    *)
(* out, "not ready", and a run that raises publishes nothing.                *)
ImplementsOneFlight == Flight!FlightSpec

-----------------------------------------------------------------------------

(* Every probe that is not itself running the checks is answered (or becomes *)
(* the run), even if a check hangs for ever: no probe waits for another one. *)
NoProbeWaits ==
    \A t \in Threads : (pc[t] \notin {"idle", "run"}) ~> (pc[t] \in {"idle", "run"})

(* If checks eventually stop hanging, runs keep ending, raising checks       *)
(* included: the single flight is never occupied for good.                   *)
FlightIsReleased ==
    <>[](\A c \in Checks : health[c] # "hangs") => []<>(~running)

(* If the database recovers for good and /ready or /startup keep being       *)
(* probed, the result being served becomes and stays positive: neither a     *)
(* cached failure, nor an earlier hang, nor an exception sticks.             *)
RecoversForGood ==
    (/\ <>[](\A c \in Checks : health[c] = "up")
     /\ []<>(\E t \in Threads : pc[t] = "enter"))
        => <>[](last # None /\ last.ok)

=============================================================================
