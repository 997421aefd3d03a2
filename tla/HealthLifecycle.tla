---------------------------- MODULE HealthLifecycle ----------------------------
(***************************************************************************)
(* The health server is started when a pipeline is built                   *)
(* (health/wsgi.py), serves probes in a thread of its own that starts one  *)
(* more thread per probe, and is stopped (health/server.py).  The          *)
(* readiness check of the ZODB (health/checks.py) works once it has been   *)
(* given the database.                                                     *)
(*                                                                         *)
(* What a probe is answered by check_readiness is the subject of           *)
(* ReadinessProbes; here a probe runs the check itself.  socketserver is   *)
(* external: serve_forever, shutdown, and a listening socket that stays    *)
(* open as long as the server object is referred to, since stop() does not *)
(* close it.                                                               *)
(***************************************************************************)
EXTENDS Integers

CONSTANTS
    Clients,     \* clients, each with one connection at a time
    MaxStarts    \* bound on the servers made

ASSUME StartsAssumption == MaxStarts \in Nat

Servers == 1..MaxStarts
Nothing == 0

VARIABLES
    registered,  \* there is an IReadinessCheck named zodb
    database,    \* the check has its database reference
    taken,       \* another process has the port
    main,        \* where the thread that builds pipelines is
    httpd,       \* _httpd
    made,        \* servers made so far
    attached,    \* servers whose health_server is set
    loop,        \* each server's serve_forever
    asked,       \* servers asked to shut down
    connection,  \* each client: not connected, in the backlog, being answered
    at,          \* the server it is connected to
    \* history, read by no action
    due,         \* the check was there when make_filter was last called
    inTime,      \* servers made by those calls
    forgotten    \* servers that were up when a start() could not bind

wiring == <<registered, database>>
servers == <<httpd, made, attached, asked, due, inTime, forgotten>>
connections == <<connection, at>>
lifecycleVars == <<wiring, taken, main, servers, loop, connections>>

LifecycleInit ==
    /\ registered \in BOOLEAN
    /\ database = FALSE
    /\ taken \in BOOLEAN
    /\ main = "idle"
    /\ httpd = Nothing
    /\ made = 0
    /\ attached = {}
    /\ loop = [s \in Servers |-> "none"]
    /\ asked = {}
    /\ connection = [p \in Clients |-> "away"]
    /\ at = [p \in Clients |-> Nothing]
    /\ due = FALSE
    /\ inTime = {}
    /\ forgotten = {}

MainGoto(from, to) == main = from /\ main' = to

Up(s) == loop[s] \in {"bound", "starting", "serving"}
Answering(s) == \E p \in Clients : at[p] = s /\ connection[p] \in {"accepted", "opening"}

\* A server that has ended is kept by _httpd and by the threads of its probes.
Listening(s) == Up(s) \/ (loop[s] = "ended" /\ (httpd = s \/ Answering(s)))

-----------------------------------------------------------------------------
(* The main thread: make_filter, start, stop.                              *)

MakeFilter ==
    /\ made < MaxStarts
    /\ MainGoto("idle", "wire")
    /\ due' = registered
    /\ UNCHANGED <<wiring, taken, httpd, made, attached, asked, inTime, forgotten,
                   loop, connections>>

\* Mutant: the database is given to the server only.
WireServer ==
    /\ MainGoto("wire", "bind")
    /\ UNCHANGED <<wiring, taken, servers, loop, connections>>

Wire ==
    /\ MainGoto("wire", "bind")
    /\ database' = (database \/ registered)
    /\ UNCHANGED <<registered, taken, servers, loop, connections>>

CanBind == ~taken /\ \A s \in Servers : ~Listening(s)

\* The constructor binds and listens.
Bind ==
    /\ CanBind
    /\ MainGoto("bind", "attach")
    /\ made' = made + 1
    /\ httpd' = made + 1
    /\ loop' = [loop EXCEPT ![made + 1] = "bound"]
    /\ inTime' = IF due THEN inTime \cup {made + 1} ELSE inTime
    /\ UNCHANGED <<wiring, taken, attached, asked, due, forgotten, connections>>

\* OSError: whatever server there was is forgotten.
CannotBind ==
    /\ ~CanBind
    /\ MainGoto("bind", "idle")
    /\ httpd' = Nothing
    /\ forgotten' = forgotten \cup {s \in Servers : Up(s)}
    /\ UNCHANGED <<wiring, taken, made, attached, asked, due, inTime, loop, connections>>

Attach ==
    /\ MainGoto("attach", "run")
    /\ attached' = attached \cup {httpd}
    /\ UNCHANGED <<wiring, taken, httpd, made, asked, due, inTime, forgotten,
                   loop, connections>>

Run ==
    /\ MainGoto("run", "idle")
    /\ loop' = [loop EXCEPT ![httpd] = "starting"]
    /\ UNCHANGED <<wiring, taken, servers, connections>>

\* Mutant: shutdown is not waited for.
ShutdownNoWait ==
    /\ httpd # Nothing
    /\ MainGoto("idle", "idle")
    /\ asked' = asked \cup {httpd}
    /\ httpd' = Nothing
    /\ UNCHANGED <<wiring, taken, made, attached, due, inTime, forgotten,
                   loop, connections>>

\* stop() without a server does nothing.
Shutdown ==
    /\ httpd # Nothing
    /\ MainGoto("idle", "stop")
    /\ asked' = asked \cup {httpd}
    /\ UNCHANGED <<wiring, taken, httpd, made, attached, due, inTime, forgotten,
                   loop, connections>>

Stopped ==
    /\ MainGoto("stop", "idle")
    /\ loop[httpd] = "ended"
    /\ httpd' = Nothing
    /\ UNCHANGED <<wiring, taken, made, attached, asked, due, inTime, forgotten,
                   loop, connections>>

-----------------------------------------------------------------------------
(* The server's thread.                                                    *)

ServeForever(s) ==
    /\ loop[s] = "starting"
    /\ loop' = [loop EXCEPT ![s] = "serving"]
    /\ UNCHANGED <<wiring, taken, main, servers, connections>>

Accept(p) ==
    /\ connection[p] = "connected" /\ loop[at[p]] = "serving"
    /\ connection' = [connection EXCEPT ![p] = "accepted"]
    /\ UNCHANGED <<wiring, taken, main, servers, loop, at>>

\* Mutant: no ThreadingMixIn, the loop answers the probes itself.
EndAfterProbes(s) ==
    /\ loop[s] = "serving" /\ s \in asked /\ ~Answering(s)
    /\ loop' = [loop EXCEPT ![s] = "ended"]
    /\ UNCHANGED <<wiring, taken, main, servers, connections>>

End(s) ==
    /\ loop[s] = "serving" /\ s \in asked
    /\ loop' = [loop EXCEPT ![s] = "ended"]
    /\ UNCHANGED <<wiring, taken, main, servers, connections>>

-----------------------------------------------------------------------------
(* Probes.                                                                 *)

Connect(p) ==
    /\ connection[p] = "away"
    /\ \E s \in Servers :
          Listening(s) /\ at' = [at EXCEPT ![p] = s]
    /\ connection' = [connection EXCEPT ![p] = "connected"]
    /\ UNCHANGED <<wiring, taken, main, servers, loop>>

\* The client's timeout, or the socket it waits at is closed.
GiveUp(p) ==
    /\ connection[p] = "connected"
    /\ connection' = [connection EXCEPT ![p] = "away"]
    /\ at' = [at EXCEPT ![p] = Nothing]
    /\ UNCHANGED <<wiring, taken, main, servers, loop>>

\* db.open() is called; it may never return.
Open(p) ==
    /\ connection[p] = "accepted" /\ registered /\ database
    /\ connection' = [connection EXCEPT ![p] = "opening"]
    /\ UNCHANGED <<wiring, taken, main, servers, loop, at>>

\* No check to run, no database reference, or the verdict of the ZODB.
Answer(p) ==
    /\ \/ connection[p] = "accepted" /\ ~(registered /\ database)
       \/ connection[p] = "opening"
    /\ connection' = [connection EXCEPT ![p] = "away"]
    /\ at' = [at EXCEPT ![p] = Nothing]
    /\ UNCHANGED <<wiring, taken, main, servers, loop>>

-----------------------------------------------------------------------------
(* The environment.                                                        *)

RegisterCheck ==
    /\ ~registered /\ registered' = TRUE
    /\ UNCHANGED <<database, taken, main, servers, loop, connections>>

\* Our own listening sockets keep others from the port.
OtherProcess ==
    /\ taken \/ \A s \in Servers : ~Listening(s)
    /\ taken' = ~taken
    /\ UNCHANGED <<wiring, main, servers, loop, connections>>

MainStep == Wire \/ Bind \/ CannotBind \/ Attach \/ Run \/ Stopped
LoopStep(s) == ServeForever(s) \/ End(s)

LifecycleNext ==
    \/ MakeFilter \/ MainStep \/ Shutdown
    \/ \E s \in Servers : LoopStep(s)
    \/ \E p \in Clients : Connect(p) \/ Accept(p) \/ GiveUp(p) \/ Open(p) \/ Answer(p)
    \/ RegisterCheck \/ OtherProcess

LifecycleSpec == LifecycleInit /\ [][LifecycleNext]_lifecycleVars

\* Threads run; nothing is assumed of clients, of the database, or of anybody
\* calling start and stop.
LifecycleFairSpec ==
    /\ LifecycleSpec
    /\ WF_lifecycleVars(MainStep)
    /\ \A s \in Servers : WF_lifecycleVars(LoopStep(s))

-----------------------------------------------------------------------------

LifecycleTypeOK ==
    /\ registered \in BOOLEAN /\ database \in BOOLEAN /\ taken \in BOOLEAN
    /\ due \in BOOLEAN
    /\ main \in {"idle", "wire", "bind", "attach", "run", "stop"}
    /\ made \in 0..MaxStarts
    /\ httpd \in 0..made
    /\ main \in {"attach", "run", "stop"} => httpd # Nothing
    /\ attached \subseteq 1..made /\ asked \subseteq 1..made
    /\ inTime \subseteq 1..made /\ forgotten \subseteq 1..made
    /\ loop \in [Servers -> {"none", "bound", "starting", "serving", "ended"}]
    /\ connection \in [Clients -> {"away", "connected", "accepted", "opening"}]
    /\ at \in [Clients -> 0..made]

(* However early a client connects, it is answered by a server that knows   *)
(* its HealthServer; and if the check was registered when make_filter was   *)
(* called, the server that this call started answers with a check that has  *)
(* its database: the wiring is over before the socket is bound.             *)
AnswersWhenWired ==
    \A p \in Clients : connection[p] \in {"accepted", "opening"} =>
        at[p] \in attached /\ (at[p] \in inTime => database)

(* Never are two servers up, and one that is up is the one that stop()      *)
(* shuts down.  A server is lost to stop() in one way only: a start() that  *)
(* could not bind while it was up has cleared the reference to it.          *)
OnlyOneServesAndCanBeStopped ==
    \A s \in Servers : Up(s) =>
        (s = httpd \/ s \in forgotten) /\ \A t \in Servers : Up(t) => t = s

(* stop() returns also while probes hang in db.open() for ever.             *)
StopReturns == main = "stop" ~> main = "idle"

=============================================================================
