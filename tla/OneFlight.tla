----------------------------- MODULE OneFlight -----------------------------
(***************************************************************************)
(* What HealthServer.check_readiness promises its callers, without the     *)
(* clock, the lock or the running mark: at most one caller at a time is    *)
(* out evaluating the checks; a caller is told either the result that is   *)
(* published at that moment or, only while somebody is out, "not ready".   *)
(* A flight that fails publishes nothing and can be followed by another.   *)
(***************************************************************************)
CONSTANTS
    Callers,   \* threads that call check_readiness
    Results,   \* what a completed run may say
    NotReady,  \* the answer when there is nothing to serve
    None       \* nothing published, nothing answered

VARIABLES
    flight,     \* callers out evaluating the checks
    published,  \* the result of the last completed flight
    reply       \* what each caller has just been told

flightVars == <<flight, published, reply>>

FlightInit ==
    /\ flight = {}
    /\ published = None
    /\ reply = [t \in Callers |-> None]

Launch(t) ==
    /\ flight = {}
    /\ flight' = {t}
    /\ UNCHANGED <<published, reply>>

Land(t, r) ==
    /\ flight = {t}
    /\ flight' = {}
    /\ published' = r
    /\ reply' = [reply EXCEPT ![t] = r]

Fail(t) ==
    /\ flight = {t}
    /\ flight' = {}
    /\ UNCHANGED <<published, reply>>

Serve(t) ==
    /\ t \notin flight
    /\ published # None
    /\ reply' = [reply EXCEPT ![t] = published]
    /\ UNCHANGED <<flight, published>>

Refuse(t) ==
    /\ t \notin flight
    /\ flight # {}
    /\ reply' = [reply EXCEPT ![t] = NotReady]
    /\ UNCHANGED <<flight, published>>

\* The caller has used its answer.
Forget(t) ==
    /\ reply' = [reply EXCEPT ![t] = None]
    /\ UNCHANGED <<flight, published>>

FlightNext ==
    \E t \in Callers :
        \/ Launch(t) \/ Fail(t) \/ Serve(t) \/ Refuse(t) \/ Forget(t)
        \/ \E r \in Results : Land(t, r)

FlightSpec == FlightInit /\ [][FlightNext]_flightVars

=============================================================================
