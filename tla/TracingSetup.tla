----------------------------- MODULE TracingSetup -----------------------------
(***************************************************************************)
(* What the tracing filter switches on when a pipeline is built            *)
(* (otel/wsgi.py, otel/provider.py), possibly more than once, and what can *)
(* be switched off again: the patches of Patching, the wrapper around      *)
(* plone.subrequest (otel/subrequest.py) and the instrumentors of I/O      *)
(* libraries (otel/instrumentors.py).  A patched manager's render wraps    *)
(* the render of each of its children (otel/rendering.py).                 *)
(*                                                                         *)
(* The commit tracer, which is registered along with setstate's patch, is  *)
(* part of RequestTracing.                                                 *)
(***************************************************************************)
EXTENDS Patching, FiniteSets

CONSTANTS
    Libraries,   \* what there are instrumentors for
    MaxRenders   \* bound on the renderings of one manager

VARIABLES
    providers,   \* tracer providers set up so far; _ACTIVE is providers > 0
    \* plone.subrequest
    imported,    \* caller modules that have been imported
    registered,  \* _registered
    tracedCalls, \* the wrappers around each caller module's subrequest
    late,        \* plone.app.blocks was imported after registration (history)
    \* instrumentors
    usable,      \* libraries installed along with their instrumentors, none
                 \* if they are not switched on
    done,        \* _done
    listed,      \* _enabled
    on,          \* libraries that are instrumented
    stuck,       \* libraries whose uninstrument() has failed (history)
    \* one manager of each class, in the current request
    renders,     \* how often it has been rendered
    wrapped,     \* the wrappers around its children's render
    spans        \* spans of its last rendering

subrequests == <<imported, registered, tracedCalls, late>>
instrumentors == <<usable, done, listed, on, stuck>>
rendering == <<renders, wrapped, spans>>
setupVars == <<patches, providers, subrequests, instrumentors, rendering>>

CallerModules == {"plone.subrequest", "plone.app.blocks.utils"}
NoSpans == [manager |-> 0, child |-> 0]

SetupInit ==
    /\ PatchingInit
    /\ providers = 0
    /\ imported \in {{}, CallerModules}
    /\ registered = FALSE
    /\ tracedCalls = [m \in CallerModules |-> 0]
    /\ late = FALSE
    /\ usable \in SUBSET Libraries
    /\ done = FALSE /\ listed = {} /\ on = {} /\ stuck = {}
    /\ renders = [v \in Managers |-> 0]
    /\ wrapped = [v \in Managers |-> 0]
    /\ spans = [v \in Managers |-> NoSpans]

-----------------------------------------------------------------------------
(* plone.subrequest: hooks that run when a caller module is imported, at    *)
(* once for those that are.                                                *)

\* Mutant: the flag is not set.
RegisterAgain ==
    /\ registered' = registered
    /\ tracedCalls' = [m \in CallerModules |->
                          tracedCalls[m] + IF m \in imported THEN 1 ELSE 0]
    /\ UNCHANGED <<imported, late>>

Register ==
    /\ registered' = TRUE
    /\ tracedCalls' = [m \in CallerModules |->
                          tracedCalls[m] + IF m \in imported /\ ~registered THEN 1 ELSE 0]
    /\ UNCHANGED <<imported, late>>

\* plone.app.blocks.utils imports the function of plone.subrequest by name.
Import(m) ==
    LET hook == IF registered THEN 1 ELSE 0
        sub == IF "plone.subrequest" \in imported
               THEN tracedCalls["plone.subrequest"] ELSE hook
    IN  /\ m \notin imported
        /\ imported' = imported \cup {m, "plone.subrequest"}
        /\ tracedCalls' = [n \in CallerModules |->
                              IF n \in imported \/ n \notin imported' THEN tracedCalls[n]
                              ELSE IF n = "plone.subrequest" THEN sub ELSE sub + hook]
        /\ late' = (late \/ (registered /\ m = "plone.app.blocks.utils"))
        /\ UNCHANGED <<patches, providers, registered, instrumentors, rendering>>

-----------------------------------------------------------------------------
(* Instrumentors of other libraries.                                       *)

\* Mutant: a failing instrumentor is remembered all the same.
EnableAll(failing) ==
    IF done \/ usable = {} THEN UNCHANGED instrumentors
    ELSE /\ done' = TRUE
         /\ listed' = usable
         /\ on' = on \cup (usable \ failing)
         /\ UNCHANGED <<usable, stuck>>

\* instrument() of a library that is instrumented already does nothing.
Enable(failing) ==
    IF done \/ usable = {} THEN UNCHANGED instrumentors
    ELSE /\ done' = TRUE
         /\ listed' = usable \ failing
         /\ on' = on \cup (usable \ failing)
         /\ UNCHANGED <<usable, stuck>>

Disable(failing) ==
    /\ listed' = {}
    /\ on' = on \ (listed \ failing)
    /\ stuck' = (stuck \cup (listed \cap failing)) \ (listed \ failing)
    /\ done' = FALSE
    /\ UNCHANGED <<usable, patches, providers, subrequests, rendering>>

-----------------------------------------------------------------------------

SetupTracing == providers' = IF providers > 0 THEN providers ELSE 1

\* Tracing is enabled and the exporter is installed.  Otherwise the filter only
\* wraps the application, or raises before it has done anything.
MakeFilter(failing) ==
    /\ SetupTracing
    /\ Instrument(Packages)
    /\ Register
    /\ Enable(failing)
    /\ UNCHANGED rendering

-----------------------------------------------------------------------------
(* Rendering, in requests that are traced ("active") or not.               *)

\* A manager with its viewlets or portlets is made for every request.
Update(v) ==
    /\ renders[v] > 0
    /\ renders' = [renders EXCEPT ![v] = 0]
    /\ wrapped' = [wrapped EXCEPT ![v] = 0]
    /\ spans' = [spans EXCEPT ![v] = NoSpans]
    /\ UNCHANGED <<patches, providers, subrequests, instrumentors>>

\* Mutant: the children are wrapped before _active() is asked.
WrapChildren(v, active, children) ==
    IF children THEN Cardinality(Traced(Resolve(v, "render"))) ELSE 0

\* No children: a head manager, or portletsToShow() has raised.
WrapsAdded(v, active, children) ==
    IF active /\ children THEN Cardinality(Traced(Resolve(v, "render"))) ELSE 0

Render(v, active, children) ==
    /\ v \in importable /\ renders[v] < MaxRenders
    /\ renders' = [renders EXCEPT ![v] = @ + 1]
    /\ wrapped' = [wrapped EXCEPT ![v] = @ + WrapsAdded(v, active, children)]
    /\ spans' = [spans EXCEPT ![v] =
                    [manager |-> IF active THEN Cardinality(Traced(Resolve(v, "render"))) ELSE 0,
                     child |-> wrapped'[v]]]
    /\ UNCHANGED <<patches, providers, subrequests, instrumentors>>

-----------------------------------------------------------------------------

SetupNext ==
    \/ \E failing \in SUBSET Libraries : MakeFilter(failing) \/ Disable(failing)
    \/ \E m \in CallerModules : Import(m)
    \/ Patch /\ UNCHANGED <<providers, subrequests, instrumentors, rendering>>
    \/ \E v \in Managers :
          Update(v) \/ (\E active, children \in BOOLEAN : Render(v, active, children))

SetupSpec == SetupInit /\ [][SetupNext]_setupVars

-----------------------------------------------------------------------------

(* What is instrumented can be switched off: disable() works through a list *)
(* of what has been instrumented, whichever instrumentors fail on the way,  *)
(* and only what has failed to switch off stays on.                         *)
InstrumentorsAreListed == listed \subseteq on /\ on \subseteq listed \cup stuck

(* Types; there is one tracer provider however many filters are made.       *)
SetupTypeOK ==
    /\ PatchingTypeOK
    /\ providers \in 0..1
    /\ imported \subseteq CallerModules
    /\ tracedCalls \in [CallerModules -> Nat]
    /\ listed \subseteq usable /\ stuck \subseteq usable /\ on \subseteq usable
    /\ wrapped \in [Managers -> Nat]

(* subrequest.py:1: a span per subrequest call, from whichever module.  A   *)
(* module that takes over the traced function by name when it is imported   *)
(* after registration traces its calls twice.                               *)
OneSpanPerSubrequest ==
    \A m \in imported :
        tracedCalls[m] = IF ~registered THEN 0
                         ELSE IF late /\ m = "plone.app.blocks.utils" THEN 2 ELSE 1

(* rendering.py:6-7: in a manager that is rendered once, a child's span is  *)
(* within its manager's; each further rendering adds at most one.           *)
ChildSpansNest ==
    \A v \in Managers :
        /\ spans[v].child <= renders[v]
        /\ renders[v] <= 1 => spans[v].child <= spans[v].manager

=============================================================================
