----------------------------- MODULE MetricsView -----------------------------
(***************************************************************************)
(* One scrape of @@metrics (metrics/view.py): the access check of          *)
(* AccessControl, the choice of a formatter, the providers one after the   *)
(* other, whatever they raise, and the formatter                           *)
(* (metrics/formatters.py).                                                *)
(*                                                                         *)
(* A provider is what its collect() may yield: a sequence of samples, of   *)
(* which an exception leaves the first few in the list.  Names of metrics  *)
(* are shortened, and values left out, but for the request maximum: the    *)
(* provider takes it out of the tracker, where workers keep recording.     *)
(***************************************************************************)
EXTENDS AccessControl, SequencesExt

CONSTANTS
    Orders,      \* orders in which the registry may return the providers
    Faulty,      \* providers that may raise
    SiteCount,   \* Plone sites
    MaxDuration  \* bound on the duration of a request

AuthClasses == <<"authenticated", "anonymous">>
Auth == {"authenticated", "anonymous"}

\* Adapters are registered under names; a name is found once.
ASSUME ViewAssumption ==
    /\ SiteCount \in Nat /\ MaxDuration \in Nat
    /\ \A o \in Orders : o \in Seq(ToSet(o)) /\ IsInjective(o)

VARIABLES
    vpc,         \* where the view is
    order,       \* the providers still to be asked
    turn,        \* the request provider's loop over AUTH_CLASSES
    metrics,     \* the list
    formatter,   \* the formatter chosen
    raised,      \* providers that have raised
    status,      \* of the response: 200, 403, 500, or "raised" if the view has
    body,        \* its lines
    maximum,     \* the tracker's max_duration
    worst        \* the longest request since the last scrape (history)

tracker == <<maximum, worst>>
response == <<status, body>>
scrape == <<vpc, order, turn, metrics, formatter, raised>>
viewVars == <<vars, scrape, response, tracker>>

Sample(p, family) ==
    [by |-> p, family |-> family, auth |-> "", value |-> 0, printable |-> TRUE]

ViewInit ==
    /\ Init
    /\ vpc = "access"
    /\ order = <<>> /\ turn = 1 /\ metrics = <<>> /\ raised = {}
    /\ formatter = "none" /\ status = "none" /\ body = <<>>
    /\ maximum = [a \in Auth |-> 0]
    /\ worst = [a \in Auth |-> 0]

-----------------------------------------------------------------------------
(* What each provider may yield.                                           *)

\* Without /proc the resident set size is left out.
SystemYields == {<<"rss", "rss_peak", "cpu">>, <<"rss_peak", "cpu">>}

RuntimeYields == {<<"uptime", "info", "threads">>}

\* One sample for conflicts that were retried, one for those given up.
ConflictYields == {<<"conflicts", "conflicts">>}

\* The context has no database; no monitor could be installed; or all there is.
ZODBYields ==
    LET gauges == <<"object_count", "db_size", "connections", "idle", "pool_size",
                    "cache_size", "cache_bytes">>
    IN  {<<>>, gauges, gauges \o <<"loads", "stores">>}

\* Per site, whichever of the two indexes its catalog has.
ContentYields ==
    LET lists == {<<>>, <<"by_type">>, <<"by_state">>, <<"by_type", "by_state">>}
    IN  {FlattenSeq(sites) : sites \in [1..SiteCount -> lists]}

\* A provider of another package.
AddonYields == {<<"addon">>, <<"odd">>}

RequestFamilies == <<"total", "sum", "count", "max", "bucket", "errors">>

\* One class of the request provider, with the maximum v.
RequestSamples(a, v) ==
    [n \in DOMAIN RequestFamilies |->
        [Sample("request", RequestFamilies[n]) EXCEPT
            !.auth = a, !.value = IF RequestFamilies[n] = "max" THEN v ELSE 0]]

Families(p) ==
    CASE p = "system" -> SystemYields
      [] p = "zope_runtime" -> RuntimeYields
      [] p = "conflict" -> ConflictYields
      [] p = "zodb" -> ZODBYields
      [] p = "content" -> ContentYields
      [] OTHER -> AddonYields

\* Both classes, the one after the other.
RequestYields ==
    {RequestSamples(AuthClasses[1], v[1]) \o RequestSamples(AuthClasses[2], v[2]) :
        v \in [1..2 -> 0..MaxDuration]}

Yields(p) ==
    IF p = "request" THEN RequestYields
    ELSE {[n \in DOMAIN f |-> [Sample(p, f[n]) EXCEPT !.printable = (f[n] # "odd")]] :
             f \in Families(p)}

-----------------------------------------------------------------------------
(* Access, and the choice of a formatter.                                  *)

CheckAccess ==
    /\ vpc = "access" /\ pc # "done"
    /\ Next
    /\ UNCHANGED <<scrape, response, tracker>>

\* is_allowed has returned or raised; its arguments and locals are gone.
Return ==
    /\ allowlist' = {} /\ trusted' = {} /\ peer' = Junk /\ forwarded' = <<>>
    /\ pc' = "allowlist" /\ i' = 0 /\ client' = Junk /\ answer' = FALSE

Forbid ==
    /\ vpc = "access" /\ pc = "done" /\ ~answer
    /\ Return
    /\ vpc' = "sent" /\ status' = "403"
    /\ UNCHANGED <<order, turn, metrics, formatter, raised, body, tracker>>

\* A list of networks cannot be read: the exception is the publisher's.
AccessRaises ==
    /\ vpc = "access" /\ pc = "raised"
    /\ Return
    /\ vpc' = "sent" /\ status' = "raised"
    /\ UNCHANGED <<order, turn, metrics, formatter, raised, body, tracker>>

Admit ==
    /\ vpc = "access" /\ pc = "done" /\ answer
    /\ Return
    /\ vpc' = "choose"
    /\ UNCHANGED <<order, turn, metrics, formatter, raised, response, tracker>>

\* The query parameter, then the Accept header, then the default, each if
\* there is such a formatter.
Chosen(parameter, accept, available) ==
    IF parameter \in available THEN parameter
    ELSE IF accept = "json" /\ "json" \in available THEN "json"
    ELSE IF "prometheus" \in available THEN "prometheus" ELSE "none"

\* _get_formatter, for any request and any registered formatters.
Choose(parameter, accept, available) ==
    /\ vpc = "choose"
    /\ formatter' = Chosen(parameter, accept, available)
    /\ IF formatter' = "none"
       THEN vpc' = "sent" /\ status' = "500" /\ UNCHANGED order
       ELSE vpc' = "collect" /\ order' \in Orders /\ UNCHANGED status
    /\ UNCHANGED <<vars, turn, metrics, raised, body, tracker>>

-----------------------------------------------------------------------------
(* The loop over the providers.                                            *)

Asking(p) == vpc = "collect" /\ order # <<>> /\ Head(order) = p

\* metrics.extend(provider.collect())
Collect(p) ==
    /\ Asking(p) /\ p # "request"
    /\ \E y \in Yields(p) : metrics' = metrics \o y
    /\ order' = Tail(order)
    /\ UNCHANGED <<vars, vpc, turn, formatter, raised, response, tracker>>

\* Mutant: an exception ends the loop.
RestNone == <<>>

\* "except Exception": the next provider is asked.
Rest == Tail(order)

\* What had been yielded before the exception is in the list.
CollectRaises(p) ==
    /\ Asking(p) /\ p \in Faulty \ {"request"}
    /\ \E y \in Yields(p) : \E s \in Prefixes(y) : metrics' = metrics \o s
    /\ raised' = raised \cup {p}
    /\ order' = Rest
    /\ UNCHANGED <<vars, vpc, turn, formatter, response, tracker>>

\* getAdapters() is a generator: it creates the next provider when the loop
\* asks for it, outside the try.
AdapterRaises(p) ==
    /\ Asking(p) /\ p \in Faulty /\ turn = 1
    /\ vpc' = "sent" /\ status' = "raised"
    /\ UNCHANGED <<vars, order, turn, metrics, formatter, raised, body, tracker>>

\* Mutant: the maxima of both classes are reset.
TakeAll(a) == [b \in Auth |-> 0]

\* take_max, under the tracker's lock.
Take(a) == [maximum EXCEPT ![a] = 0]

CollectRequest ==
    /\ Asking("request")
    /\ metrics' = metrics \o RequestSamples(AuthClasses[turn], maximum[AuthClasses[turn]])
    /\ maximum' = Take(AuthClasses[turn])
    /\ IF turn < Len(AuthClasses)
       THEN turn' = turn + 1 /\ UNCHANGED order
       ELSE turn' = 1 /\ order' = Tail(order)
    /\ UNCHANGED <<vars, vpc, formatter, raised, response, worst>>

\* An exception in the middle of a class, after n of its samples; the maximum
\* has been taken if it is among them.
CollectRequestRaises(n) ==
    LET a == AuthClasses[turn] IN
    /\ Asking("request") /\ "request" \in Faulty
    /\ metrics' = metrics \o SubSeq(RequestSamples(a, maximum[a]), 1, n)
    /\ maximum' = IF \E k \in 1..n : RequestFamilies[k] = "max" THEN Take(a) ELSE maximum
    /\ turn' = 1
    /\ raised' = raised \cup {"request"}
    /\ order' = Rest
    /\ UNCHANGED <<vars, vpc, formatter, response, worst>>

\* A worker's request ends: record() under the tracker's lock.
Record(a, duration) ==
    /\ vpc # "sent"
    /\ maximum' = [maximum EXCEPT ![a] = IF duration > @ THEN duration ELSE @]
    /\ worst' = [worst EXCEPT ![a] = IF duration > @ THEN duration ELSE @]
    /\ UNCHANGED <<vars, scrape, response>>

-----------------------------------------------------------------------------
(* Formatting.                                                             *)

Header(m) == <<"header", m.family>>
Line(m) == <<"sample", m.family, m.auth, m.value>>

\* Mutant: a header whenever the name differs from the one before.
PrintedByChange(out, m) ==
    IF out # <<>> /\ out[Len(out)][2] = m.family THEN Append(out, Line(m))
    ELSE out \o <<Header(m), Line(m)>>

\* HELP and TYPE for a name not yet in "seen".
Printed(out, m) ==
    IF \E n \in DOMAIN out : out[n] = Header(m) THEN Append(out, Line(m))
    ELSE out \o <<Header(m), Line(m)>>

\* PrometheusFormatter.format.
Lines(ms) == FoldLeft(Printed, <<>>, ms)

\* JSONFormatter.format: one object per sample.
Objects(ms) == [n \in DOMAIN ms |-> Line(ms[n])]

Format ==
    /\ vpc = "collect" /\ order = <<>>
    /\ \A n \in DOMAIN metrics : metrics[n].printable
    /\ vpc' = "sent" /\ status' = "200"
    /\ body' = IF formatter = "json" THEN Objects(metrics) ELSE Lines(metrics)
    /\ UNCHANGED <<vars, order, turn, metrics, formatter, raised, tracker>>

\* A value that is no number: int(), or json.dumps, raises.  Which values
\* each formatter can print is not told apart.
FormatRaises ==
    /\ vpc = "collect" /\ order = <<>>
    /\ \E n \in DOMAIN metrics : ~metrics[n].printable
    /\ vpc' = "sent" /\ status' = "raised"
    /\ UNCHANGED <<vars, order, turn, metrics, formatter, raised, body, tracker>>

ViewNext ==
    \/ CheckAccess \/ Forbid \/ AccessRaises \/ Admit
    \/ \E parameter \in {"none", "prometheus", "json"}, accept \in {"any", "json"},
          available \in SUBSET {"prometheus", "json"} : Choose(parameter, accept, available)
    \/ \E o \in Orders : \E p \in ToSet(o) : Collect(p) \/ CollectRaises(p) \/ AdapterRaises(p)
    \/ CollectRequest
    \/ \E n \in 0..Len(RequestFamilies) : CollectRequestRaises(n)
    \/ \E a \in Auth, duration \in 1..MaxDuration : Record(a, duration)
    \/ Format \/ FormatRaises

ViewSpec == ViewInit /\ [][ViewNext]_viewVars

-----------------------------------------------------------------------------

ViewTypeOK ==
    /\ TypeOK
    /\ vpc \in {"access", "choose", "collect", "sent"}
    /\ vpc = "sent" <=> status # "none"
    /\ turn \in DOMAIN AuthClasses
    /\ formatter \in {"none", "prometheus", "json"}
    /\ vpc = "collect" => formatter # "none"
    /\ maximum \in [Auth -> 0..MaxDuration]
    /\ body # <<>> => status = "200"

\* The maxima of a class that the scrape has taken.
Taken(a) ==
    {m.value : m \in {m \in ToSet(metrics) : m.auth = a /\ m.family = "max"}}

(* take_max resets what it reads.  Still, the longest request of a window   *)
(* is in the tracker or in the list that is answered, whether the scrape is *)
(* refused, a provider fails, the request provider itself in the middle of  *)
(* a class, or requests end while it runs.  It is lost only if the view     *)
(* raises after it was taken: a formatter, or an adapter factory.           *)
NoMaximumIsLost ==
    \A a \in Auth :
        /\ worst[a] \in {maximum[a]} \cup Taken(a)
        /\ status \in {"403", "500"} => maximum[a] = worst[a]
        /\ status = "200" /\ worst[a] # maximum[a] =>
               <<"sample", "max", a, worst[a]>> \in ToSet(body)

\* From the first sample of p in the list to the last one.
Contribution(p) ==
    LET places == {n \in DOMAIN metrics : metrics[n].by = p}
    IN  IF places = {} THEN <<>> ELSE SubSeq(metrics, Min(places), Max(places))

(* test_metrics_view.py:147: a failing provider is skipped.  All that the   *)
(* others yield is in the list, and what it yielded itself, as far as it    *)
(* came.                                                                    *)
ProvidersAreIsolated ==
    formatter # "none" /\ order = <<>> =>
        \E o \in Orders : \A p \in ToSet(o) :
            IF p \in raised
            THEN \E y \in Yields(p) : IsPrefix(Contribution(p), y)
            ELSE Contribution(p) \in Yields(p)

SamplesUpTo(n) == Cardinality({k \in 1..n : body[k][1] = "sample"})

(* The text format: each name is announced once, before its samples, also   *)
(* when these are apart from each other (two sites, two classes).           *)
EachNameIsAnnouncedOnce ==
    status = "200" /\ formatter = "prometheus" =>
        /\ \A n \in DOMAIN body : body[n][1] = "sample" =>
              \E h \in 1..n :
                 \A k \in DOMAIN body : body[k] = <<"header", body[n][2]>> <=> k = h
        /\ SamplesUpTo(Len(body)) = Len(metrics)
        /\ \A n \in DOMAIN body : body[n][1] = "sample" =>
              body[n] = Line(metrics[SamplesUpTo(n)])

=============================================================================
