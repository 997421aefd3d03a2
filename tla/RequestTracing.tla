--------------------------- MODULE RequestTracing ---------------------------
(***************************************************************************)
(* The spans of a Zope request (otel/pubevents.py, otel/transformchain.py, *)
(* otel/zodb.py, otel/exclusions.py) and the conflict counter              *)
(* (metrics/providers/conflict.py).  All of them are subscribers: spans    *)
(* are opened in one callback and ended in another, and wait meanwhile in  *)
(* request.environ, in CommitTracer._spans and in the thread's             *)
(* OpenTelemetry context.                                                  *)
(*                                                                         *)
(* The publisher, the transformer and the transaction package call them    *)
(* back in an order of their own, with retries, swallowed exceptions and   *)
(* failing commits; that order is modelled as the subscribers' docstrings  *)
(* describe it, and is external to the package.                            *)
(***************************************************************************)
EXTENDS Integers, Sequences, FiniteSets

CONSTANTS
    Threads,        \* WSGI threads
    Registered,     \* threads on which CommitTracer has been registered
    MaxRetries,     \* request.retry_max_count
    MaxTransforms,  \* bound on the transforms of a chain
    MaxRequests,    \* bound on the requests of a behaviour
    MayRaise,       \* whether subscribers and synchronizers of others may raise
    Addresses,      \* what id() says of a transaction
    None            \* no such key, no exception, no token, no transaction

ASSUME TracingAssumption ==
    /\ Registered \subseteq Threads
    /\ MaxRetries \in Nat /\ MaxTransforms \in Nat /\ MaxRequests \in Nat
    /\ MayRaise \in BOOLEAN

Kinds == {"publish", "transformchain", "transform", "commit", "subrequest", "catalog"}
Contexts == {"outer", "publish", "suppressed"}

ASSUME TracingNoneAssumption ==
    None \notin Contexts \cup {"conflict", "error", "ok"} \cup Nat \cup Addresses

VARIABLES
    enabled,     \* is_enabled()
    context,     \* the thread's OpenTelemetry context
    \* request.environ, one variable per key
    span,        \* _SPAN_KEY is set
    token,       \* _TOKEN_KEY: the context that detaching restores
    baseline,    \* _ZODB_BASELINE_KEY is set
    chain,       \* _CHAIN_SPAN_KEY is set
    single,      \* _SINGLE_SPAN_KEY is set
    chainCount,  \* _CHAIN_COUNT_KEY
    commitSpans, \* the keys of CommitTracer._spans, for all threads
    counts,      \* ConflictTracker.counts
    \* the publisher
    pc,          \* where the request is
    path,        \* what is_excluded says of PATH_INFO
    exc,         \* the exception on its way out
    attempt,     \* how often the request has been retried
    ran,         \* transforms run by this attempt
    transaction, \* the address of the thread's transaction
    requests,    \* requests so far
    \* history, read by no action
    live,        \* spans started and not ended, by kind
    emitted,     \* kinds of spans started during this attempt
    closed,      \* how the publish spans of this attempt were ended
    stage,       \* which of on_pub_start and on_pub_success it has called
    broken,      \* commits of the thread broken off with their span in _spans
    retried,     \* attempts repeated because of a conflict
    gaveUp       \* requests that ended with a conflict

environ == <<span, token, baseline, chain, single, chainCount>>
publisher == <<pc, path, exc, attempt, ran, requests, transaction>>
ends == <<retried, gaveUp>>
history == <<live, emitted, closed, stage, broken, ends>>
vars == <<enabled, context, environ, commitSpans, counts, publisher, history>>

Init ==
    /\ enabled \in BOOLEAN
    /\ context = [t \in Threads |-> "outer"]
    /\ span = [t \in Threads |-> FALSE]
    /\ token = [t \in Threads |-> None]
    /\ baseline = [t \in Threads |-> FALSE]
    /\ chain = [t \in Threads |-> FALSE]
    /\ single = [t \in Threads |-> FALSE]
    /\ chainCount = [t \in Threads |-> None]
    /\ commitSpans = {}
    /\ counts = [r \in BOOLEAN |-> 0]
    /\ pc = [t \in Threads |-> "idle"]
    /\ path = [t \in Threads |-> "traced"]
    /\ exc = [t \in Threads |-> None]
    /\ attempt = [t \in Threads |-> 0]
    /\ ran = [t \in Threads |-> 0]
    /\ transaction = [t \in Threads |-> None]
    /\ requests = 0
    /\ live = [t \in Threads |-> [k \in Kinds |-> 0]]
    /\ emitted = [t \in Threads |-> {}]
    /\ closed = [t \in Threads |-> <<>>]
    /\ stage = [t \in Threads |-> "unseen"]
    /\ broken = [t \in Threads |-> 0]
    /\ retried = 0
    /\ gaveUp = 0

Goto(t, from, to) == pc[t] = from /\ pc' = [pc EXCEPT ![t] = to]

Suppressed(t) == context[t] = "suppressed"
Tracing(t) == enabled /\ ~Suppressed(t)

\* History: a span of a kind is started, or ended.
Opened(t, kind) ==
    /\ live' = [live EXCEPT ![t][kind] = @ + 1]
    /\ emitted' = [emitted EXCEPT ![t] = @ \cup {kind}]

Ended(t, popped) ==
    live' = [live EXCEPT ![t] = [k \in Kinds |-> IF k \in popped THEN @[k] - 1 ELSE @[k]]]

\* History: on_pub_start, or on_pub_success, has been called.
Staged(t, s) == stage' = [stage EXCEPT ![t] = s]

\* A new transaction: at no address at which there is another one, but
\* perhaps where there was one.
Begin(t) ==
    \E a \in Addresses \ {transaction[u] : u \in Threads} :
        transaction' = [transaction EXCEPT ![t] = a]

-----------------------------------------------------------------------------
(* The request arrives and IPubStart is notified (pubevents.on_pub_start). *)

Arrive(t, p) ==
    /\ requests < MaxRequests
    /\ Goto(t, "idle", "start")
    /\ requests' = requests + 1
    /\ path' = [path EXCEPT ![t] = p]
    /\ attempt' = [attempt EXCEPT ![t] = 0]
    /\ Begin(t)
    /\ UNCHANGED <<enabled, context, environ, commitSpans, counts, exc, ran, history>>

StartUntraced(t) ==
    /\ ~enabled
    /\ Goto(t, "start", "publish") /\ Staged(t, "open")
    /\ UNCHANGED <<enabled, context, environ, commitSpans, counts,
                   path, exc, attempt, ran, requests, transaction,
                   live, emitted, closed, broken, ends>>

\* suppress_token: the whole request is marked through the context.
StartSuppressed(t) ==
    /\ enabled /\ path[t] = "excluded"
    /\ Goto(t, "start", "publish") /\ Staged(t, "open")
    /\ token' = [token EXCEPT ![t] = context[t]]
    /\ context' = [context EXCEPT ![t] = "suppressed"]
    /\ UNCHANGED <<enabled, span, baseline, chain, single, chainCount, commitSpans, counts,
                   path, exc, attempt, ran, requests, transaction,
                   live, emitted, closed, broken, ends>>

\* Mutant: the span is started but not made the current context.
StartTracedDetached(t) ==
    /\ enabled /\ path[t] = "traced"
    /\ Goto(t, "start", "publish") /\ Staged(t, "open")
    /\ span' = [span EXCEPT ![t] = TRUE]
    /\ token' = [token EXCEPT ![t] = context[t]]
    /\ baseline' = [baseline EXCEPT ![t] = TRUE]
    /\ Opened(t, "publish")
    /\ UNCHANGED <<enabled, context, chain, single, chainCount, commitSpans, counts,
                   path, exc, attempt, ran, requests, transaction, closed, broken, ends>>

StartTraced(t) ==
    /\ enabled /\ path[t] = "traced"
    /\ Goto(t, "start", "publish") /\ Staged(t, "open")
    /\ span' = [span EXCEPT ![t] = TRUE]
    /\ token' = [token EXCEPT ![t] = context[t]]
    /\ context' = [context EXCEPT ![t] = "publish"]
    /\ baseline' = [baseline EXCEPT ![t] = TRUE]
    /\ Opened(t, "publish")
    /\ UNCHANGED <<enabled, chain, single, chainCount, commitSpans, counts,
                   path, exc, attempt, ran, requests, transaction, closed, broken, ends>>

-----------------------------------------------------------------------------
(* The published object runs.                                              *)

\* A call inside a start_as_current_span block: whatever it does, its span is
\* over when it returns.
Wrapped(t, kind) ==
    /\ pc[t] \in {"publish", "transform"}
    /\ emitted' = IF Tracing(t) THEN [emitted EXCEPT ![t] = @ \cup {kind}] ELSE emitted
    /\ UNCHANGED <<enabled, context, environ, commitSpans, counts, publisher,
                   live, closed, stage, broken, ends>>

Subrequest(t) == Wrapped(t, "subrequest")
CatalogQuery(t) == Wrapped(t, "catalog")

\* A step of the publisher in which no subscriber of this package acts.
Passes(t, from, to) ==
    /\ Goto(t, from, to)
    /\ UNCHANGED <<enabled, context, environ, commitSpans, counts,
                   path, exc, attempt, ran, requests, transaction, history>>

Fails(t, from, e) ==
    /\ Goto(t, from, "failing")
    /\ exc' = [exc EXCEPT ![t] = e]
    /\ UNCHANGED <<enabled, context, environ, commitSpans, counts,
                   path, attempt, ran, requests, transaction, history>>

-----------------------------------------------------------------------------
(* The transform chain, on IPubBeforeCommit (otel/transformchain.py).      *)

OnBeforeTransforms(t) ==
    /\ Goto(t, "returned", "chain")
    /\ ran' = [ran EXCEPT ![t] = 0]
    /\ IF Tracing(t)
       THEN /\ chain' = [chain EXCEPT ![t] = TRUE]
            /\ chainCount' = [chainCount EXCEPT ![t] = 0]
            /\ Opened(t, "transformchain")
       ELSE UNCHANGED <<chain, chainCount, live, emitted>>
    /\ UNCHANGED <<enabled, context, span, token, baseline, single, commitSpans, counts,
                   path, exc, attempt, requests, transaction,
                   closed, stage, broken, ends>>

OnBeforeSingleTransform(t) ==
    /\ ran[t] < MaxTransforms
    /\ Goto(t, "chain", "transform")
    /\ ran' = [ran EXCEPT ![t] = @ + 1]
    /\ IF chain[t]
       THEN /\ single' = [single EXCEPT ![t] = TRUE]
            /\ chainCount' = [chainCount EXCEPT ![t] = @ + 1]
            /\ Opened(t, "transform")
       ELSE UNCHANGED <<single, chainCount, live, emitted>>
    /\ UNCHANGED <<enabled, context, span, token, baseline, chain, commitSpans, counts,
                   path, exc, attempt, requests, transaction,
                   closed, stage, broken, ends>>

OnAfterSingleTransform(t) ==
    /\ Goto(t, "transform", "chain")
    /\ single' = [single EXCEPT ![t] = FALSE]
    /\ Ended(t, IF single[t] THEN {"transform"} ELSE {})
    /\ UNCHANGED <<enabled, context, span, token, baseline, chain, chainCount, commitSpans,
                   counts, path, exc, attempt, ran, requests, transaction,
                   emitted, closed, stage, broken, ends>>

\* _finish of otel/transformchain.py: whatever is still open is ended.
FinishChain(t) ==
    /\ single' = [single EXCEPT ![t] = FALSE]
    /\ chain' = [chain EXCEPT ![t] = FALSE]
    /\ chainCount' = [chainCount EXCEPT ![t] = None]
    /\ Ended(t, (IF single[t] THEN {"transform"} ELSE {})
                  \cup (IF chain[t] THEN {"transformchain"} ELSE {}))
    /\ UNCHANGED <<enabled, context, span, token, baseline, commitSpans, counts,
                   path, exc, attempt, ran, requests, transaction,
                   emitted, closed, stage, broken, ends>>

OnAfterTransforms(t) == Goto(t, "chain", "commit") /\ FinishChain(t)

\* A transform, or another subscriber of one of these events, raises.  The
\* Transformer logs the exception and returns; no after event is notified.
TransformRaises(t) == \E from \in {"chain", "transform"} : Passes(t, from, "commit")

\* A conflict it lets through.
TransformConflicts(t) == \E from \in {"chain", "transform"} : Fails(t, from, "conflict")
NoTransforms(t) == Passes(t, "returned", "commit")

-----------------------------------------------------------------------------
(* The transaction ends: CommitTracer, a synchronizer of the transaction   *)
(* manager of the thread it was registered on.  Its dict is one for all    *)
(* threads, and keyed by the address of the transaction.                   *)

\* Mutant: exclusion is not asked for.
SpannedUnsuppressed(t) == t \in Registered /\ enabled

\* The synchronizer is called, and starts a span.
Spanned(t) == t \in Registered /\ Tracing(t)

\* A failed commit is aborted by a second call for the same transaction; after
\* a commit that did not fail, abort() is that of a new one.
BeforeCompletion(t, from, to) ==
    /\ Goto(t, from, to)
    /\ IF transaction[t] = None THEN Begin(t) ELSE UNCHANGED transaction
    /\ IF Spanned(t)
       THEN commitSpans' = commitSpans \cup {transaction'[t]} /\ Opened(t, "commit")
       ELSE UNCHANGED <<commitSpans, live, emitted>>
    /\ UNCHANGED <<enabled, context, environ, counts, path, exc, attempt, ran, requests,
                   closed, stage, broken, ends>>

CommitOpen(t) == transaction[t] \in commitSpans

\* Mutant: the span is read, not popped.
AfterCompletionKeeping(t, from, to, e) ==
    /\ Goto(t, from, to)
    /\ exc' = [exc EXCEPT ![t] = e]
    /\ Ended(t, IF CommitOpen(t) THEN {"commit"} ELSE {})
    /\ transaction' = IF to = "failing" THEN transaction ELSE [transaction EXCEPT ![t] = None]
    /\ UNCHANGED <<enabled, context, environ, counts, path, attempt, ran, requests,
                   commitSpans, emitted, closed, stage, broken, ends>>

\* Notified whether the transaction was committed, failed to, or was aborted.
\* It is then gone, unless it still has to be aborted.
AfterCompletion(t, from, to, e) ==
    /\ Goto(t, from, to)
    /\ exc' = [exc EXCEPT ![t] = e]
    /\ commitSpans' = commitSpans \ {transaction[t]}
    /\ Ended(t, IF CommitOpen(t) THEN {"commit"} ELSE {})
    /\ transaction' = IF to = "failing" THEN transaction ELSE [transaction EXCEPT ![t] = None]
    /\ UNCHANGED <<enabled, context, environ, counts, path, attempt, ran, requests,
                   emitted, closed, stage, broken, ends>>

\* Another synchronizer raises out of commit(): in beforeCompletion after this
\* one, or in afterCompletion before it, which is then not called.
SynchronizerRaises(t, e) ==
    /\ MayRaise
    /\ Goto(t, "completing", "failing")
    /\ exc' = [exc EXCEPT ![t] = e]
    /\ broken' = IF CommitOpen(t) THEN [broken EXCEPT ![t] = @ + 1] ELSE broken
    /\ UNCHANGED <<enabled, context, environ, commitSpans, counts, path, attempt, ran,
                   requests, transaction, live, emitted, closed, stage, ends>>

-----------------------------------------------------------------------------
(* IPubSuccess, or IPubBeforeAbort and IPubFailure.                        *)

\* Mutant: the span is read, not popped.
FinishPublishKeeping(t, status) ==
    /\ token' = [token EXCEPT ![t] = None]
    /\ context' = IF token[t] = None THEN context ELSE [context EXCEPT ![t] = token[t]]
    /\ IF span[t]
       THEN /\ baseline' = [baseline EXCEPT ![t] = FALSE]
            /\ Ended(t, {"publish"})
            /\ closed' = [closed EXCEPT ![t] = Append(@, status)]
       ELSE UNCHANGED <<baseline, live, closed>>
    /\ UNCHANGED <<enabled, span, chain, single, chainCount, commitSpans, counts,
                   path, exc, attempt, ran, requests, transaction, emitted, broken, ends>>

\* _finish of otel/pubevents.py.
FinishPublish(t, status) ==
    /\ span' = [span EXCEPT ![t] = FALSE]
    /\ token' = [token EXCEPT ![t] = None]
    /\ context' = IF token[t] = None THEN context ELSE [context EXCEPT ![t] = token[t]]
    /\ IF span[t]
       THEN /\ baseline' = [baseline EXCEPT ![t] = FALSE]
            /\ Ended(t, {"publish"})
            /\ closed' = [closed EXCEPT ![t] = Append(@, status)]
       ELSE UNCHANGED <<baseline, live, closed>>
    /\ UNCHANGED <<enabled, chain, single, chainCount, commitSpans, counts,
                   path, exc, attempt, ran, requests, transaction, emitted, broken, ends>>

\* The subscribers are notified in the order in which ZCML registers them.
OnPubSuccess(t) ==
    Goto(t, "succeeded", "flush") /\ FinishPublish(t, "ok") /\ Staged(t, "over")
FlushOnSuccess(t) == Goto(t, "flush", "done") /\ FinishChain(t)
OnPubFailure(t) ==
    Goto(t, "failed", "flushFailed") /\ FinishPublish(t, "error") /\ UNCHANGED stage
FlushOnFailure(t) == Goto(t, "flushFailed", "doneFailed") /\ FinishChain(t)

\* Another subscriber raises: of IPubStart, before on_pub_start; of
\* IPubBeforeCommit, before or after the transform chain; or of IPubSuccess,
\* before, between or after those of this package.
SubscriberRaises(t) ==
    /\ MayRaise
    /\ \E from \in {"start", "returned", "commit", "succeeded", "flush", "done"},
          e \in {"conflict", "error"} : Fails(t, from, e)

\* event.retry
Retries(t) == exc[t] = "conflict" /\ attempt[t] < MaxRetries

\* Mutant: an attempt that is retried is not counted.
OnPubBeforeAbortFinal(t) ==
    /\ Goto(t, "failing", "abort")
    /\ counts' = IF exc[t] = "conflict" /\ ~Retries(t)
                 THEN [counts EXCEPT ![FALSE] = @ + 1] ELSE counts
    /\ UNCHANGED <<enabled, context, environ, commitSpans,
                   path, exc, attempt, ran, requests, transaction, history>>

\* on_pub_before_abort of metrics/providers/conflict.py.
OnPubBeforeAbort(t) ==
    /\ Goto(t, "failing", "abort")
    /\ counts' = IF exc[t] = "conflict" THEN [counts EXCEPT ![Retries(t)] = @ + 1] ELSE counts
    /\ UNCHANGED <<enabled, context, environ, commitSpans,
                   path, exc, attempt, ran, requests, transaction, history>>

NextAttempt(t, to) ==
    /\ pc' = [pc EXCEPT ![t] = to]
    /\ exc' = [exc EXCEPT ![t] = None]
    /\ ran' = [ran EXCEPT ![t] = 0]
    /\ emitted' = [emitted EXCEPT ![t] = {}]
    /\ closed' = [closed EXCEPT ![t] = <<>>]
    /\ Staged(t, "unseen")
    /\ UNCHANGED <<enabled, context, environ, commitSpans, counts,
                   path, requests, live, broken>>

Retry(t) ==
    /\ pc[t] = "doneFailed" /\ Retries(t)
    /\ NextAttempt(t, "start")
    /\ attempt' = [attempt EXCEPT ![t] = @ + 1]
    /\ Begin(t)
    /\ retried' = retried + 1
    /\ UNCHANGED gaveUp

Respond(t) ==
    /\ pc[t] = "done" \/ (pc[t] = "doneFailed" /\ ~Retries(t))
    /\ NextAttempt(t, "idle")
    /\ gaveUp' = IF exc[t] = "conflict" THEN gaveUp + 1 ELSE gaveUp
    /\ UNCHANGED <<attempt, transaction, retried>>

-----------------------------------------------------------------------------

Start(t) == StartUntraced(t) \/ StartSuppressed(t) \/ StartTraced(t)

Publish(t) ==
    \/ Subrequest(t) \/ CatalogQuery(t)
    \/ Passes(t, "publish", "returned")
    \/ \E e \in {"conflict", "error"} : Fails(t, "publish", e)

Transform(t) ==
    \/ OnBeforeTransforms(t) \/ OnBeforeSingleTransform(t)
    \/ OnAfterSingleTransform(t) \/ OnAfterTransforms(t)
    \/ TransformRaises(t) \/ TransformConflicts(t) \/ NoTransforms(t)

Commit(t) ==
    \/ BeforeCompletion(t, "commit", "completing")
    \/ AfterCompletion(t, "completing", "succeeded", None)
    \/ \E e \in {"conflict", "error"} :
          AfterCompletion(t, "completing", "failing", e) \/ SynchronizerRaises(t, e)

Succeed(t) == OnPubSuccess(t) \/ FlushOnSuccess(t)

Abort(t) ==
    \/ OnPubBeforeAbort(t)
    \/ BeforeCompletion(t, "abort", "aborting")
    \/ AfterCompletion(t, "aborting", "failed", exc[t])
    \/ OnPubFailure(t) \/ FlushOnFailure(t)

Handle(t) ==
    \/ \E p \in {"traced", "excluded"} : Arrive(t, p)
    \/ Start(t) \/ Publish(t) \/ Transform(t) \/ Commit(t)
    \/ Succeed(t) \/ SubscriberRaises(t) \/ Abort(t) \/ Retry(t) \/ Respond(t)

\* No more requests come in.
Quiet ==
    /\ requests = MaxRequests
    /\ \A t \in Threads : pc[t] = "idle"
    /\ UNCHANGED vars

Next == Quiet \/ \E t \in Threads : Handle(t)

Spec == Init /\ [][Next]_vars

-----------------------------------------------------------------------------

PCs == {"idle", "start", "publish", "returned", "chain", "transform",
        "commit", "completing", "succeeded", "flush", "done",
        "failing", "abort", "aborting", "failed", "flushFailed", "doneFailed"}

TypeOK ==
    /\ enabled \in BOOLEAN
    /\ context \in [Threads -> Contexts]
    /\ span \in [Threads -> BOOLEAN]
    /\ token \in [Threads -> Contexts \cup {None}]
    /\ baseline \in [Threads -> BOOLEAN]
    /\ chain \in [Threads -> BOOLEAN]
    /\ single \in [Threads -> BOOLEAN]
    /\ chainCount \in [Threads -> Nat \cup {None}]
    /\ commitSpans \subseteq Addresses
    /\ counts \in [BOOLEAN -> Nat]
    /\ pc \in [Threads -> PCs]
    /\ path \in [Threads -> {"traced", "excluded"}]
    /\ exc \in [Threads -> {"conflict", "error", None}]
    /\ attempt \in [Threads -> 0..MaxRetries]
    /\ ran \in [Threads -> 0..MaxTransforms]
    /\ transaction \in [Threads -> Addresses \cup {None}]
    /\ requests \in 0..MaxRequests
    /\ live \in [Threads -> [Kinds -> Nat]]
    /\ emitted \in [Threads -> SUBSET Kinds]
    /\ closed \in [Threads -> Seq({"ok", "error"})]
    /\ stage \in [Threads -> {"unseen", "open", "over"}]
    /\ broken \in [Threads -> Nat]
    /\ retried \in Nat
    /\ gaveUp \in Nat

(* When a thread is between two requests, or between two attempts of one,   *)
(* every span it started has been ended, its context is the one the WSGI    *)
(* server gave it, and nothing is left in the environ: whichever callback   *)
(* was skipped, because a transform raised, a commit conflicted or another  *)
(* subscriber failed, a later one has made up for it.  The one span that    *)
(* stays open is that of a commit another synchronizer broke off: the abort *)
(* puts its own in its place in the dict, and that one is ended.  The dict  *)
(* itself never keeps an entry for a transaction that is gone, which a new  *)
(* one at the same address would inherit.                                   *)
NothingLeftBehind ==
    /\ \A t \in Threads : pc[t] \in {"idle", "start"} =>
          /\ live[t] = [k \in Kinds |-> IF k = "commit" THEN broken[t] ELSE 0]
          /\ context[t] = "outer" /\ token[t] = None
          /\ ~span[t] /\ ~baseline[t] /\ ~chain[t] /\ ~single[t]
          /\ chainCount[t] = None
          /\ ~CommitOpen(t)
    /\ commitSpans \subseteq {transaction[t] : t \in Threads}

(* The publish span of an attempt is ended exactly once, although two       *)
(* events may both find it: well if on_pub_success was called, even if      *)
(* another subscriber of IPubSuccess then raised, and as an error if the    *)
(* attempt failed before that.  There is none if the request is not traced, *)
(* or if the attempt failed before on_pub_start.                            *)
ClosedExactlyOnce ==
    \A t \in Threads : pc[t] \in {"done", "doneFailed"} =>
        LET traced == enabled /\ path[t] = "traced" IN
        /\ closed[t] = IF ~traced \/ stage[t] = "unseen" THEN <<>>
                       ELSE IF stage[t] = "over" THEN <<"ok">> ELSE <<"error">>
        /\ stage[t] # "over" => pc[t] = "doneFailed"
        /\ pc[t] = "doneFailed" /\ stage[t] # "open" => MayRaise

(* Every conflict is counted once, under retry="true" exactly if the        *)
(* publisher then repeats the request, under retry="false" if it gives up.  *)
ConflictsCounted ==
    LET Counted(t) == pc[t] \in {"abort", "aborting", "failed", "flushFailed", "doneFailed"}
                      /\ exc[t] = "conflict"
    IN /\ counts[TRUE] = retried + Cardinality({t \in Threads : Counted(t) /\ Retries(t)})
       /\ counts[FALSE] = gaveUp + Cardinality({t \in Threads : Counted(t) /\ ~Retries(t)})

(* tracing.md:25, "an excluded path produces no spans at all": neither the  *)
(* publish span nor those of transforms, commits, subrequests and catalog   *)
(* queries, in any attempt.  The exceptions the code makes: when another    *)
(* subscriber of IPubStart or IPubSuccess raises, the request is not yet    *)
(* suppressed, or no longer, and the abort that follows gets a span.        *)
ExcludedPathsAreSilent ==
    \A t \in Threads : (path[t] = "excluded" /\ pc[t] # "idle") =>
        \/ emitted[t] = {}
        \/ /\ MayRaise /\ stage[t] # "open" /\ emitted[t] = {"commit"}
           /\ pc[t] \in {"aborting", "failed", "flushFailed", "doneFailed"}

(* pubevents.py:5-6: the chain and the commit (or abort) of a request start *)
(* their spans while the publish span is the current context, and so nest   *)
(* under it, on the failing paths too; except, again, for an abort after    *)
(* another subscriber of IPubStart or IPubSuccess raised: there is no       *)
(* publish span then.                                                       *)
SpansNestUnderPublish ==
    [][\A t \in Threads : \A k \in {"transformchain", "commit"} :
          live'[t][k] > live[t][k] =>
              \/ context[t] = "publish"
              \/ MayRaise /\ pc[t] = "abort" /\ stage[t] # "open"]_vars

-----------------------------------------------------------------------------
(* A claim of the documentation that the code does not keep.               *)

(* tracing.md:21 has transaction.commit emitted "per ZODB transaction       *)
(* completion".                                                             *)
EveryCommitTraced ==
    \A t \in Threads :
        (enabled /\ path[t] = "traced" /\ pc[t] = "succeeded") => "commit" \in emitted[t]

=============================================================================
