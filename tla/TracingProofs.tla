----------------------------- MODULE TracingProofs -----------------------------
(***************************************************************************)
(* Proofs about tracing: about the spans of RequestTracing, for every      *)
(* number of threads, retries, transforms and requests, and whatever other *)
(* subscribers do; and about the patches of Patching and what TracingSetup *)
(* switches on with them, for every set of classes, whichever methods they *)
(* define, inherit or have patched by others.                              *)
(***************************************************************************)
EXTENDS RequestTracing, TracingSetup, FiniteSetTheorems, SequenceTheorems, TLAPS

-----------------------------------------------------------------------------
(* The spans of a request.                                                 *)

\* One open span of each kind in S, and b more of commits.
OneOf(S, b) ==
    [k \in Kinds |-> (IF k \in S THEN 1 ELSE 0) + (IF k = "commit" THEN b ELSE 0)]

\* The span in CommitTracer's dict is that of the call under way.
Completing == {"completing", "aborting"}
CommitHeld(t) == pc[t] \in Completing /\ CommitOpen(t)

\* The kinds of which some dict still holds a span.
Held(t) ==
    {k \in Kinds : \/ k = "publish" /\ span[t]
                   \/ k = "transformchain" /\ chain[t]
                   \/ k = "transform" /\ single[t]
                   \/ k = "commit" /\ CommitHeld(t)}

\* Every open span is held, and only once, but for those of broken commits.
LiveInv == \A t \in Threads : live[t] = OneOf(Held(t), broken[t])

\* The keys that are set and popped together, and the context a token restores.
PairsInv ==
    \A t \in Threads :
        /\ token[t] \in {None, "outer"}
        /\ token[t] = None => context[t] = "outer"
        /\ baseline[t] = span[t]
        /\ ~chain[t] => chainCount[t] = None
        /\ chain[t] => chainCount[t] \in Nat

\* What has been ended by when.
PhaseInv ==
    \A t \in Threads :
        /\ pc[t] \in {"idle", "start", "publish", "returned", "done", "doneFailed"} =>
              ~chain[t] /\ ~single[t]
        /\ pc[t] \in {"idle", "start", "flush", "done", "flushFailed", "doneFailed"} =>
              ~span[t] /\ token[t] = None
        /\ pc[t] = "chain" => ~single[t]

\* From the first call of the synchronizer to the last one.
Ending == {"completing", "failing", "abort", "aborting"}

\* No two transactions are at one address, the dict has entries only for those
\* that are ending, and an entry that was left behind will be overwritten.
DictInv ==
    /\ commitSpans \subseteq {transaction[t] : t \in Threads}
    /\ \A t, u \in Threads : t # u /\ transaction[t] # None => transaction[t] # transaction[u]
    /\ \A t \in Threads : CommitOpen(t) => pc[t] \in Ending /\ Spanned(t)

IInv == TypeOK /\ LiveInv /\ PairsInv /\ PhaseInv /\ DictInv

\* Starting a span of a kind that is not open, and ending spans that are.
LEMMA OpenedOne ==
    ASSUME NEW t \in Threads, NEW k \in Kinds, NEW S \in SUBSET Kinds,
           NEW b \in Nat, TypeOK, live[t] = OneOf(S, b), k \notin S, Opened(t, k)
    PROVE  /\ live' = [live EXCEPT ![t] = OneOf(S \cup {k}, b)]
           /\ live' \in [Threads -> [Kinds -> Nat]]
           /\ emitted' \in [Threads -> SUBSET Kinds]
<1>1. live' = [live EXCEPT ![t] = [live[t] EXCEPT ![k] = @ + 1]]
  BY DEF Opened
<1>2. [live[t] EXCEPT ![k] = @ + 1] = OneOf(S \cup {k}, b)
  BY DEF OneOf
<1>3. OneOf(S \cup {k}, b) \in [Kinds -> Nat]
  BY DEF OneOf
<1>4. live' = [live EXCEPT ![t] = OneOf(S \cup {k}, b)]
  BY <1>1, <1>2
<1>5. live' \in [Threads -> [Kinds -> Nat]]
  BY <1>3, <1>4 DEF TypeOK
<1>6. emitted' \in [Threads -> SUBSET Kinds]
  BY DEF TypeOK, Opened
<1> QED
  BY <1>4, <1>5, <1>6

LEMMA EndedOnes ==
    ASSUME NEW t \in Threads, NEW S \in SUBSET Kinds, NEW P \in SUBSET S,
           NEW b \in Nat, TypeOK, live[t] = OneOf(S, b), Ended(t, P)
    PROVE  /\ live' = [live EXCEPT ![t] = OneOf(S \ P, b)]
           /\ live' \in [Threads -> [Kinds -> Nat]]
<1>1. live' = [live EXCEPT ![t] = [k \in Kinds |-> IF k \in P THEN live[t][k] - 1 ELSE live[t][k]]]
  BY DEF Ended
<1>2. [k \in Kinds |-> IF k \in P THEN live[t][k] - 1 ELSE live[t][k]] = OneOf(S \ P, b)
  BY DEF OneOf
<1>3. OneOf(S \ P, b) \in [Kinds -> Nat]
  BY DEF OneOf
<1> QED
  BY <1>1, <1>2, <1>3 DEF TypeOK


LEMMA AppendInSeq ==
    ASSUME NEW S, NEW s \in Seq(S), NEW e \in S PROVE Append(s, e) \in Seq(S)
OBVIOUS

\* No transaction begins or ends, and no synchronizer is being called.
NoCompletion ==
    /\ UNCHANGED <<enabled, commitSpans, transaction, broken>>
    /\ \A u \in Threads :
          \/ pc'[u] = pc[u] /\ (pc[u] \in Ending => context'[u] = context[u])
          \/ pc[u] \notin Ending /\ pc'[u] \notin Completing
          \/ pc[u] = "failing" /\ pc'[u] = "abort" /\ context'[u] = context[u]

LEMMA SameDict ==
    ASSUME DictInv, NoCompletion
    PROVE  DictInv' /\ \A u \in Threads : CommitHeld(u)' <=> CommitHeld(u)
<1>1. \A u \in Threads : CommitOpen(u)' <=> CommitOpen(u)
  BY DEF NoCompletion, CommitOpen
<1>2. \A u \in Threads : CommitHeld(u)' <=> CommitHeld(u)
  BY <1>1 DEF DictInv, NoCompletion, CommitHeld, Completing, Ending
<1>3. ASSUME NEW u \in Threads, CommitOpen(u)' PROVE pc'[u] \in Ending /\ Spanned(u)'
  <2>1. pc[u] \in Ending /\ Spanned(u)
    BY <1>1, <1>3 DEF DictInv
  <2>2. pc'[u] \in Ending /\ context'[u] = context[u] /\ enabled' = enabled
    BY <2>1 DEF NoCompletion, Ending
  <2> QED
    BY <2>1, <2>2 DEF Spanned, Tracing, Suppressed
<1> QED
  BY <1>1, <1>2, <1>3 DEF DictInv, NoCompletion

\* Nothing is opened or ended.
LEMMA SameLive ==
    ASSUME LiveInv, UNCHANGED <<live, span, chain, single, broken>>,
           \A u \in Threads : CommitHeld(u)' <=> CommitHeld(u)
    PROVE  LiveInv'
<1>1. \A u \in Threads : Held(u)' = Held(u)
  BY DEF Held
<1> QED
  BY <1>1 DEF LiveInv, OneOf

LEMMA SameSpans ==
    ASSUME IInv, NoCompletion, UNCHANGED <<live, span, chain, single>>
    PROVE  LiveInv' /\ DictInv'
<1>1. DictInv' /\ (\A u \in Threads : CommitHeld(u)' <=> CommitHeld(u)) /\ broken' = broken
  BY SameDict DEF IInv, NoCompletion
<1> QED
  BY <1>1, SameLive DEF IInv

\* A new transaction, at an address that is free.
LEMMA BeginDict ==
    ASSUME IInv, NEW t \in Threads, Begin(t), pc[t] \notin Ending,
           UNCHANGED <<enabled, context, commitSpans>>,
           \A u \in Threads \ {t} : pc'[u] = pc[u],
           pc'[t] \notin Completing
    PROVE  /\ DictInv' /\ transaction' \in [Threads -> Addresses \cup {None}]
           /\ \A u \in Threads : CommitHeld(u)' <=> CommitHeld(u)
<1>1. PICK a \in Addresses \ {transaction[u] : u \in Threads} :
         transaction' = [transaction EXCEPT ![t] = a]
  BY DEF Begin
<1>2. transaction \in [Threads -> Addresses \cup {None}]
  BY DEF IInv, TypeOK
<1>3. ~CommitOpen(t) /\ ~CommitOpen(t)'
  BY <1>1, <1>2 DEF IInv, DictInv, CommitOpen
<1>4. \A u \in Threads \ {t} : CommitOpen(u)' <=> CommitOpen(u)
  BY <1>1, <1>2 DEF CommitOpen
<1>5. commitSpans' \subseteq {transaction'[u] : u \in Threads}
  BY <1>1, <1>2, <1>3 DEF IInv, DictInv, CommitOpen
<1>6. \A u, v \in Threads : u # v /\ transaction'[u] # None => transaction'[u] # transaction'[v]
  BY <1>1, <1>2 DEF IInv, DictInv
<1>7. \A u \in Threads : CommitOpen(u)' => pc'[u] \in Ending /\ Spanned(u)'
  BY <1>3, <1>4 DEF IInv, DictInv, Spanned, Tracing, Suppressed
<1> QED
  BY <1>1, <1>2, <1>3, <1>4, <1>5, <1>6, <1>7 DEF DictInv, CommitHeld

\* A span is opened and kept in the dict where it was missing.
LEMMA OpenedLive ==
    ASSUME IInv, NEW t \in Threads, NEW k \in Kinds, Opened(t, k), k \notin Held(t),
           Held(t)' = Held(t) \cup {k}, broken' = broken,
           \A u \in Threads \ {t} : Held(u)' = Held(u)
    PROVE  LiveInv' /\ live' \in [Threads -> [Kinds -> Nat]]
                    /\ emitted' \in [Threads -> SUBSET Kinds]
<1>1. /\ Held(t) \in SUBSET Kinds /\ broken[t] \in Nat
      /\ live[t] = OneOf(Held(t), broken[t]) /\ TypeOK
  BY DEF IInv, LiveInv, Held, TypeOK
<1>2. /\ live' = [live EXCEPT ![t] = OneOf(Held(t) \cup {k}, broken[t])]
      /\ live' \in [Threads -> [Kinds -> Nat]]
      /\ emitted' \in [Threads -> SUBSET Kinds]
  BY <1>1, OpenedOne
<1>3. ASSUME NEW u \in Threads PROVE live'[u] = OneOf(Held(u)', broken'[u])
  <2>1. CASE u = t
    BY <1>2, <2>1 DEF IInv, TypeOK
  <2>2. CASE u # t
    BY <1>2, <2>2 DEF IInv, TypeOK, LiveInv
  <2> QED
    BY <2>1, <2>2
<1>4. LiveInv'
  BY <1>3 DEF LiveInv, OneOf
<1> QED
  BY <1>2, <1>4

\* Spans are popped and ended.
LEMMA EndedLive ==
    ASSUME IInv, NEW t \in Threads, NEW P \in SUBSET Held(t), Ended(t, P),
           Held(t)' = Held(t) \ P, broken' = broken,
           \A u \in Threads \ {t} : Held(u)' = Held(u)
    PROVE  LiveInv' /\ live' \in [Threads -> [Kinds -> Nat]]
<1>1. /\ Held(t) \in SUBSET Kinds /\ broken[t] \in Nat
      /\ live[t] = OneOf(Held(t), broken[t]) /\ TypeOK
  BY DEF IInv, LiveInv, Held, TypeOK
<1>2. /\ live' = [live EXCEPT ![t] = OneOf(Held(t) \ P, broken[t])]
      /\ live' \in [Threads -> [Kinds -> Nat]]
  BY <1>1, EndedOnes
<1>3. ASSUME NEW u \in Threads PROVE live'[u] = OneOf(Held(u)', broken'[u])
  <2>1. CASE u = t
    BY <1>2, <2>1 DEF IInv, TypeOK
  <2>2. CASE u # t
    BY <1>2, <2>2 DEF IInv, TypeOK, LiveInv
  <2> QED
    BY <2>1, <2>2
<1>4. LiveInv'
  BY <1>3 DEF LiveInv, OneOf
<1> QED
  BY <1>2, <1>4

-----------------------------------------------------------------------------

LEMMA InitIInv == Init => IInv
<1> SUFFICES ASSUME Init PROVE IInv
  OBVIOUS
<1>1. TypeOK
  BY TracingAssumption DEF Init, TypeOK, Contexts, PCs
<1>2. LiveInv
  BY DEF Init, LiveInv, Held, CommitHeld, Completing, OneOf
<1>3. PairsInv /\ PhaseInv /\ DictInv
  BY DEF Init, PairsInv, PhaseInv, DictInv, CommitOpen
<1> QED
  BY <1>1, <1>2, <1>3 DEF IInv

\* The steps of the publisher in which this package only watches.
LEMMA PassesIInv ==
    ASSUME IInv, NEW t \in Threads, NEW from \in PCs, NEW to \in PCs, Passes(t, from, to),
           <<from, to>> \in {<<"publish", "returned">>, <<"returned", "commit">>,
                             <<"chain", "commit">>, <<"transform", "commit">>}
    PROVE  IInv'
<1>1. TypeOK'
  BY DEF IInv, TypeOK, Passes, Goto, environ, history, ends
<1>2. NoCompletion
  BY DEF IInv, TypeOK, NoCompletion, Completing, Ending, Passes, Goto, environ, history
<1>3. LiveInv' /\ DictInv'
  BY <1>2, SameSpans DEF Passes, environ, history
<1>4. PairsInv' /\ PhaseInv'
  BY DEF IInv, TypeOK, PairsInv, PhaseInv, Passes, Goto, environ
<1> QED
  BY <1>1, <1>3, <1>4 DEF IInv

LEMMA FailsIInv ==
    ASSUME IInv, NEW t \in Threads, NEW from \in PCs, NEW e \in {"conflict", "error"},
           Fails(t, from, e), from \notin Ending
    PROVE  IInv'
<1>1. TypeOK'
  BY DEF IInv, TypeOK, PCs, Fails, Goto, environ, history, ends
<1>2. NoCompletion
  BY DEF IInv, TypeOK, NoCompletion, Completing, Ending, Fails, Goto, environ, history
<1>3. LiveInv' /\ DictInv'
  BY <1>2, SameSpans DEF Fails, environ, history
<1>4. PairsInv' /\ PhaseInv'
  BY DEF IInv, TypeOK, PairsInv, PhaseInv, Fails, Goto, environ
<1> QED
  BY <1>1, <1>3, <1>4 DEF IInv

LEMMA ArriveIInv ==
    ASSUME IInv, NEW t \in Threads, NEW p \in {"traced", "excluded"}, Arrive(t, p)
    PROVE  IInv'
<1>1. /\ DictInv' /\ transaction' \in [Threads -> Addresses \cup {None}]
      /\ \A u \in Threads : CommitHeld(u)' <=> CommitHeld(u)
  <2>1. Begin(t) /\ pc[t] = "idle" /\ UNCHANGED <<enabled, context, commitSpans>>
    BY DEF Arrive, Goto
  <2>2. (\A u \in Threads \ {t} : pc'[u] = pc[u]) /\ pc'[t] = "start"
    BY DEF IInv, TypeOK, Arrive, Goto
  <2> QED
    BY <2>1, <2>2, BeginDict DEF Ending, Completing
<1>2. TypeOK'
  <2>1. requests' \in 0..MaxRequests
    BY TracingAssumption DEF IInv, TypeOK, Arrive
  <2>2. attempt' \in [Threads -> 0..MaxRetries]
    BY TracingAssumption DEF IInv, TypeOK, Arrive
  <2>3. /\ pc' \in [Threads -> PCs]
        /\ path' \in [Threads -> {"traced", "excluded"}]
    BY DEF IInv, TypeOK, PCs, Arrive, Goto
  <2> QED
    BY <1>1, <2>1, <2>2, <2>3 DEF IInv, TypeOK, Arrive, environ, history, ends
<1>3. LiveInv'
  BY <1>1, SameLive DEF IInv, Arrive, environ, history
<1>4. PairsInv' /\ PhaseInv'
  BY DEF IInv, TypeOK, PairsInv, PhaseInv, Arrive, Goto, environ
<1> QED
  BY <1>1, <1>2, <1>3, <1>4 DEF IInv

LEMMA StartIInv ==
    ASSUME IInv, NEW t \in Threads, Start(t) PROVE IInv'
<1>1. stage' \in [Threads -> {"unseen", "open", "over"}]
  <2>1. Staged(t, "open")
    BY DEF Start, StartUntraced, StartSuppressed, StartTraced
  <2> QED
    BY <2>1 DEF IInv, TypeOK, Staged
<1>2. NoCompletion
  <2>1. /\ UNCHANGED <<enabled, commitSpans, transaction, broken>>
        /\ pc[t] = "start" /\ pc'[t] = "publish"
        /\ \A u \in Threads \ {t} : pc'[u] = pc[u] /\ context'[u] = context[u]
    BY DEF IInv, TypeOK, Start, StartUntraced, StartSuppressed, StartTraced, Goto
  <2> QED
    BY <2>1 DEF NoCompletion, Completing, Ending
<1>3. DictInv' /\ \A u \in Threads : CommitHeld(u)' <=> CommitHeld(u)
  BY <1>2, SameDict DEF IInv
<1>4. CASE StartUntraced(t)
  <2>1. TypeOK'
    BY <1>1, <1>4 DEF IInv, TypeOK, PCs, StartUntraced, Goto, environ, ends
  <2>2. LiveInv' /\ DictInv'
    BY <1>2, <1>4, SameSpans DEF StartUntraced, environ
  <2>3. PairsInv' /\ PhaseInv'
    BY <1>4 DEF IInv, TypeOK, PairsInv, PhaseInv, StartUntraced, Goto, environ
  <2> QED
    BY <2>1, <2>2, <2>3 DEF IInv
<1>5. CASE StartSuppressed(t)
  <2>1. TypeOK'
    BY <1>1, <1>5 DEF IInv, TypeOK, Contexts, PCs, StartSuppressed, Goto, ends
  <2>2. LiveInv' /\ DictInv'
    BY <1>2, <1>5, SameSpans DEF StartSuppressed
  <2>3. PairsInv' /\ PhaseInv'
    BY <1>5, TracingNoneAssumption
    DEF IInv, TypeOK, PairsInv, PhaseInv, StartSuppressed, Goto, Contexts
  <2> QED
    BY <2>1, <2>2, <2>3 DEF IInv
<1>6. CASE StartTraced(t)
  <2>1. Opened(t, "publish") /\ "publish" \in Kinds
    BY <1>6 DEF StartTraced, Kinds
  <2>2. "publish" \notin Held(t)
    BY <1>6 DEF IInv, PhaseInv, Held, StartTraced, Goto
  <2>3. Held(t)' = Held(t) \cup {"publish"} /\ \A u \in Threads \ {t} : Held(u)' = Held(u)
    BY <1>3, <1>6 DEF IInv, TypeOK, StartTraced, Held, Kinds
  <2>4. /\ LiveInv' /\ live' \in [Threads -> [Kinds -> Nat]]
        /\ emitted' \in [Threads -> SUBSET Kinds]
    BY <1>6, <2>1, <2>2, <2>3, OpenedLive DEF StartTraced
  <2>5. TypeOK'
    <3>1. /\ pc' \in [Threads -> PCs]
          /\ context' \in [Threads -> Contexts]
          /\ token' \in [Threads -> Contexts \cup {None}]
      BY <1>6 DEF IInv, TypeOK, Contexts, PCs, StartTraced, Goto
    <3>2. span' \in [Threads -> BOOLEAN] /\ baseline' \in [Threads -> BOOLEAN]
      BY <1>6 DEF IInv, TypeOK, StartTraced
    <3> QED
      BY <1>1, <1>6, <2>4, <3>1, <3>2 DEF IInv, TypeOK, StartTraced, ends
  <2>6. PairsInv' /\ PhaseInv'
    BY <1>6, TracingNoneAssumption
    DEF IInv, TypeOK, PairsInv, PhaseInv, StartTraced, Goto, Contexts
  <2> QED
    BY <1>3, <2>4, <2>5, <2>6 DEF IInv
<1> QED
  BY <1>4, <1>5, <1>6 DEF Start

LEMMA WrappedIInv ==
    ASSUME IInv, NEW t \in Threads, NEW kind \in Kinds, Wrapped(t, kind)
    PROVE  IInv'
<1>1. TypeOK'
  <2>1. emitted' \in [Threads -> SUBSET Kinds]
    BY DEF IInv, TypeOK, Wrapped
  <2> QED
    BY <2>1 DEF IInv, TypeOK, Wrapped, environ, publisher, ends
<1>2. NoCompletion
  BY DEF IInv, TypeOK, NoCompletion, Completing, Ending, Wrapped, environ, publisher, history
<1>3. LiveInv' /\ DictInv'
  BY <1>2, SameSpans DEF Wrapped, environ
<1>4. PairsInv' /\ PhaseInv'
  BY DEF IInv, PairsInv, PhaseInv, Wrapped, environ, publisher
<1> QED
  BY <1>1, <1>3, <1>4 DEF IInv

LEMMA BeforeTransformsIInv ==
    ASSUME IInv, NEW t \in Threads, OnBeforeTransforms(t) PROVE IInv'
<1>1. ran' \in [Threads -> 0..MaxTransforms] /\ pc' \in [Threads -> PCs]
  <2>1. ran' \in [Threads -> 0..MaxTransforms]
    BY TracingAssumption DEF IInv, TypeOK, OnBeforeTransforms
  <2>2. pc' \in [Threads -> PCs]
    BY DEF IInv, TypeOK, PCs, OnBeforeTransforms, Goto
  <2> QED
    BY <2>1, <2>2
<1>2. NoCompletion
  BY DEF IInv, TypeOK, NoCompletion, Completing, Ending, OnBeforeTransforms, Goto
<1>3. DictInv' /\ \A u \in Threads : CommitHeld(u)' <=> CommitHeld(u)
  BY <1>2, SameDict DEF IInv
<1>4. CASE Tracing(t)
  <2>1. Opened(t, "transformchain") /\ "transformchain" \in Kinds
    BY <1>4 DEF OnBeforeTransforms, Kinds
  <2>2. "transformchain" \notin Held(t)
    BY DEF IInv, PhaseInv, Held, OnBeforeTransforms, Goto
  <2>3. /\ Held(t)' = Held(t) \cup {"transformchain"}
        /\ \A u \in Threads \ {t} : Held(u)' = Held(u)
    BY <1>3, <1>4 DEF IInv, TypeOK, OnBeforeTransforms, Held, Kinds
  <2>4. /\ LiveInv' /\ live' \in [Threads -> [Kinds -> Nat]]
        /\ emitted' \in [Threads -> SUBSET Kinds]
    BY <2>1, <2>2, <2>3, OpenedLive DEF OnBeforeTransforms
  <2>5. chain' \in [Threads -> BOOLEAN]
    BY <1>4 DEF IInv, TypeOK, OnBeforeTransforms
  <2>6. chainCount' \in [Threads -> Nat \cup {None}]
    <3>1. chainCount' = [chainCount EXCEPT ![t] = 0]
      BY <1>4 DEF OnBeforeTransforms
    <3>2. chainCount \in [Threads -> Nat \cup {None}]
      BY DEF IInv, TypeOK
    <3> QED
      BY <3>1, <3>2
  <2>7. TypeOK'
    BY <1>1, <2>4, <2>5, <2>6 DEF IInv, TypeOK, OnBeforeTransforms, ends
  <2>8. PairsInv'
    <3> DEFINE n == 0
    <3>1. chainCount' = [chainCount EXCEPT ![t] = n] /\ n \in Nat
      BY <1>4 DEF OnBeforeTransforms
    <3> HIDE DEF n
    <3> QED
      BY <1>4, <3>1 DEF IInv, TypeOK, PairsInv, OnBeforeTransforms
  <2>9. PhaseInv'
    <3>1. /\ UNCHANGED <<span, token, single>>
          /\ pc[t] = "returned" /\ pc'[t] = "chain"
          /\ \A u \in Threads \ {t} : pc'[u] = pc[u] /\ chain'[u] = chain[u]
      BY <1>4 DEF IInv, TypeOK, OnBeforeTransforms, Goto
    <3> QED
      BY <3>1 DEF IInv, PhaseInv
  <2> QED
    BY <1>3, <2>4, <2>7, <2>8, <2>9 DEF IInv
<1>5. CASE ~Tracing(t)
  <2>1. TypeOK'
    BY <1>1, <1>5 DEF IInv, TypeOK, OnBeforeTransforms, ends
  <2>2. LiveInv' /\ DictInv'
    BY <1>2, <1>5, SameSpans DEF OnBeforeTransforms
  <2>3. PairsInv' /\ PhaseInv'
    BY <1>5 DEF IInv, TypeOK, PairsInv, PhaseInv, OnBeforeTransforms, Goto
  <2> QED
    BY <2>1, <2>2, <2>3 DEF IInv
<1> QED
  BY <1>4, <1>5

LEMMA BeforeSingleIInv ==
    ASSUME IInv, NEW t \in Threads, OnBeforeSingleTransform(t) PROVE IInv'
<1>1. pc' \in [Threads -> PCs]
  BY DEF IInv, TypeOK, PCs, OnBeforeSingleTransform, Goto
<1>2. ran' \in [Threads -> 0..MaxTransforms]
  BY TracingAssumption DEF IInv, TypeOK, OnBeforeSingleTransform
<1>3. NoCompletion
  BY DEF IInv, TypeOK, NoCompletion, Completing, Ending, OnBeforeSingleTransform, Goto
<1>4. DictInv' /\ \A u \in Threads : CommitHeld(u)' <=> CommitHeld(u)
  BY <1>3, SameDict DEF IInv
<1>5. CASE chain[t]
  <2>1. Opened(t, "transform") /\ "transform" \in Kinds
    BY <1>5 DEF OnBeforeSingleTransform, Kinds
  <2>2. "transform" \notin Held(t)
    BY DEF IInv, PhaseInv, Held, OnBeforeSingleTransform, Goto
  <2>3. Held(t)' = Held(t) \cup {"transform"} /\ \A u \in Threads \ {t} : Held(u)' = Held(u)
    BY <1>4, <1>5 DEF IInv, TypeOK, OnBeforeSingleTransform, Held, Kinds
  <2>4. /\ LiveInv' /\ live' \in [Threads -> [Kinds -> Nat]]
        /\ emitted' \in [Threads -> SUBSET Kinds]
    BY <2>1, <2>2, <2>3, OpenedLive DEF OnBeforeSingleTransform
  <2>5. single' \in [Threads -> BOOLEAN]
    BY <1>5 DEF IInv, TypeOK, OnBeforeSingleTransform
  <2>6. chainCount[t] \in Nat
    BY <1>5 DEF IInv, PairsInv
  <2>7. chainCount' = [chainCount EXCEPT ![t] = chainCount[t] + 1] /\ chainCount[t] + 1 \in Nat
    BY <1>5, <2>6 DEF OnBeforeSingleTransform
  <2>8. chainCount' \in [Threads -> Nat \cup {None}]
    BY <2>7 DEF IInv, TypeOK
  <2>9. TypeOK'
    BY <1>1, <1>2, <2>4, <2>5, <2>8 DEF IInv, TypeOK, OnBeforeSingleTransform, ends
  <2>10. PairsInv' /\ PhaseInv'
    <3> DEFINE n == chainCount[t] + 1
    <3>1. chainCount' = [chainCount EXCEPT ![t] = n] /\ n \in Nat
      BY <2>7
    <3> HIDE DEF n
    <3> QED
      BY <1>5, <3>1 DEF IInv, TypeOK, PairsInv, PhaseInv, OnBeforeSingleTransform, Goto
  <2> QED
    BY <1>4, <2>4, <2>9, <2>10 DEF IInv
<1>6. CASE ~chain[t]
  <2>1. TypeOK'
    BY <1>1, <1>2, <1>6 DEF IInv, TypeOK, OnBeforeSingleTransform, ends
  <2>2. LiveInv' /\ DictInv'
    BY <1>3, <1>6, SameSpans DEF OnBeforeSingleTransform
  <2>3. PairsInv' /\ PhaseInv'
    BY <1>6 DEF IInv, TypeOK, PairsInv, PhaseInv, OnBeforeSingleTransform, Goto
  <2> QED
    BY <2>1, <2>2, <2>3 DEF IInv
<1> QED
  BY <1>5, <1>6

LEMMA AfterSingleIInv ==
    ASSUME IInv, NEW t \in Threads, OnAfterSingleTransform(t) PROVE IInv'
<1> DEFINE P == IF single[t] THEN {"transform"} ELSE {}
<1>1. Ended(t, P) /\ P \in SUBSET Held(t)
  BY DEF OnAfterSingleTransform, Held, Kinds
<1>2. NoCompletion
  BY DEF IInv, TypeOK, NoCompletion, Completing, Ending, OnAfterSingleTransform, Goto
<1>3. DictInv' /\ \A u \in Threads : CommitHeld(u)' <=> CommitHeld(u)
  BY <1>2, SameDict DEF IInv
<1>4. Held(t)' = Held(t) \ P /\ \A u \in Threads \ {t} : Held(u)' = Held(u)
  BY <1>3 DEF IInv, TypeOK, OnAfterSingleTransform, Held, Kinds
<1>5. LiveInv' /\ live' \in [Threads -> [Kinds -> Nat]]
  BY <1>1, <1>4, EndedLive DEF OnAfterSingleTransform
<1>6. TypeOK'
  BY <1>5 DEF IInv, TypeOK, PCs, OnAfterSingleTransform, Goto, ends
<1>7. PairsInv' /\ PhaseInv'
  BY DEF IInv, TypeOK, PairsInv, PhaseInv, OnAfterSingleTransform, Goto
<1> QED
  BY <1>3, <1>5, <1>6, <1>7 DEF IInv

\* The request-end flush, and the end of the chain.
LEMMA FinishChainIInv ==
    ASSUME IInv, NEW t \in Threads, NEW from \in PCs, NEW to \in PCs,
           Goto(t, from, to), FinishChain(t),
           <<from, to>> \in {<<"chain", "commit">>, <<"flush", "done">>,
                             <<"flushFailed", "doneFailed">>}
    PROVE  IInv'
<1> DEFINE P == (IF single[t] THEN {"transform"} ELSE {})
                   \cup (IF chain[t] THEN {"transformchain"} ELSE {})
<1>1. Ended(t, P) /\ P \in SUBSET Held(t)
  BY DEF FinishChain, Held, Kinds
<1>2. NoCompletion
  BY DEF IInv, TypeOK, NoCompletion, Completing, Ending, FinishChain, Goto
<1>3. DictInv' /\ \A u \in Threads : CommitHeld(u)' <=> CommitHeld(u)
  BY <1>2, SameDict DEF IInv
<1>4. Held(t)' = Held(t) \ P /\ \A u \in Threads \ {t} : Held(u)' = Held(u)
  BY <1>3 DEF IInv, TypeOK, FinishChain, Held, Kinds
<1>5. LiveInv' /\ live' \in [Threads -> [Kinds -> Nat]]
  BY <1>1, <1>4, EndedLive DEF FinishChain
<1>6. TypeOK'
  BY <1>5 DEF IInv, TypeOK, FinishChain, Goto, ends
<1>7. PairsInv'
  BY DEF IInv, TypeOK, PairsInv, FinishChain
<1>8. PhaseInv'
  <2>1. /\ UNCHANGED <<span, token>> /\ pc[t] = from /\ pc'[t] = to
        /\ ~chain'[t] /\ ~single'[t]
        /\ \A u \in Threads \ {t} : pc'[u] = pc[u] /\ chain'[u] = chain[u] /\ single'[u] = single[u]
    BY DEF IInv, TypeOK, FinishChain, Goto
  <2> QED
    BY <2>1 DEF IInv, PhaseInv
<1> QED
  BY <1>3, <1>5, <1>6, <1>7, <1>8 DEF IInv

\* The end of the publish span, in either event.
LEMMA FinishPublishIInv ==
    ASSUME IInv, NEW t \in Threads, NEW from \in PCs, NEW to \in PCs,
           NEW status \in {"ok", "error"},
           Goto(t, from, to), FinishPublish(t, status),
           UNCHANGED stage \/ Staged(t, "over"),
           <<from, to>> \in {<<"succeeded", "flush">>, <<"failed", "flushFailed">>}
    PROVE  IInv'
<1>1. /\ span' \in [Threads -> BOOLEAN]
      /\ token' \in [Threads -> Contexts \cup {None}]
      /\ pc' \in [Threads -> PCs]
  BY DEF IInv, TypeOK, FinishPublish, Goto
<1>2. context' \in [Threads -> Contexts]
  BY DEF IInv, TypeOK, PairsInv, FinishPublish, Contexts
<1>3. stage' \in [Threads -> {"unseen", "open", "over"}]
  BY DEF IInv, TypeOK, Staged
<1>4. NoCompletion
  <2>1. /\ UNCHANGED <<enabled, commitSpans, transaction, broken>>
        /\ pc[t] \notin Ending /\ pc'[t] \notin Completing
        /\ \A u \in Threads \ {t} : pc'[u] = pc[u] /\ context'[u] = context[u]
    BY DEF IInv, TypeOK, FinishPublish, Goto, Ending, Completing
  <2> QED
    BY <2>1 DEF NoCompletion
<1>5. DictInv' /\ \A u \in Threads : CommitHeld(u)' <=> CommitHeld(u)
  BY <1>4, SameDict DEF IInv
<1>6. CASE span[t]
  <2>1. Ended(t, {"publish"}) /\ {"publish"} \in SUBSET Held(t)
    BY <1>6 DEF FinishPublish, Held, Kinds
  <2>2. Held(t)' = Held(t) \ {"publish"} /\ \A u \in Threads \ {t} : Held(u)' = Held(u)
    BY <1>5, <1>6 DEF IInv, TypeOK, FinishPublish, Held, Kinds
  <2>3. LiveInv' /\ live' \in [Threads -> [Kinds -> Nat]]
    BY <2>1, <2>2, EndedLive DEF FinishPublish
  <2>4. closed' \in [Threads -> Seq({"ok", "error"})]
    <3>1. closed[t] \in Seq({"ok", "error"})
      BY DEF IInv, TypeOK
    <3>2. Append(closed[t], status) \in Seq({"ok", "error"})
      BY <3>1, AppendInSeq
    <3>3. closed' = [closed EXCEPT ![t] = Append(closed[t], status)]
      BY <1>6 DEF FinishPublish
    <3> QED
      BY <3>2, <3>3 DEF IInv, TypeOK
  <2>5. baseline' \in [Threads -> BOOLEAN]
    BY <1>6 DEF IInv, TypeOK, FinishPublish
  <2>6. TypeOK'
    BY <1>1, <1>2, <1>3, <2>3, <2>4, <2>5 DEF IInv, TypeOK, FinishPublish, ends
  <2>7. PairsInv' /\ PhaseInv'
    BY <1>6 DEF IInv, TypeOK, PairsInv, PhaseInv, FinishPublish, Goto
  <2> QED
    BY <1>5, <2>3, <2>6, <2>7 DEF IInv
<1>7. CASE ~span[t]
  <2>1. TypeOK'
    BY <1>1, <1>2, <1>3, <1>7 DEF IInv, TypeOK, FinishPublish, ends
  <2>2. span' = span
    BY <1>7 DEF IInv, TypeOK, FinishPublish
  <2>3. LiveInv'
    BY <1>4, <1>7, <2>2, SameSpans DEF FinishPublish
  <2>4. PairsInv'
    <3>1. \A u \in Threads : token'[u] = IF u = t THEN None ELSE token[u]
      BY DEF IInv, TypeOK, FinishPublish
    <3>2. \A u \in Threads :
             context'[u] = IF u = t /\ token[t] # None THEN token[t] ELSE context[u]
      BY DEF IInv, TypeOK, FinishPublish
    <3>3. UNCHANGED <<baseline, chain, chainCount>>
      BY <1>7 DEF FinishPublish
    <3> QED
      BY <2>2, <3>1, <3>2, <3>3 DEF IInv, PairsInv
  <2>5. PhaseInv'
    <3>1. UNCHANGED <<chain, single>>
      BY DEF FinishPublish
    <3>2. \A u \in Threads : token'[u] = IF u = t THEN None ELSE token[u]
      BY DEF IInv, TypeOK, FinishPublish
    <3>3. pc[t] = from /\ \A u \in Threads : pc'[u] = IF u = t THEN to ELSE pc[u]
      BY DEF IInv, TypeOK, Goto
    <3> QED
      BY <1>7, <2>2, <3>1, <3>2, <3>3 DEF IInv, PhaseInv
  <2> QED
    BY <1>5, <2>1, <2>3, <2>4, <2>5 DEF IInv
<1> QED
  BY <1>6, <1>7

LEMMA BeforeCompletionIInv ==
    ASSUME IInv, NEW t \in Threads, NEW from \in PCs, NEW to \in PCs,
           BeforeCompletion(t, from, to),
           <<from, to>> \in {<<"commit", "completing">>, <<"abort", "aborting">>}
    PROVE  IInv'
<1>1. /\ pc' \in [Threads -> PCs] /\ pc[t] = from /\ pc'[t] = to
      /\ \A u \in Threads \ {t} : pc'[u] = pc[u]
  BY DEF IInv, TypeOK, BeforeCompletion, Goto
<1>2. UNCHANGED <<enabled, context, environ, counts, path, exc, attempt, ran, requests,
                  closed, stage, broken, ends>>
  BY DEF BeforeCompletion
<1>3. /\ transaction' \in [Threads -> Addresses \cup {None}] /\ transaction'[t] \in Addresses
      /\ \A u \in Threads \ {t} : transaction'[u] = transaction[u] /\ transaction'[u] # transaction'[t]
      /\ transaction'[t] \in commitSpans => transaction'[t] = transaction[t]
      /\ commitSpans \subseteq {transaction'[u] : u \in Threads}
  <2>1. transaction \in [Threads -> Addresses \cup {None}] /\ DictInv /\ None \notin Addresses
        /\ commitSpans \subseteq Addresses
    BY TracingNoneAssumption DEF IInv, TypeOK
  <2>2. CASE transaction[t] = None
    <3>1. PICK a \in Addresses \ {transaction[u] : u \in Threads} :
             transaction' = [transaction EXCEPT ![t] = a]
      BY <2>2 DEF BeforeCompletion, Begin
    <3>2. a \notin commitSpans
      BY <2>1, <3>1 DEF DictInv
    <3>3. ASSUME NEW c \in commitSpans PROVE c \in {transaction'[u] : u \in Threads}
      <4>1. PICK u \in Threads : c = transaction[u]
        BY <2>1 DEF DictInv
      <4>2. u # t
        BY <2>1, <2>2, <4>1
      <4> QED
        BY <2>1, <3>1, <4>1, <4>2
    <3> QED
      BY <2>1, <3>1, <3>2, <3>3
  <2>3. CASE transaction[t] # None
    <3>1. transaction' = transaction
      BY <2>3 DEF BeforeCompletion
    <3> QED
      BY <2>1, <2>3, <3>1 DEF DictInv
  <2> QED
    BY <2>2, <2>3
<1>4. Spanned(t)' = Spanned(t) /\ \A u \in Threads : Spanned(u)' <=> Spanned(u)
  BY <1>2 DEF Spanned, Tracing, Suppressed
<1>5. ASSUME NEW u \in Threads \ {t}
      PROVE  (CommitOpen(u)' <=> CommitOpen(u)) /\ (CommitHeld(u)' <=> CommitHeld(u))
  <2>1. CommitOpen(u)' <=> CommitOpen(u)
    BY <1>3 DEF CommitOpen, BeforeCompletion
  <2> QED
    BY <1>1, <2>1 DEF CommitHeld
<1>6. ~CommitHeld(t) /\ "commit" \notin Held(t)
  BY <1>1 DEF Held, CommitHeld, Completing
<1>7. DictInv' /\ commitSpans' \subseteq Addresses /\ (CommitHeld(t)' <=> Spanned(t))
  <2>1. commitSpans' = IF Spanned(t) THEN commitSpans \cup {transaction'[t]} ELSE commitSpans
    BY DEF BeforeCompletion
  <2>2. commitSpans' \subseteq {transaction'[u] : u \in Threads} /\ commitSpans' \subseteq Addresses
    BY <1>3, <2>1 DEF IInv, TypeOK
  <2>3. CommitOpen(t)' <=> Spanned(t)
    <3>1. ASSUME ~Spanned(t) PROVE ~CommitOpen(t)'
      BY <1>3, <2>1, <3>1 DEF IInv, DictInv, CommitOpen
    <3> QED
      BY <2>1, <3>1 DEF CommitOpen
  <2>4. \A u, v \in Threads : u # v /\ transaction'[u] # None => transaction'[u] # transaction'[v]
    BY <1>3 DEF IInv, DictInv
  <2>5. \A u \in Threads : CommitOpen(u)' => pc'[u] \in Ending /\ Spanned(u)'
    BY <1>1, <1>4, <1>5, <2>3 DEF IInv, DictInv, Ending
  <2> QED
    BY <1>1, <2>2, <2>3, <2>4, <2>5 DEF DictInv, CommitHeld, Completing
<1>8. CASE Spanned(t)
  <2>1. Opened(t, "commit") /\ "commit" \in Kinds
    BY <1>8 DEF BeforeCompletion, Kinds
  <2>2. Held(t)' = Held(t) \cup {"commit"} /\ \A u \in Threads \ {t} : Held(u)' = Held(u)
    BY <1>2, <1>5, <1>7, <1>8 DEF environ, Held, Kinds
  <2>3. /\ LiveInv' /\ live' \in [Threads -> [Kinds -> Nat]]
        /\ emitted' \in [Threads -> SUBSET Kinds]
    BY <1>2, <1>6, <2>1, <2>2, OpenedLive
  <2>4. TypeOK'
    BY <1>1, <1>2, <1>3, <1>7, <2>3 DEF IInv, TypeOK, environ, ends
  <2>5. PairsInv' /\ PhaseInv'
    BY <1>1, <1>2 DEF IInv, PairsInv, PhaseInv, environ
  <2> QED
    BY <1>7, <2>3, <2>4, <2>5 DEF IInv
<1>9. CASE ~Spanned(t)
  <2>1. UNCHANGED <<live, emitted>>
    BY <1>9 DEF BeforeCompletion
  <2>2. LiveInv'
    <3>1. \A u \in Threads : CommitHeld(u)' <=> CommitHeld(u)
      BY <1>5, <1>6, <1>7, <1>9
    <3> QED
      BY <1>2, <2>1, <3>1, SameLive DEF IInv, environ
  <2>3. TypeOK'
    BY <1>1, <1>2, <1>3, <1>7, <2>1 DEF IInv, TypeOK, environ, ends
  <2>4. PairsInv' /\ PhaseInv'
    BY <1>1, <1>2 DEF IInv, PairsInv, PhaseInv, environ
  <2> QED
    BY <1>7, <2>2, <2>3, <2>4 DEF IInv
<1> QED
  BY <1>8, <1>9

LEMMA AfterCompletionIInv ==
    ASSUME IInv, NEW t \in Threads, NEW from \in PCs, NEW to \in PCs,
           NEW e \in {"conflict", "error", None}, AfterCompletion(t, from, to, e),
           <<from, to>> \in {<<"completing", "succeeded">>, <<"completing", "failing">>,
                             <<"aborting", "failed">>}
    PROVE  IInv'
<1> DEFINE P == IF CommitOpen(t) THEN {"commit"} ELSE {}
<1>1. /\ pc' \in [Threads -> PCs] /\ pc[t] = from /\ pc'[t] = to
      /\ \A u \in Threads \ {t} : pc'[u] = pc[u]
      /\ exc' \in [Threads -> {"conflict", "error", None}]
  BY DEF IInv, TypeOK, AfterCompletion, Goto
<1>2. UNCHANGED <<enabled, context, environ, counts, path, attempt, ran, requests,
                  emitted, closed, stage, broken, ends>>
  BY DEF AfterCompletion
<1>3. /\ transaction' \in [Threads -> Addresses \cup {None}]
      /\ \A u \in Threads \ {t} : transaction'[u] = transaction[u]
      /\ transaction'[t] \in {transaction[t], None}
      /\ commitSpans' = commitSpans \ {transaction[t]} /\ commitSpans' \subseteq Addresses
  BY DEF IInv, TypeOK, AfterCompletion
<1>4. ~CommitOpen(t)' /\ ~CommitHeld(t)'
  BY <1>3, TracingNoneAssumption DEF CommitOpen, CommitHeld
<1>5. ASSUME NEW u \in Threads \ {t}
      PROVE  (CommitOpen(u)' <=> CommitOpen(u)) /\ (CommitHeld(u)' <=> CommitHeld(u))
  <2>1. CommitOpen(u) => transaction[u] # None
    BY TracingNoneAssumption DEF IInv, TypeOK, CommitOpen
  <2>2. CommitOpen(u)' <=> CommitOpen(u)
    BY <1>3, <2>1 DEF IInv, DictInv, CommitOpen
  <2> QED
    BY <1>1, <2>2 DEF CommitHeld
<1>6. Ended(t, P) /\ P \in SUBSET Held(t)
  BY <1>1 DEF AfterCompletion, Held, CommitHeld, Completing, Kinds
<1>7. Held(t)' = Held(t) \ P /\ \A u \in Threads \ {t} : Held(u)' = Held(u)
  BY <1>2, <1>4, <1>5 DEF environ, Held, CommitHeld, Kinds
<1>8. LiveInv' /\ live' \in [Threads -> [Kinds -> Nat]]
  BY <1>2, <1>6, <1>7, EndedLive
<1>9. TypeOK'
  BY <1>1, <1>2, <1>3, <1>8 DEF IInv, TypeOK, environ, ends
<1>10. PairsInv' /\ PhaseInv'
  BY <1>1, <1>2 DEF IInv, PairsInv, PhaseInv, environ
<1>11. DictInv'
  <2>1. commitSpans' \subseteq {transaction'[u] : u \in Threads}
    <3> SUFFICES ASSUME NEW c \in commitSpans' PROVE c \in {transaction'[u] : u \in Threads}
      OBVIOUS
    <3>1. PICK u \in Threads : c = transaction[u]
      BY <1>3 DEF IInv, DictInv
    <3>2. u # t
      BY <1>3, <3>1
    <3> QED
      BY <1>3, <3>1, <3>2
  <2>2. \A u, v \in Threads : u # v /\ transaction'[u] # None => transaction'[u] # transaction'[v]
    BY <1>3 DEF IInv, DictInv
  <2>3. \A u \in Threads : CommitOpen(u)' => pc'[u] \in Ending /\ Spanned(u)'
    BY <1>1, <1>2, <1>4, <1>5 DEF IInv, DictInv, Spanned, Tracing, Suppressed
  <2> QED
    BY <2>1, <2>2, <2>3 DEF DictInv
<1> QED
  BY <1>8, <1>9, <1>10, <1>11 DEF IInv

\* The span of a commit that is broken off is one more that nobody will end.
LEMMA SynchronizerIInv ==
    ASSUME IInv, NEW t \in Threads, NEW e \in {"conflict", "error"}, SynchronizerRaises(t, e)
    PROVE  IInv'
<1>1. /\ pc' \in [Threads -> PCs] /\ pc[t] = "completing" /\ pc'[t] = "failing"
      /\ \A u \in Threads \ {t} : pc'[u] = pc[u]
      /\ exc' \in [Threads -> {"conflict", "error", None}]
  BY DEF IInv, TypeOK, PCs, SynchronizerRaises, Goto
<1>2. UNCHANGED <<enabled, context, environ, commitSpans, counts, path, attempt, ran, requests,
                  transaction, live, emitted, closed, stage, ends>>
  BY DEF SynchronizerRaises
<1>3. /\ broken' \in [Threads -> Nat] /\ \A u \in Threads \ {t} : broken'[u] = broken[u]
      /\ broken[t] \in Nat /\ broken'[t] = IF CommitOpen(t) THEN broken[t] + 1 ELSE broken[t]
  <2>1. broken \in [Threads -> Nat] /\ broken[t] \in Nat /\ broken[t] + 1 \in Nat
    BY DEF IInv, TypeOK
  <2>2. broken' = IF CommitOpen(t) THEN [broken EXCEPT ![t] = broken[t] + 1] ELSE broken
    BY DEF SynchronizerRaises
  <2> QED
    BY <2>1, <2>2
<1>4. \A u \in Threads : CommitOpen(u)' <=> CommitOpen(u)
  BY <1>2 DEF CommitOpen
<1>5. DictInv'
  BY <1>1, <1>2, <1>4 DEF IInv, DictInv, Ending, Spanned, Tracing, Suppressed
<1>6. ASSUME NEW u \in Threads PROVE live'[u] = OneOf(Held(u)', broken'[u])
  <2>1. live'[u] = OneOf(Held(u), broken[u])
    BY <1>2 DEF IInv, LiveInv
  <2>2. CASE u # t
    <3>1. CommitHeld(u)' <=> CommitHeld(u)
      BY <1>1, <1>4, <2>2 DEF CommitHeld
    <3>2. Held(u)' = Held(u)
      BY <1>2, <3>1 DEF Held, environ
    <3> QED
      BY <1>3, <2>1, <2>2, <3>2
  <2>3. CASE u = t
    <3>1. /\ Held(t)' = Held(t) \ {"commit"}
          /\ "commit" \in Held(t) <=> CommitOpen(t)
      BY <1>1, <1>2 DEF Held, environ, CommitHeld, Completing, Kinds
    <3>2. OneOf(Held(t), broken[t]) = OneOf(Held(t)', broken'[t])
      BY <1>3, <3>1 DEF OneOf
    <3> QED
      BY <2>1, <2>3, <3>2
  <2> QED
    BY <2>2, <2>3
<1>7. TypeOK'
  BY <1>1, <1>2, <1>3 DEF IInv, TypeOK, environ, ends
<1>8. PairsInv' /\ PhaseInv'
  BY <1>1, <1>2 DEF IInv, PairsInv, PhaseInv, environ
<1> QED
  BY <1>5, <1>6, <1>7, <1>8 DEF IInv, LiveInv

LEMMA BeforeAbortIInv ==
    ASSUME IInv, NEW t \in Threads, OnPubBeforeAbort(t) PROVE IInv'
<1>1. counts' \in [BOOLEAN -> Nat]
  <2>1. \A r \in BOOLEAN : [counts EXCEPT ![r] = @ + 1] \in [BOOLEAN -> Nat]
    BY DEF IInv, TypeOK
  <2>2. Retries(t) \in BOOLEAN
    BY DEF Retries
  <2> QED
    BY <2>1, <2>2 DEF IInv, TypeOK, OnPubBeforeAbort
<1>2. TypeOK'
  BY <1>1 DEF IInv, TypeOK, PCs, OnPubBeforeAbort, Goto, environ, history, ends
<1>3. NoCompletion
  BY DEF IInv, TypeOK, NoCompletion, Completing, Ending, OnPubBeforeAbort, Goto, environ, history
<1>4. LiveInv' /\ DictInv'
  BY <1>3, SameSpans DEF OnPubBeforeAbort, environ, history
<1>5. PairsInv' /\ PhaseInv'
  BY DEF IInv, TypeOK, PairsInv, PhaseInv, OnPubBeforeAbort, Goto, environ
<1> QED
  BY <1>2, <1>4, <1>5 DEF IInv

\* The end of an attempt.
LEMMA NextAttemptIInv ==
    ASSUME IInv, NEW t \in Threads, Retry(t) \/ Respond(t) PROVE IInv'
<1>1. /\ pc[t] \in {"done", "doneFailed"}
      /\ \E to \in {"start", "idle"} : NextAttempt(t, to)
  BY DEF Retry, Respond
<1>2. PICK to \in {"start", "idle"} : NextAttempt(t, to)
  BY <1>1
<1>3. attempt' \in [Threads -> 0..MaxRetries]
  <2>1. CASE Retry(t)
    <3>1. attempt[t] \in 0..MaxRetries /\ attempt[t] < MaxRetries
      BY <2>1 DEF IInv, TypeOK, Retry, Retries
    <3>2. attempt[t] + 1 \in 0..MaxRetries
      BY <3>1, TracingAssumption
    <3>3. attempt' = [attempt EXCEPT ![t] = attempt[t] + 1]
      BY <2>1 DEF Retry
    <3> QED
      BY <3>2, <3>3 DEF IInv, TypeOK
  <2>2. CASE Respond(t)
    BY <2>2 DEF IInv, TypeOK, Respond
  <2> QED
    BY <2>1, <2>2
<1>4. retried' \in Nat /\ gaveUp' \in Nat
  <2>1. retried \in Nat /\ gaveUp \in Nat
    BY DEF IInv, TypeOK
  <2>2. CASE Retry(t)
    <3>1. retried' = retried + 1 /\ gaveUp' = gaveUp
      BY <2>2 DEF Retry
    <3> QED
      BY <2>1, <3>1
  <2>3. CASE Respond(t)
    <3>1. retried' = retried /\ (gaveUp' = gaveUp + 1 \/ gaveUp' = gaveUp)
      BY <2>3 DEF Respond
    <3> QED
      BY <2>1, <3>1
  <2> QED
    BY <2>2, <2>3
<1>5. /\ pc' \in [Threads -> PCs]
      /\ exc' \in [Threads -> {"conflict", "error", None}]
  BY <1>2 DEF IInv, TypeOK, PCs, NextAttempt
<1>6. ran' \in [Threads -> 0..MaxTransforms]
  BY <1>2, TracingAssumption DEF IInv, TypeOK, NextAttempt
<1>7. closed' \in [Threads -> Seq({"ok", "error"})]
  <2>1. <<>> \in Seq({"ok", "error"})
    OBVIOUS
  <2> QED
    BY <1>2, <2>1 DEF IInv, TypeOK, NextAttempt
<1>8. /\ DictInv' /\ transaction' \in [Threads -> Addresses \cup {None}]
       /\ \A u \in Threads : CommitHeld(u)' <=> CommitHeld(u)
  <2>1. /\ pc[t] \notin Ending /\ pc'[t] \notin Completing
        /\ \A u \in Threads \ {t} : pc'[u] = pc[u]
        /\ UNCHANGED <<enabled, context, commitSpans, broken>>
    BY <1>1, <1>2 DEF IInv, TypeOK, NextAttempt, Ending, Completing
  <2>2. CASE Retry(t)
    BY <2>1, <2>2, BeginDict DEF Retry
  <2>3. CASE Respond(t)
    <3>1. transaction' = transaction
      BY <2>3 DEF Respond
    <3>2. NoCompletion
      BY <2>1, <3>1 DEF NoCompletion
    <3> QED
      BY <3>1, <3>2, SameDict DEF IInv, TypeOK
  <2> QED
    BY <2>2, <2>3
<1>9. /\ emitted' \in [Threads -> SUBSET Kinds]
       /\ stage' \in [Threads -> {"unseen", "open", "over"}]
  BY <1>2 DEF IInv, TypeOK, NextAttempt, Staged
<1>10. TypeOK'
  BY <1>2, <1>3, <1>4, <1>5, <1>6, <1>7, <1>8, <1>9 DEF IInv, TypeOK, NextAttempt, environ
<1>11. LiveInv'
  BY <1>2, <1>8, SameLive DEF IInv, NextAttempt, environ
<1>12. PairsInv' /\ PhaseInv'
  BY <1>1, <1>2 DEF IInv, TypeOK, PairsInv, PhaseInv, NextAttempt, environ
<1> QED
  BY <1>8, <1>10, <1>11, <1>12 DEF IInv

\* Every step preserves it.
LEMMA StepIInv == IInv /\ [Next]_vars => IInv'
<1> SUFFICES ASSUME IInv, [Next]_vars PROVE IInv'
  OBVIOUS
<1>1. CASE UNCHANGED vars
  <2>1. TypeOK'
    BY <1>1 DEF IInv, TypeOK, vars, environ, publisher, history, ends
  <2>2. LiveInv' /\ DictInv'
    <3>1. NoCompletion
      BY <1>1 DEF NoCompletion, vars, publisher, history
    <3> QED
      BY <1>1, <3>1, SameSpans DEF vars, environ, history
  <2>3. PairsInv' /\ PhaseInv'
    BY <1>1 DEF IInv, PairsInv, PhaseInv, vars, environ, publisher
  <2> QED
    BY <2>1, <2>2, <2>3 DEF IInv
<1>2. ASSUME NEW t \in Threads, Handle(t) PROVE IInv'
  <2>1. ASSUME NEW p \in {"traced", "excluded"}, Arrive(t, p) PROVE IInv'
    BY <2>1, ArriveIInv
  <2>2. CASE Start(t)
    BY <2>2, StartIInv
  <2>3. CASE Publish(t)
    <3>1. CASE Subrequest(t) \/ CatalogQuery(t)
      BY <3>1, WrappedIInv DEF Subrequest, CatalogQuery, Kinds
    <3>2. CASE Passes(t, "publish", "returned")
      BY <3>2, PassesIInv DEF PCs
    <3>3. ASSUME NEW e \in {"conflict", "error"}, Fails(t, "publish", e) PROVE IInv'
      BY <3>3, FailsIInv DEF PCs, Ending
    <3> QED
      BY <2>3, <3>1, <3>2, <3>3 DEF Publish
  <2>4. CASE Transform(t)
    <3>1. CASE OnAfterTransforms(t)
      BY <3>1, FinishChainIInv DEF OnAfterTransforms, PCs
    <3>2. CASE TransformRaises(t) \/ NoTransforms(t)
      BY <3>2, PassesIInv DEF TransformRaises, NoTransforms, PCs
    <3>3. CASE TransformConflicts(t)
      BY <3>3, FailsIInv DEF TransformConflicts, PCs, Ending
    <3> QED
      BY <2>4, <3>1, <3>2, <3>3, BeforeTransformsIInv, BeforeSingleIInv, AfterSingleIInv
      DEF Transform
  <2>5. CASE Commit(t)
    <3>1. CASE BeforeCompletion(t, "commit", "completing")
      BY <3>1, BeforeCompletionIInv DEF PCs
    <3>2. CASE AfterCompletion(t, "completing", "succeeded", None)
      BY <3>2, AfterCompletionIInv DEF PCs
    <3>3. ASSUME NEW e \in {"conflict", "error"},
                 AfterCompletion(t, "completing", "failing", e)
          PROVE  IInv'
      BY <3>3, AfterCompletionIInv DEF PCs
    <3> QED
      BY <2>5, <3>1, <3>2, <3>3, SynchronizerIInv DEF Commit
  <2>6. CASE Succeed(t)
    <3>1. CASE OnPubSuccess(t)
      BY <3>1, FinishPublishIInv DEF OnPubSuccess, PCs
    <3>2. CASE FlushOnSuccess(t)
      BY <3>2, FinishChainIInv DEF FlushOnSuccess, PCs
    <3> QED
      BY <2>6, <3>1, <3>2 DEF Succeed
  <2>7. CASE SubscriberRaises(t)
    BY <2>7, FailsIInv DEF SubscriberRaises, PCs, Ending
  <2>8. CASE Abort(t)
    <3>1. CASE BeforeCompletion(t, "abort", "aborting")
      BY <3>1, BeforeCompletionIInv DEF PCs
    <3>2. CASE AfterCompletion(t, "aborting", "failed", exc[t])
      <4>1. exc[t] \in {"conflict", "error", None}
        BY DEF IInv, TypeOK
      <4> QED
        BY <3>2, <4>1, AfterCompletionIInv DEF PCs
    <3>3. CASE OnPubFailure(t)
      BY <3>3, FinishPublishIInv DEF OnPubFailure, PCs
    <3>4. CASE FlushOnFailure(t)
      BY <3>4, FinishChainIInv DEF FlushOnFailure, PCs
    <3> QED
      BY <2>8, <3>1, <3>2, <3>3, <3>4, BeforeAbortIInv DEF Abort
  <2> QED
    BY <1>2, <2>1, <2>2, <2>3, <2>4, <2>5, <2>6, <2>7, <2>8, NextAttemptIInv DEF Handle
<1> QED
  BY <1>1, <1>2 DEF Next, Quiet

LEMMA InvariantHolds == Spec => []IInv
BY InitIInv, StepIInv, PTL DEF Spec

(* Type correctness of the subscribers' state.                              *)
THEOREM TracingTypeCorrect == Spec => []TypeOK
<1>1. IInv => TypeOK
  BY DEF IInv
<1> QED
  BY <1>1, InvariantHolds, PTL

(* Whatever transforms, commits and other subscribers do, a thread between  *)
(* two attempts has no open span, no foreign context and no key left.       *)
THEOREM NothingIsLeftBehind == Spec => []NothingLeftBehind
<1>1. IInv => NothingLeftBehind
  <2> SUFFICES ASSUME IInv, NEW t \in Threads, pc[t] \in {"idle", "start"}
               PROVE  /\ live[t] = [k \in Kinds |-> IF k = "commit" THEN broken[t] ELSE 0]
                      /\ context[t] = "outer" /\ token[t] = None
                      /\ ~span[t] /\ ~baseline[t] /\ ~chain[t] /\ ~single[t]
                      /\ chainCount[t] = None
                      /\ ~CommitOpen(t)
    BY DEF NothingLeftBehind, IInv, DictInv
  <2>1. /\ ~span[t] /\ token[t] = None /\ ~chain[t] /\ ~single[t]
        /\ ~CommitOpen(t) /\ broken[t] \in Nat
    BY DEF IInv, PhaseInv, DictInv, Ending, TypeOK
  <2>2. context[t] = "outer" /\ ~baseline[t] /\ chainCount[t] = None
    BY <2>1 DEF IInv, PairsInv
  <2>3. Held(t) = {}
    BY <2>1 DEF Held, CommitHeld
  <2>4. live[t] = [k \in Kinds |-> IF k = "commit" THEN broken[t] ELSE 0]
    <3>1. live[t] = OneOf({}, broken[t])
      BY <2>3 DEF IInv, LiveInv
    <3>2. OneOf({}, broken[t]) = [k \in Kinds |-> IF k = "commit" THEN broken[t] ELSE 0]
      BY <2>1 DEF OneOf
    <3> QED
      BY <3>1, <3>2
  <2> QED
    BY <2>1, <2>2, <2>4
<1> QED
  BY <1>1, InvariantHolds, PTL

-----------------------------------------------------------------------------
(* The course of an attempt, on top of the invariant above.                *)

TracedPath(t) == enabled /\ path[t] = "traced"

\* The publish span, or the suppression, is in force.
Running(t) ==
    /\ stage[t] = "open" /\ closed[t] = <<>>
    /\ span[t] <=> TracedPath(t)
    /\ token[t] = IF enabled THEN "outer" ELSE None
    /\ context[t] = IF ~enabled THEN "outer"
                    ELSE IF path[t] = "traced" THEN "publish" ELSE "suppressed"

\* It is not, because another subscriber raised before or after.
Outside(t) ==
    /\ MayRaise /\ stage[t] # "open"
    /\ ~span[t] /\ token[t] = None
    /\ closed[t] = IF TracedPath(t) /\ stage[t] = "over" THEN <<"ok">> ELSE <<>>

AttemptOf(t) ==
    /\ pc[t] \in {"idle", "start"} =>
          closed[t] = <<>> /\ stage[t] = "unseen" /\ emitted[t] = {}
    /\ pc[t] \in {"publish", "returned", "chain", "transform",
                  "commit", "completing", "succeeded"} => Running(t)
    /\ pc[t] \in {"chain", "transform"} /\ chain[t] => TracedPath(t)
    /\ pc[t] \in {"flush", "done"} =>
          stage[t] = "over" /\ closed[t] = IF TracedPath(t) THEN <<"ok">> ELSE <<>>
    /\ pc[t] \in {"failing", "abort", "aborting", "failed"} => Running(t) \/ Outside(t)
    /\ pc[t] \in {"flushFailed", "doneFailed"} =>
          \/ stage[t] = "open" /\ closed[t] = IF TracedPath(t) THEN <<"error">> ELSE <<>>
          \/ Outside(t)

\* Nothing is started on an excluded path but an abort outside.
SilentOf(t) ==
    (path[t] = "excluded" /\ pc[t] # "idle") =>
        \/ emitted[t] = {}
        \/ /\ MayRaise /\ stage[t] # "open" /\ emitted[t] = {"commit"}
           /\ pc[t] \in {"aborting", "failed", "flushFailed", "doneFailed"}

AInv == \A t \in Threads : AttemptOf(t) /\ SilentOf(t)

\* What these are about, of one thread.
local(t) ==
    <<enabled, path[t], pc[t], span[t], token[t], context[t], chain[t],
      closed[t], emitted[t], stage[t]>>

LEMMA AppendToEmpty == \A e : Append(<<>>, e) = <<e>>
OBVIOUS

LEMMA SameAttempt ==
    ASSUME NEW t \in Threads, AttemptOf(t), SilentOf(t), UNCHANGED local(t)
    PROVE  AttemptOf(t)' /\ SilentOf(t)'
BY DEF AttemptOf, SilentOf, Running, Outside, TracedPath, local

LEMMA OthersSame ==
    ASSUME AInv, NEW t \in Threads,
           \A u \in Threads \ {t} : UNCHANGED local(u),
           AttemptOf(t)' /\ SilentOf(t)'
    PROVE  AInv'
<1> SUFFICES ASSUME NEW u \in Threads PROVE AttemptOf(u)' /\ SilentOf(u)'
  BY DEF AInv
<1>1. CASE u = t
  BY <1>1
<1>2. CASE u # t
  BY <1>2, SameAttempt DEF AInv
<1> QED
  BY <1>1, <1>2

LEMMA InitAInv == Init => AInv
BY DEF Init, AInv, AttemptOf, SilentOf

LEMMA ArriveAInv ==
    ASSUME IInv, AInv, NEW t \in Threads, NEW p \in {"traced", "excluded"}, Arrive(t, p)
    PROVE  AInv'
<1>1. \A u \in Threads \ {t} : UNCHANGED local(u)
  BY DEF IInv, TypeOK, local, Arrive, Goto, environ, history, ends
<1>2. AttemptOf(t) /\ SilentOf(t)
  BY DEF AInv
<1>3. /\ pc[t] = "idle" /\ pc'[t] = "start"
      /\ UNCHANGED <<enabled, closed, stage, emitted>>
  BY DEF IInv, TypeOK, Arrive, Goto, history
<1>4. AttemptOf(t)'
  BY <1>2, <1>3 DEF AttemptOf
<1>5. SilentOf(t)'
  BY <1>2, <1>3 DEF SilentOf, AttemptOf
<1> QED
  BY <1>1, <1>4, <1>5, OthersSame

LEMMA StartAInv ==
    ASSUME IInv, AInv, NEW t \in Threads, Start(t)
    PROVE  AInv'
<1>1. \A u \in Threads \ {t} : UNCHANGED local(u)
  BY DEF IInv, TypeOK, local, Start, StartUntraced, StartSuppressed, StartTraced,
         Goto, environ, ends, Opened, Staged
<1>2. AttemptOf(t) /\ SilentOf(t)
  BY DEF AInv
<1>3. pc[t] = "start" /\ pc'[t] = "publish"
  BY DEF IInv, TypeOK, Start, StartUntraced, StartSuppressed, StartTraced, Goto
<1>4. UNCHANGED <<enabled, path, closed>>
  BY DEF Start, StartUntraced, StartSuppressed, StartTraced
<1>5. Running(t)'
  <2>1. closed'[t] = <<>> /\ stage'[t] = "open"
    <3>1. stage' = [stage EXCEPT ![t] = "open"]
      BY DEF Start, StartUntraced, StartSuppressed, StartTraced, Staged
    <3> QED
      BY <1>2, <1>3, <1>4, <3>1 DEF AttemptOf, IInv, TypeOK
  <2>2. ~span[t] /\ token[t] = None /\ context[t] = "outer"
    BY <1>3 DEF IInv, PairsInv, PhaseInv
  <2>3. path[t] \in {"traced", "excluded"}
    BY DEF IInv, TypeOK
  <2>4. CASE StartUntraced(t)
    BY <1>4, <2>1, <2>2, <2>4 DEF Running, TracedPath, StartUntraced, environ
  <2>5. CASE StartSuppressed(t)
    BY <1>4, <2>1, <2>2, <2>5
    DEF IInv, TypeOK, Running, TracedPath, StartSuppressed
  <2>6. CASE StartTraced(t)
    BY <1>4, <2>1, <2>2, <2>6
    DEF IInv, TypeOK, Running, TracedPath, StartTraced
  <2> QED
    BY <2>4, <2>5, <2>6 DEF Start
<1>6. SilentOf(t)'
  <2>1. path[t] = "excluded" => emitted' = emitted /\ emitted[t] = {}
    BY <1>2, <1>3 DEF SilentOf, Start, StartUntraced, StartSuppressed, StartTraced
  <2> QED
    BY <1>4, <2>1 DEF SilentOf
<1> QED
  BY <1>1, <1>3, <1>5, <1>6, OthersSame DEF AttemptOf

LEMMA WrappedAInv ==
    ASSUME IInv, AInv, NEW t \in Threads, NEW k \in Kinds, Wrapped(t, k)
    PROVE  AInv'
<1>1. \A u \in Threads \ {t} : UNCHANGED local(u)
  BY DEF IInv, TypeOK, local, Wrapped, Tracing, Suppressed, environ, publisher, ends
<1>2. AttemptOf(t) /\ SilentOf(t)
  BY DEF AInv
<1>3. AttemptOf(t)' /\ SilentOf(t)'
  BY <1>2 DEF IInv, TypeOK, PairsInv, PhaseInv, AttemptOf, SilentOf, Running, Outside,
      TracedPath, Wrapped, Tracing, Suppressed, environ, publisher, ends
<1> QED
  BY <1>1, <1>3, OthersSame

LEMMA PassesAInv ==
    ASSUME IInv, AInv, NEW t \in Threads, NEW from \in PCs, NEW to \in PCs, Passes(t, from, to),
           <<from, to>> \in {<<"publish", "returned">>, <<"returned", "commit">>,
                             <<"chain", "commit">>, <<"transform", "commit">>}
    PROVE  AInv'
<1>1. \A u \in Threads \ {t} : UNCHANGED local(u)
  BY DEF IInv, TypeOK, local, Passes, Goto, environ, history, ends
<1>2. AttemptOf(t) /\ SilentOf(t)
  BY DEF AInv
<1>3. AttemptOf(t)' /\ SilentOf(t)'
  BY <1>2 DEF IInv, TypeOK, PairsInv, PhaseInv, AttemptOf, SilentOf, Running, Outside,
      TracedPath, Passes, Goto, environ, history, ends
<1> QED
  BY <1>1, <1>3, OthersSame

LEMMA FailsAInv ==
    ASSUME IInv, AInv, NEW t \in Threads, NEW from \in PCs, NEW e \in {"conflict", "error"},
           Fails(t, from, e),
           \/ from \in {"publish", "chain", "transform"}
           \/ MayRaise /\ from \in {"start", "returned", "commit", "succeeded", "flush", "done"}
    PROVE  AInv'
<1>1. \A u \in Threads \ {t} : UNCHANGED local(u)
  BY DEF IInv, TypeOK, local, Fails, Goto, environ, history, ends
<1>2. AttemptOf(t) /\ SilentOf(t)
  BY DEF AInv
<1>3. pc[t] = from /\ pc'[t] = "failing"
  BY DEF IInv, TypeOK, Fails, Goto
<1>4. UNCHANGED <<enabled, path, span, token, context, closed, emitted, stage>>
  BY DEF Fails, environ, history
<1>5. Running(t) \/ Outside(t)
  <2>1. CASE from \in {"start", "flush", "done"}
    <3>1. ~span[t] /\ token[t] = None
      BY <1>3, <2>1 DEF IInv, PhaseInv
    <3>2. MayRaise
      BY <2>1
    <3>3. /\ stage[t] # "open"
          /\ closed[t] = IF TracedPath(t) /\ stage[t] = "over" THEN <<"ok">> ELSE <<>>
      BY <1>2, <1>3, <2>1 DEF AttemptOf
    <3> QED
      BY <3>1, <3>2, <3>3 DEF Outside
  <2>2. CASE from \notin {"start", "flush", "done"}
    BY <1>2, <1>3, <2>2 DEF AttemptOf
  <2> QED
    BY <2>1, <2>2
<1>6. AttemptOf(t)'
  BY <1>3, <1>4, <1>5 DEF AttemptOf, Running, Outside, TracedPath
<1>7. SilentOf(t)'
  BY <1>2, <1>3, <1>4 DEF SilentOf
<1> QED
  BY <1>1, <1>6, <1>7, OthersSame

LEMMA BeforeTransformsAInv ==
    ASSUME IInv, AInv, NEW t \in Threads, OnBeforeTransforms(t)
    PROVE  AInv'
<1>1. \A u \in Threads \ {t} : UNCHANGED local(u)
  BY DEF IInv, TypeOK, local, OnBeforeTransforms, Goto, Opened, ends
<1>2. AttemptOf(t) /\ SilentOf(t)
  BY DEF AInv
<1>3. pc[t] = "returned" /\ pc'[t] = "chain"
  BY DEF IInv, TypeOK, OnBeforeTransforms, Goto
<1>4. Running(t) /\ UNCHANGED <<enabled, path, span, token, context, closed>>
  BY <1>2, <1>3 DEF AttemptOf, OnBeforeTransforms
<1>5. AttemptOf(t)'
  <2>1. chain'[t] => TracedPath(t)
    <3>1. ~chain[t]
      BY <1>3 DEF IInv, PhaseInv
    <3>2. path[t] \in {"traced", "excluded"}
      BY DEF IInv, TypeOK
    <3>3. CASE Tracing(t)
      BY <1>4, <3>2, <3>3 DEF Running, TracedPath, Tracing, Suppressed
    <3>4. CASE ~Tracing(t)
      BY <3>1, <3>4 DEF OnBeforeTransforms
    <3> QED
      BY <3>3, <3>4
  <2>2. Running(t)' /\ (TracedPath(t)' <=> TracedPath(t))
    <3>1. stage'[t] = stage[t]
      BY DEF OnBeforeTransforms
    <3> QED
      BY <1>4, <3>1 DEF Running, TracedPath
  <2> QED
    BY <1>3, <2>1, <2>2 DEF AttemptOf
<1>6. SilentOf(t)'
  <2>1. CASE path[t] = "excluded"
    <3>1. ~Tracing(t)
      BY <1>4, <2>1 DEF Running, Tracing, Suppressed
    <3>2. emitted' = emitted
      BY <3>1 DEF OnBeforeTransforms
    <3> QED
      BY <1>2, <1>3, <1>4, <3>2 DEF SilentOf
  <2>2. CASE path[t] # "excluded"
    BY <1>4, <2>2 DEF SilentOf
  <2> QED
    BY <2>1, <2>2
<1> QED
  BY <1>1, <1>5, <1>6, OthersSame

LEMMA BeforeSingleAInv ==
    ASSUME IInv, AInv, NEW t \in Threads, OnBeforeSingleTransform(t)
    PROVE  AInv'
<1>1. \A u \in Threads \ {t} : UNCHANGED local(u)
  BY DEF IInv, TypeOK, local, OnBeforeSingleTransform, Goto, Opened, ends
<1>2. AttemptOf(t) /\ SilentOf(t)
  BY DEF AInv
<1>3. AttemptOf(t)' /\ SilentOf(t)'
  BY <1>2 DEF IInv, TypeOK, PairsInv, PhaseInv, AttemptOf, SilentOf, Running, Outside,
      TracedPath, OnBeforeSingleTransform, Goto, Opened, ends
<1> QED
  BY <1>1, <1>3, OthersSame

LEMMA AfterSingleAInv ==
    ASSUME IInv, AInv, NEW t \in Threads, OnAfterSingleTransform(t)
    PROVE  AInv'
<1>1. \A u \in Threads \ {t} : UNCHANGED local(u)
  BY DEF IInv, TypeOK, local, OnAfterSingleTransform, Goto, ends
<1>2. AttemptOf(t) /\ SilentOf(t)
  BY DEF AInv
<1>3. AttemptOf(t)' /\ SilentOf(t)'
  BY <1>2 DEF IInv, TypeOK, PairsInv, PhaseInv, AttemptOf, SilentOf, Running, Outside,
      TracedPath, OnAfterSingleTransform, Goto, ends
<1> QED
  BY <1>1, <1>3, OthersSame

LEMMA FinishChainAInv ==
    ASSUME IInv, AInv, NEW t \in Threads, NEW from \in PCs, NEW to \in PCs,
           Goto(t, from, to), FinishChain(t),
           <<from, to>> \in {<<"chain", "commit">>, <<"flush", "done">>,
                             <<"flushFailed", "doneFailed">>}
    PROVE  AInv'
<1>1. \A u \in Threads \ {t} : UNCHANGED local(u)
  BY DEF IInv, TypeOK, local, FinishChain, Goto, ends
<1>2. AttemptOf(t) /\ SilentOf(t)
  BY DEF AInv
<1>3. AttemptOf(t)' /\ SilentOf(t)'
  BY <1>2 DEF IInv, TypeOK, PairsInv, PhaseInv, AttemptOf, SilentOf, Running, Outside,
      TracedPath, FinishChain, Goto, ends
<1> QED
  BY <1>1, <1>3, OthersSame

LEMMA AfterCompletionAInv ==
    ASSUME IInv, AInv, NEW t \in Threads, NEW from \in PCs, NEW to \in PCs,
           NEW e \in {"conflict", "error", None}, AfterCompletion(t, from, to, e),
           <<from, to>> \in {<<"completing", "succeeded">>, <<"completing", "failing">>,
                             <<"aborting", "failed">>}
    PROVE  AInv'
<1>1. \A u \in Threads \ {t} : UNCHANGED local(u)
  BY DEF IInv, TypeOK, local, AfterCompletion, Goto, environ, ends
<1>2. AttemptOf(t) /\ SilentOf(t)
  BY DEF AInv
<1>3. pc[t] = from /\ pc'[t] = to
  BY DEF IInv, TypeOK, AfterCompletion, Goto
<1>4. UNCHANGED <<enabled, path, span, token, context, closed, emitted, stage>>
  BY DEF AfterCompletion, environ
<1>5. AttemptOf(t)'
  BY <1>2, <1>3, <1>4 DEF AttemptOf, Running, Outside, TracedPath
<1>6. SilentOf(t)'
  BY <1>2, <1>3, <1>4 DEF SilentOf
<1> QED
  BY <1>1, <1>5, <1>6, OthersSame

LEMMA SynchronizerAInv ==
    ASSUME IInv, AInv, NEW t \in Threads, NEW e, SynchronizerRaises(t, e)
    PROVE  AInv'
<1>1. \A u \in Threads \ {t} : UNCHANGED local(u)
  BY DEF IInv, TypeOK, local, SynchronizerRaises, Goto, environ, ends
<1>2. AttemptOf(t) /\ SilentOf(t)
  BY DEF AInv
<1>3. pc[t] = "completing" /\ pc'[t] = "failing"
  BY DEF IInv, TypeOK, SynchronizerRaises, Goto
<1>4. UNCHANGED <<enabled, path, span, token, context, closed, emitted, stage>>
  BY DEF SynchronizerRaises, environ
<1>5. AttemptOf(t)'
  BY <1>2, <1>3, <1>4 DEF AttemptOf, Running, TracedPath
<1>6. SilentOf(t)'
  BY <1>2, <1>3, <1>4 DEF SilentOf
<1> QED
  BY <1>1, <1>5, <1>6, OthersSame

LEMMA BeforeAbortAInv ==
    ASSUME IInv, AInv, NEW t \in Threads, OnPubBeforeAbort(t)
    PROVE  AInv'
<1>1. \A u \in Threads \ {t} : UNCHANGED local(u)
  BY DEF IInv, TypeOK, local, OnPubBeforeAbort, Goto, environ, history, ends
<1>2. AttemptOf(t) /\ SilentOf(t)
  BY DEF AInv
<1>3. AttemptOf(t)' /\ SilentOf(t)'
  BY <1>2 DEF IInv, TypeOK, PairsInv, PhaseInv, AttemptOf, SilentOf, Running, Outside,
      TracedPath, OnPubBeforeAbort, Goto, environ, history, ends
<1> QED
  BY <1>1, <1>3, OthersSame

LEMMA NextAttemptAInv ==
    ASSUME IInv, AInv, NEW t \in Threads, Retry(t) \/ Respond(t)
    PROVE  AInv'
<1>1. \A u \in Threads \ {t} : UNCHANGED local(u)
  BY DEF IInv, TypeOK, local, Retry, Respond, NextAttempt, Staged, environ
<1>2. /\ pc'[t] \in {"start", "idle"} /\ closed'[t] = <<>> /\ stage'[t] = "unseen"
      /\ emitted'[t] = {}
  BY DEF IInv, TypeOK, Retry, Respond, NextAttempt, Staged
<1>3. AttemptOf(t)' /\ SilentOf(t)'
  BY <1>2 DEF AttemptOf, SilentOf
<1> QED
  BY <1>1, <1>3, OthersSame

LEMMA BeforeCompletionAInv ==
    ASSUME IInv, AInv, NEW t \in Threads, NEW from \in PCs, NEW to \in PCs,
           BeforeCompletion(t, from, to),
           <<from, to>> \in {<<"commit", "completing">>, <<"abort", "aborting">>}
    PROVE  AInv'
<1>1. \A u \in Threads \ {t} : UNCHANGED local(u)
  BY DEF IInv, TypeOK, local, BeforeCompletion, Goto, Opened, environ, ends
<1>2. AttemptOf(t) /\ SilentOf(t)
  BY DEF AInv
<1>3. pc[t] = from /\ pc'[t] = to
  BY DEF IInv, TypeOK, BeforeCompletion, Goto
<1>4. UNCHANGED <<enabled, path, span, token, context, closed, stage>>
  BY DEF BeforeCompletion, environ
<1>5. AttemptOf(t)'
  BY <1>2, <1>3, <1>4 DEF AttemptOf, Running, Outside, TracedPath
<1>6. SilentOf(t)'
  <2> SUFFICES ASSUME path[t] = "excluded" PROVE SilentOf(t)'
    BY <1>4 DEF SilentOf
  <2>1. emitted[t] = {}
    BY <1>2, <1>3 DEF SilentOf
  <2>2. CASE Running(t)
    <3>1. ~Tracing(t)
      BY <2>2 DEF Running, Tracing, Suppressed
    <3>2. emitted' = emitted
      BY <3>1 DEF BeforeCompletion, Spanned
    <3> QED
      BY <2>1, <3>2 DEF SilentOf
  <2>3. CASE Outside(t) /\ to = "aborting"
    <3>1. emitted'[t] \in {{}, {"commit"}}
      BY <2>1 DEF IInv, TypeOK, BeforeCompletion, Opened
    <3> QED
      BY <1>3, <1>4, <2>3, <3>1 DEF SilentOf, Outside
  <2> QED
    BY <1>2, <1>3, <2>2, <2>3 DEF AttemptOf
<1> QED
  BY <1>1, <1>5, <1>6, OthersSame

\* The end of the publish span, in either event.
LEMMA FinishPublishAInv ==
    ASSUME IInv, AInv, NEW t \in Threads, NEW from \in PCs, NEW to \in PCs,
           NEW status \in {"ok", "error"},
           Goto(t, from, to), FinishPublish(t, status),
           \/ <<from, to, status>> = <<"succeeded", "flush", "ok">> /\ Staged(t, "over")
           \/ <<from, to, status>> = <<"failed", "flushFailed", "error">> /\ stage' = stage
    PROVE  AInv'
<1>1. \A u \in Threads \ {t} : UNCHANGED local(u)
  BY DEF IInv, TypeOK, local, FinishPublish, Goto, Staged, ends
<1>2. AttemptOf(t) /\ SilentOf(t)
  BY DEF AInv
<1>3. pc[t] = from /\ pc'[t] = to
  BY DEF IInv, TypeOK, Goto
<1>4. UNCHANGED <<enabled, path, emitted>>
  BY DEF FinishPublish
<1>5. stage'[t] = IF status = "ok" THEN "over" ELSE stage[t]
  BY DEF IInv, TypeOK, Staged
<1>6. SilentOf(t)'
  BY <1>2, <1>3, <1>4, <1>5 DEF SilentOf
<1>7. CASE Running(t)
  <2>1. closed'[t] = IF TracedPath(t) THEN <<status>> ELSE <<>>
    <3>1. closed[t] = <<>> /\ Append(<<>>, status) = <<status>>
      BY <1>7, AppendToEmpty DEF Running
    <3>2. CASE span[t]
      <4>1. closed' = [closed EXCEPT ![t] = Append(closed[t], status)]
        BY <3>2 DEF FinishPublish
      <4> QED
        BY <1>7, <3>1, <3>2, <4>1 DEF IInv, TypeOK, Running
    <3>3. CASE ~span[t]
      BY <1>7, <3>3 DEF Running, FinishPublish
    <3> QED
      BY <3>2, <3>3
  <2>2. AttemptOf(t)'
    BY <1>3, <1>4, <1>5, <1>7, <2>1 DEF AttemptOf, Running, TracedPath
  <2> QED
    BY <1>1, <1>6, <2>2, OthersSame
<1>8. CASE Outside(t) /\ to = "flushFailed"
  <2>1. UNCHANGED closed /\ ~span'[t] /\ token'[t] = None /\ stage'[t] = stage[t]
    BY <1>5, <1>8 DEF IInv, TypeOK, Outside, FinishPublish
  <2>2. Outside(t)'
    BY <1>4, <1>8, <2>1 DEF Outside, TracedPath
  <2>3. AttemptOf(t)'
    BY <1>3, <1>8, <2>2 DEF AttemptOf
  <2> QED
    BY <1>1, <1>6, <2>3, OthersSame
<1> QED
  BY <1>2, <1>3, <1>7, <1>8 DEF AttemptOf

-----------------------------------------------------------------------------

LEMMA StepAInv == IInv /\ AInv /\ [Next]_vars => AInv'
<1> SUFFICES ASSUME IInv, AInv, [Next]_vars PROVE AInv'
  OBVIOUS
<1>1. CASE UNCHANGED vars
  <2>1. \A u \in Threads : UNCHANGED local(u)
    BY <1>1 DEF vars, environ, publisher, history, local
  <2> QED
    BY <2>1, SameAttempt DEF AInv
<1>2. ASSUME NEW t \in Threads, Handle(t) PROVE AInv'
  <2>1. ASSUME NEW p \in {"traced", "excluded"}, Arrive(t, p) PROVE AInv'
    BY <2>1, ArriveAInv
  <2>2. CASE Start(t)
    BY <2>2, StartAInv
  <2>3. CASE Publish(t)
    <3>1. CASE Subrequest(t) \/ CatalogQuery(t)
      BY <3>1, WrappedAInv DEF Subrequest, CatalogQuery, Kinds
    <3>2. CASE Passes(t, "publish", "returned")
      BY <3>2, PassesAInv DEF PCs
    <3>3. ASSUME NEW e \in {"conflict", "error"}, Fails(t, "publish", e) PROVE AInv'
      BY <3>3, FailsAInv DEF PCs
    <3> QED
      BY <2>3, <3>1, <3>2, <3>3 DEF Publish
  <2>4. CASE Transform(t)
    <3>1. CASE OnAfterTransforms(t)
      BY <3>1, FinishChainAInv DEF OnAfterTransforms, PCs
    <3>2. CASE TransformRaises(t) \/ NoTransforms(t)
      BY <3>2, PassesAInv DEF TransformRaises, NoTransforms, PCs
    <3>3. CASE TransformConflicts(t)
      BY <3>3, FailsAInv DEF TransformConflicts, PCs
    <3> QED
      BY <2>4, <3>1, <3>2, <3>3, BeforeTransformsAInv, BeforeSingleAInv, AfterSingleAInv
      DEF Transform
  <2>5. CASE Commit(t)
    <3>1. CASE BeforeCompletion(t, "commit", "completing")
      BY <3>1, BeforeCompletionAInv DEF PCs
    <3>2. CASE AfterCompletion(t, "completing", "succeeded", None)
      BY <3>2, AfterCompletionAInv DEF PCs
    <3>3. ASSUME NEW e \in {"conflict", "error"},
                 AfterCompletion(t, "completing", "failing", e)
          PROVE  AInv'
      BY <3>3, AfterCompletionAInv DEF PCs
    <3> QED
      BY <2>5, <3>1, <3>2, <3>3, SynchronizerAInv DEF Commit
  <2>6. CASE Succeed(t)
    <3>1. CASE OnPubSuccess(t)
      BY <3>1, FinishPublishAInv DEF OnPubSuccess, PCs
    <3>2. CASE FlushOnSuccess(t)
      BY <3>2, FinishChainAInv DEF FlushOnSuccess, PCs
    <3> QED
      BY <2>6, <3>1, <3>2 DEF Succeed
  <2>7. CASE Abort(t)
    <3>1. CASE BeforeCompletion(t, "abort", "aborting")
      BY <3>1, BeforeCompletionAInv DEF PCs
    <3>2. CASE AfterCompletion(t, "aborting", "failed", exc[t])
      <4>1. exc[t] \in {"conflict", "error", None}
        BY DEF IInv, TypeOK
      <4> QED
        BY <3>2, <4>1, AfterCompletionAInv DEF PCs
    <3>3. CASE OnPubFailure(t)
      BY <3>3, FinishPublishAInv DEF OnPubFailure, PCs
    <3>4. CASE FlushOnFailure(t)
      BY <3>4, FinishChainAInv DEF FlushOnFailure, PCs
    <3> QED
      BY <2>7, <3>1, <3>2, <3>3, <3>4, BeforeAbortAInv DEF Abort
  <2>8. CASE SubscriberRaises(t)
    BY <2>8, FailsAInv DEF SubscriberRaises, PCs
  <2> QED
    BY <1>2, <2>1, <2>2, <2>3, <2>4, <2>5, <2>6, <2>7, <2>8, NextAttemptAInv DEF Handle
<1> QED
  BY <1>1, <1>2 DEF Next, Quiet

LEMMA AttemptsHold == Spec => [](IInv /\ AInv)
BY InitIInv, InitAInv, StepIInv, StepAInv, PTL DEF Spec

(* The publish span of an attempt is ended once: as "ok" if it got as far   *)
(* as on_pub_success, as an error if it failed before that; and there is    *)
(* none if another subscriber of IPubStart kept it from being started.      *)
THEOREM PublishSpansAreClosedOnce == Spec => []ClosedExactlyOnce
<1>1. IInv /\ AInv => ClosedExactlyOnce
  BY DEF IInv, TypeOK, AInv, AttemptOf, Outside, TracedPath, ClosedExactlyOnce
<1> QED
  BY <1>1, AttemptsHold, PTL

(* A request on an excluded path starts no span in any attempt, but for an  *)
(* abort after another subscriber of IPubStart or IPubSuccess has raised.   *)
THEOREM ExcludedPathsStaySilent == Spec => []ExcludedPathsAreSilent
<1>1. AInv => ExcludedPathsAreSilent
  BY DEF AInv, SilentOf, ExcludedPathsAreSilent
<1> QED
  BY <1>1, AttemptsHold, PTL

\* One step opens a chain or commit span only where tracing is on.
LEMMA OpensUnderPublish ==
    ASSUME IInv, AInv, [Next]_vars,
           NEW t \in Threads, NEW k \in {"transformchain", "commit"},
           live'[t][k] > live[t][k]
    PROVE  \/ context[t] = "publish"
           \/ MayRaise /\ pc[t] = "abort" /\ stage[t] # "open"
<1>1. live \in [Threads -> [Kinds -> Nat]] /\ k \in Kinds /\ live[t][k] \in Nat
  BY DEF IInv, TypeOK, Kinds
<1>2. live' # live
  BY <1>1
<1>3. PICK u \in Threads : Handle(u)
  BY <1>2 DEF Next, Quiet, vars, history
<1>4. ASSUME NEW P, Ended(u, P) PROVE FALSE
  <2>1. live'[t][k] = live[t][k] \/ live'[t][k] = live[t][k] - 1
    BY <1>1, <1>4 DEF Ended
  <2> QED
    BY <1>1, <2>1
<1>5. ASSUME NEW kind \in Kinds, Opened(u, kind) PROVE u = t /\ kind = k
  BY <1>1, <1>5 DEF Opened
<1>6. \/ Opened(u, "transformchain") /\ OnBeforeTransforms(u) /\ Tracing(u)
      \/ /\ Opened(u, "commit") /\ Tracing(u)
         /\ \/ BeforeCompletion(u, "commit", "completing")
            \/ BeforeCompletion(u, "abort", "aborting")
  <2>1. ASSUME NEW p, Arrive(u, p) PROVE FALSE
    BY <1>2, <2>1 DEF Arrive, history
  <2>2. ~Start(u)
    BY <1>2, <1>5 DEF Start, StartUntraced, StartSuppressed, StartTraced, history, Kinds
  <2>3. ~Publish(u)
    BY <1>2 DEF Publish, Subrequest, CatalogQuery, Wrapped, Passes, Fails, history
  <2>4. ~Succeed(u)
    BY <1>2, <1>4 DEF Succeed, OnPubSuccess, FlushOnSuccess, FinishPublish, FinishChain
  <2>5. ~SubscriberRaises(u)
    BY <1>2 DEF SubscriberRaises, Fails, history
  <2>6. ~(Retry(u) \/ Respond(u))
    BY <1>2 DEF Retry, Respond, NextAttempt
  <2>7. CASE Transform(u)
    BY <1>2, <1>4, <1>5, <2>7
    DEF Transform, OnBeforeTransforms, OnBeforeSingleTransform, OnAfterSingleTransform,
        OnAfterTransforms, FinishChain, TransformRaises, TransformConflicts, NoTransforms,
        Passes, Fails, history, Kinds
  <2>8. CASE Commit(u) \/ Abort(u)
    BY <1>2, <1>4, <2>8
    DEF Commit, Abort, BeforeCompletion, Spanned, AfterCompletion, SynchronizerRaises,
        OnPubBeforeAbort, OnPubFailure, FlushOnFailure, FinishPublish, FinishChain, history
  <2> QED
    BY <1>3, <2>1, <2>2, <2>3, <2>4, <2>5, <2>6, <2>7, <2>8 DEF Handle
<1>7. u = t
  BY <1>5, <1>6 DEF Kinds
<1>8. path[t] \in {"traced", "excluded"} /\ Tracing(t) /\ AttemptOf(t)
  BY <1>6, <1>7 DEF AInv, IInv, TypeOK
<1>9. Running(t) => context[t] = "publish"
  BY <1>8 DEF Running, Tracing, Suppressed
<1>10. pc[t] \in {"returned", "commit"} \/ pc[t] = "abort"
  BY <1>6, <1>7 DEF OnBeforeTransforms, BeforeCompletion, Goto
<1> QED
  BY <1>8, <1>9, <1>10 DEF AttemptOf, Outside

(* Chain and commit spans are started under the publish span, on failing    *)
(* paths too, with the same exception.                                      *)
THEOREM SpansAreNested == Spec => SpansNestUnderPublish
<1>1. IInv /\ AInv /\ [Next]_vars =>
         [\A t \in Threads : \A k \in {"transformchain", "commit"} :
            live'[t][k] > live[t][k] =>
                \/ context[t] = "publish"
                \/ MayRaise /\ pc[t] = "abort" /\ stage[t] # "open"]_vars
  BY OpensUnderPublish
<1> QED
  BY <1>1, AttemptsHold, PTL DEF Spec, SpansNestUnderPublish

-----------------------------------------------------------------------------
(* The conflict counter.  The threads whose conflict has been counted and   *)
(* which the publisher has not yet made repeat the request, or give it up.  *)

Pending(t) ==
    /\ pc[t] \in {"abort", "aborting", "failed", "flushFailed", "doneFailed"}
    /\ exc[t] = "conflict"

ToRetry == {t \in Threads : Pending(t) /\ Retries(t)}
ToGiveUp == {t \in Threads : Pending(t) /\ ~Retries(t)}

\* An attempt that ended well left no conflict behind it.
EndedWell == \A t \in Threads : pc[t] \in {"succeeded", "flush", "done"} => exc[t] = None

CountInv ==
    /\ EndedWell
    /\ IsFiniteSet(ToRetry) /\ IsFiniteSet(ToGiveUp)
    /\ counts[TRUE] = retried + Cardinality(ToRetry)
    /\ counts[FALSE] = gaveUp + Cardinality(ToGiveUp)

\* The set a thread is in depends on nothing but its own request.
LEMMA OthersStay ==
    ASSUME NEW t \in Threads, TypeOK,
           \A u \in Threads \ {t} : UNCHANGED <<pc[u], exc[u], attempt[u]>>
    PROVE  ToRetry' \ {t} = ToRetry \ {t} /\ ToGiveUp' \ {t} = ToGiveUp \ {t}
BY DEF ToRetry, ToGiveUp, Pending, Retries

\* A step of a thread that neither counts nor settles a conflict.
LEMMA UncountedStep ==
    ASSUME CountInv, TypeOK, NEW t \in Threads,
           \A u \in Threads \ {t} : UNCHANGED <<pc[u], exc[u], attempt[u]>>,
           UNCHANGED <<counts, retried, gaveUp>>,
           Pending(t)' <=> Pending(t),
           Pending(t) => (Retries(t)' <=> Retries(t)),
           pc'[t] \in {"succeeded", "flush", "done"} => exc'[t] = None
    PROVE  CountInv'
<1>1. ToRetry' = ToRetry /\ ToGiveUp' = ToGiveUp
  <2>1. ToRetry' \ {t} = ToRetry \ {t} /\ ToGiveUp' \ {t} = ToGiveUp \ {t}
    BY OthersStay
  <2>2. (t \in ToRetry' <=> t \in ToRetry) /\ (t \in ToGiveUp' <=> t \in ToGiveUp)
    BY DEF ToRetry, ToGiveUp
  <2> QED
    BY <2>1, <2>2
<1>2. EndedWell'
  BY DEF CountInv, EndedWell
<1> QED
  BY <1>1, <1>2 DEF CountInv

\* The thread's request is where no conflict has been counted.
LEMMA OutsideStep ==
    ASSUME CountInv, TypeOK, NEW t \in Threads,
           NEW to \in PCs,
           ~Pending(t),
           pc' = [pc EXCEPT ![t] = to],
           to \notin {"abort", "aborting", "failed", "flushFailed", "doneFailed"},
           \A u \in Threads \ {t} : UNCHANGED <<exc[u], attempt[u]>>,
           to \in {"succeeded", "flush", "done"} => exc'[t] = None,
           UNCHANGED <<counts, retried, gaveUp>>
    PROVE  CountInv'
<1>1. \A u \in Threads \ {t} : UNCHANGED <<pc[u], exc[u], attempt[u]>>
  BY DEF TypeOK
<1>2. pc'[t] = to /\ ~Pending(t)'
  BY DEF TypeOK, Pending
<1> QED
  BY <1>1, <1>2, UncountedStep

\* The abort of an attempt goes on.
LEMMA AbortingStep ==
    ASSUME CountInv, TypeOK, NEW t \in Threads, NEW from \in PCs, NEW to \in PCs,
           Goto(t, from, to),
           from \in {"abort", "aborting", "failed", "flushFailed"},
           to \in {"aborting", "failed", "flushFailed", "doneFailed"},
           exc' = exc, attempt' = attempt,
           UNCHANGED <<counts, retried, gaveUp>>
    PROVE  CountInv'
<1>1. \A u \in Threads \ {t} : UNCHANGED <<pc[u], exc[u], attempt[u]>>
  BY DEF TypeOK, Goto
<1>2. pc'[t] = to /\ (Pending(t)' <=> Pending(t)) /\ (Retries(t)' <=> Retries(t))
  BY DEF TypeOK, Goto, Pending, Retries
<1> QED
  BY <1>1, <1>2, UncountedStep

LEMMA BeforeAbortCounts ==
    ASSUME CountInv, TypeOK, NEW t \in Threads, OnPubBeforeAbort(t) PROVE CountInv'
<1>1. pc[t] = "failing" /\ pc'[t] = "abort" /\ exc' = exc /\ attempt' = attempt
  BY DEF TypeOK, OnPubBeforeAbort, Goto
<1>2. \A u \in Threads \ {t} : UNCHANGED <<pc[u], exc[u], attempt[u]>>
  BY DEF TypeOK, OnPubBeforeAbort, Goto
<1>3. ToRetry' \ {t} = ToRetry \ {t} /\ ToGiveUp' \ {t} = ToGiveUp \ {t}
  BY <1>2, OthersStay
<1>4. t \notin ToRetry /\ t \notin ToGiveUp
  BY <1>1 DEF ToRetry, ToGiveUp, Pending
<1>5. /\ t \in ToRetry' <=> exc[t] = "conflict" /\ Retries(t)
      /\ t \in ToGiveUp' <=> exc[t] = "conflict" /\ ~Retries(t)
  BY <1>1 DEF ToRetry, ToGiveUp, Pending, Retries
<1>6. EndedWell' /\ UNCHANGED <<retried, gaveUp>>
  BY <1>1, <1>2 DEF CountInv, EndedWell, OnPubBeforeAbort, history, ends
<1>7. /\ counts[TRUE] \in Nat /\ counts[FALSE] \in Nat /\ retried \in Nat /\ gaveUp \in Nat
      /\ Cardinality(ToRetry) \in Nat /\ Cardinality(ToGiveUp) \in Nat
  BY FS_CardinalityType DEF CountInv, TypeOK
<1>8. CASE exc[t] # "conflict"
  <2>1. ToRetry' = ToRetry /\ ToGiveUp' = ToGiveUp
    BY <1>3, <1>4, <1>5, <1>8
  <2>2. counts' = counts
    BY <1>8 DEF OnPubBeforeAbort
  <2> QED
    BY <1>6, <2>1, <2>2 DEF CountInv
<1>9. CASE exc[t] = "conflict" /\ Retries(t)
  <2>1. ToRetry' = ToRetry \cup {t} /\ ToGiveUp' = ToGiveUp
    BY <1>3, <1>4, <1>5, <1>9
  <2>2. IsFiniteSet(ToRetry') /\ Cardinality(ToRetry') = Cardinality(ToRetry) + 1
    BY <1>4, <2>1, FS_AddElement DEF CountInv
  <2>3. counts'[TRUE] = counts[TRUE] + 1 /\ counts'[FALSE] = counts[FALSE]
    BY <1>9 DEF OnPubBeforeAbort, TypeOK
  <2>4. counts'[TRUE] = retried + Cardinality(ToRetry')
    BY <1>7, <2>2, <2>3 DEF CountInv
  <2> QED
    BY <1>6, <2>1, <2>2, <2>3, <2>4 DEF CountInv
<1>10. CASE exc[t] = "conflict" /\ ~Retries(t)
  <2>1. ToRetry' = ToRetry /\ ToGiveUp' = ToGiveUp \cup {t}
    BY <1>3, <1>4, <1>5, <1>10
  <2>2. IsFiniteSet(ToGiveUp') /\ Cardinality(ToGiveUp') = Cardinality(ToGiveUp) + 1
    BY <1>4, <2>1, FS_AddElement DEF CountInv
  <2>3. counts'[TRUE] = counts[TRUE] /\ counts'[FALSE] = counts[FALSE] + 1
    <3>1. Retries(t) = FALSE
      BY <1>10 DEF Retries
    <3>2. counts' = [counts EXCEPT ![FALSE] = counts[FALSE] + 1]
      BY <1>10, <3>1 DEF OnPubBeforeAbort
    <3> QED
      BY <3>2 DEF TypeOK
  <2>4. counts'[FALSE] = gaveUp + Cardinality(ToGiveUp')
    BY <1>7, <2>2, <2>3 DEF CountInv
  <2> QED
    BY <1>6, <2>1, <2>2, <2>3, <2>4 DEF CountInv
<1> QED
  BY <1>8, <1>9, <1>10

\* The publisher repeats the request, or is done with it.
LEMMA NextAttemptCounts ==
    ASSUME CountInv, TypeOK, NEW t \in Threads, Retry(t) \/ Respond(t) PROVE CountInv'
<1>1. \A u \in Threads \ {t} : UNCHANGED <<pc[u], exc[u], attempt[u]>>
  BY DEF TypeOK, Retry, Respond, NextAttempt
<1>2. ToRetry' \ {t} = ToRetry \ {t} /\ ToGiveUp' \ {t} = ToGiveUp \ {t}
  BY <1>1, OthersStay
<1>3. pc'[t] \in {"start", "idle"} /\ counts' = counts
  BY DEF TypeOK, Retry, Respond, NextAttempt
<1>4. t \notin ToRetry' /\ t \notin ToGiveUp'
  BY <1>3 DEF ToRetry, ToGiveUp, Pending
<1>5. EndedWell'
  BY <1>1, <1>3 DEF CountInv, EndedWell
<1>6. /\ counts[TRUE] \in Nat /\ counts[FALSE] \in Nat /\ retried \in Nat /\ gaveUp \in Nat
      /\ Cardinality(ToRetry) \in Nat /\ Cardinality(ToGiveUp) \in Nat
  BY FS_CardinalityType DEF CountInv, TypeOK
<1>7. CASE Retry(t)
  <2>1. t \in ToRetry /\ t \notin ToGiveUp
    BY <1>7 DEF Retry, ToRetry, ToGiveUp, Pending, Retries
  <2>2. ToRetry' = ToRetry \ {t} /\ ToGiveUp' = ToGiveUp
    BY <1>2, <1>4, <2>1
  <2>3. IsFiniteSet(ToRetry') /\ Cardinality(ToRetry') = Cardinality(ToRetry) - 1
    BY <2>1, <2>2, FS_RemoveElement DEF CountInv
  <2>4. retried' = retried + 1 /\ gaveUp' = gaveUp
    BY <1>7 DEF Retry
  <2>5. counts[TRUE] = retried' + Cardinality(ToRetry')
    BY <1>6, <2>3, <2>4 DEF CountInv
  <2> QED
    BY <1>3, <1>5, <2>2, <2>3, <2>4, <2>5 DEF CountInv
<1>8. CASE Respond(t) /\ exc[t] = "conflict"
  <2>1. t \in ToGiveUp /\ t \notin ToRetry
    BY <1>8, TracingNoneAssumption
    DEF Respond, ToRetry, ToGiveUp, Pending, CountInv, EndedWell
  <2>2. ToGiveUp' = ToGiveUp \ {t} /\ ToRetry' = ToRetry
    BY <1>2, <1>4, <2>1
  <2>3. IsFiniteSet(ToGiveUp') /\ Cardinality(ToGiveUp') = Cardinality(ToGiveUp) - 1
    BY <2>1, <2>2, FS_RemoveElement DEF CountInv
  <2>4. gaveUp' = gaveUp + 1 /\ retried' = retried
    BY <1>8 DEF Respond
  <2>5. counts[FALSE] = gaveUp' + Cardinality(ToGiveUp')
    BY <1>6, <2>3, <2>4 DEF CountInv
  <2> QED
    BY <1>3, <1>5, <2>2, <2>3, <2>4, <2>5 DEF CountInv
<1>9. CASE Respond(t) /\ exc[t] # "conflict"
  <2>1. t \notin ToGiveUp /\ t \notin ToRetry
    BY <1>9 DEF ToRetry, ToGiveUp, Pending
  <2>2. ToGiveUp' = ToGiveUp /\ ToRetry' = ToRetry
    BY <1>2, <1>4, <2>1
  <2>3. gaveUp' = gaveUp /\ retried' = retried
    BY <1>9 DEF Respond
  <2> QED
    BY <1>3, <1>5, <2>2, <2>3 DEF CountInv
<1> QED
  BY <1>7, <1>8, <1>9

LEMMA InitCountInv == Init => CountInv
<1> SUFFICES ASSUME Init PROVE CountInv
  OBVIOUS
<1>1. ToRetry = {} /\ ToGiveUp = {} /\ EndedWell
  BY DEF Init, ToRetry, ToGiveUp, Pending, EndedWell
<1> QED
  BY <1>1, FS_EmptySet DEF Init, CountInv

LEMMA StepCountInv == TypeOK /\ CountInv /\ [Next]_vars => CountInv'
<1> SUFFICES ASSUME TypeOK, CountInv, [Next]_vars PROVE CountInv'
  OBVIOUS
<1>1. CASE UNCHANGED vars
  BY <1>1 DEF vars, environ, publisher, history, ends, CountInv, EndedWell,
      ToRetry, ToGiveUp, Pending, Retries
<1>2. ASSUME NEW t \in Threads, Handle(t) PROVE CountInv'
  <2>1. ASSUME NEW p \in {"traced", "excluded"}, Arrive(t, p) PROVE CountInv'
    BY <2>1, OutsideStep DEF Arrive, Goto, Pending, TypeOK, PCs, history, ends
  <2>2. CASE Start(t)
    BY <2>2, OutsideStep DEF Start, StartUntraced, StartSuppressed, StartTraced,
        Goto, Pending, PCs, history, ends
  <2>3. ASSUME NEW from \in PCs, NEW e \in {"conflict", "error"}, Fails(t, from, e),
               from \notin {"abort", "aborting", "failed", "flushFailed", "doneFailed"}
        PROVE  CountInv'
    <3>1. pc' = [pc EXCEPT ![t] = "failing"] /\ ~Pending(t)
      BY <2>3 DEF Fails, Goto, Pending
    <3>2. \A u \in Threads \ {t} : UNCHANGED <<exc[u], attempt[u]>>
      BY <2>3 DEF Fails, TypeOK
    <3>3. UNCHANGED <<counts, retried, gaveUp>> /\ "failing" \in PCs
      BY <2>3 DEF Fails, history, ends, PCs
    <3> QED
      BY <3>1, <3>2, <3>3, OutsideStep
  <2>4. CASE Publish(t)
    <3>1. CASE Subrequest(t) \/ CatalogQuery(t)
      BY <3>1 DEF Subrequest, CatalogQuery, Wrapped, publisher, ends, CountInv, EndedWell,
          ToRetry, ToGiveUp, Pending, Retries
    <3>2. CASE Passes(t, "publish", "returned")
      BY <3>2, OutsideStep DEF Passes, Goto, Pending, PCs, history, ends
    <3> QED
      BY <2>3, <2>4, <3>1, <3>2 DEF Publish, PCs
  <2>5. CASE Transform(t)
    <3>1. CASE OnBeforeTransforms(t) \/ OnBeforeSingleTransform(t) \/ OnAfterSingleTransform(t)
      BY <3>1, OutsideStep DEF OnBeforeTransforms, OnBeforeSingleTransform,
          OnAfterSingleTransform, Goto, Pending, PCs, ends
    <3>2. CASE OnAfterTransforms(t)
      BY <3>2, OutsideStep DEF OnAfterTransforms, FinishChain, Goto, Pending, PCs, ends
    <3>3. CASE TransformRaises(t) \/ NoTransforms(t)
      BY <3>3, OutsideStep DEF TransformRaises, NoTransforms, Passes, Goto, Pending, PCs,
          history, ends
    <3> QED
      BY <2>3, <2>5, <3>1, <3>2, <3>3 DEF Transform, TransformConflicts, PCs
  <2>6. CASE Commit(t)
    <3>1. CASE BeforeCompletion(t, "commit", "completing")
      BY <3>1, OutsideStep DEF BeforeCompletion, Goto, Pending, PCs, ends
    <3>2. ASSUME NEW e \in {None, "conflict", "error"}, NEW to \in {"succeeded", "failing"},
                 to = "succeeded" => e = None,
                 AfterCompletion(t, "completing", to, e)
          PROVE  CountInv'
      <4>1. pc' = [pc EXCEPT ![t] = to] /\ ~Pending(t) /\ exc'[t] = e
        BY <3>2 DEF AfterCompletion, Goto, Pending, TypeOK
      <4>2. \A u \in Threads \ {t} : UNCHANGED <<exc[u], attempt[u]>>
        BY <3>2 DEF AfterCompletion, TypeOK
      <4>3. UNCHANGED <<counts, retried, gaveUp>> /\ to \in PCs
        BY <3>2 DEF AfterCompletion, ends, PCs
      <4> QED
        BY <3>2, <4>1, <4>2, <4>3, OutsideStep
    <3>3. ASSUME NEW e \in {"conflict", "error"}, SynchronizerRaises(t, e) PROVE CountInv'
      <4>1. pc' = [pc EXCEPT ![t] = "failing"] /\ ~Pending(t)
        BY <3>3 DEF SynchronizerRaises, Goto, Pending
      <4>2. \A u \in Threads \ {t} : UNCHANGED <<exc[u], attempt[u]>>
        BY <3>3 DEF SynchronizerRaises, TypeOK
      <4>3. UNCHANGED <<counts, retried, gaveUp>> /\ "failing" \in PCs
        BY <3>3 DEF SynchronizerRaises, ends, PCs
      <4> QED
        BY <4>1, <4>2, <4>3, OutsideStep
    <3> QED
      BY <2>6, <3>1, <3>2, <3>3 DEF Commit
  <2>7. CASE Succeed(t)
    <3>1. CASE OnPubSuccess(t) \/ FlushOnSuccess(t)
      <4>1. pc[t] \in {"succeeded", "flush"} /\ exc' = exc /\ exc[t] = None /\ attempt' = attempt
        BY <3>1 DEF OnPubSuccess, FlushOnSuccess, FinishPublish, FinishChain, Goto,
            CountInv, EndedWell
      <4>2. UNCHANGED <<counts, retried, gaveUp>> /\ ~Pending(t)
        BY <3>1, <4>1 DEF OnPubSuccess, FlushOnSuccess, FinishPublish, FinishChain, ends, Pending
      <4>3. PICK to \in {"flush", "done"} : pc' = [pc EXCEPT ![t] = to]
        BY <3>1 DEF OnPubSuccess, FlushOnSuccess, Goto
      <4> QED
        BY <4>1, <4>2, <4>3, OutsideStep DEF PCs
    <3> QED
      BY <2>7, <3>1 DEF Succeed
  <2>8. CASE Abort(t)
    <3>1. CASE BeforeCompletion(t, "abort", "aborting")
      BY <3>1, AbortingStep DEF BeforeCompletion, PCs, ends
    <3>2. CASE AfterCompletion(t, "aborting", "failed", exc[t])
      <4>1. exc' = exc
        BY <3>2 DEF AfterCompletion, TypeOK
      <4> QED
        BY <3>2, <4>1, AbortingStep DEF AfterCompletion, PCs, ends
    <3>3. CASE OnPubFailure(t)
      BY <3>3, AbortingStep DEF OnPubFailure, FinishPublish, PCs, ends
    <3>4. CASE FlushOnFailure(t)
      BY <3>4, AbortingStep DEF FlushOnFailure, FinishChain, PCs, ends
    <3> QED
      BY <2>8, <3>1, <3>2, <3>3, <3>4, BeforeAbortCounts DEF Abort
  <2>9. CASE SubscriberRaises(t)
    BY <2>3, <2>9 DEF SubscriberRaises, PCs
  <2> QED
    BY <1>2, <2>1, <2>2, <2>4, <2>5, <2>6, <2>7, <2>8, <2>9, NextAttemptCounts DEF Handle
<1> QED
  BY <1>1, <1>2 DEF Next, Quiet

(* Every conflict is counted once, and under what the publisher then does   *)
(* with the request: retries and conflicts given up match the counter but   *)
(* for the attempts whose abort is still under way.                         *)
THEOREM ConflictsAreCounted == Spec => []ConflictsCounted
<1>1. CountInv => ConflictsCounted
  BY DEF CountInv, ConflictsCounted, ToRetry, ToGiveUp, Pending
<1>2. IInv => TypeOK
  BY DEF IInv
<1> QED
  BY <1>1, <1>2, InitCountInv, StepCountInv, AttemptsHold, PTL DEF Spec

-----------------------------------------------------------------------------
(* Patching.                                                               *)

Layers == {"traced", "plain", "copying"} \X Methods
Callables == [function : {<<>>} \cup Classes \X Methods, layers : Seq(Layers)]

\* f is s, a tracing layer around it, and whatever was put on top of that.
WrapsUp(f, s) ==
    /\ f.function = s.function
    /\ Len(s.layers) < Len(f.layers)
    /\ \A k \in DOMAIN s.layers : f.layers[k] = s.layers[k]
    /\ f.layers[Len(s.layers) + 1][1] = "traced"

\* What the callable f that stands for method m of class c, and the log s of
\* what was replaced there, have to do with each other.
Logs(c, m, f, s) ==
    /\ Traced(f) # {} <=> s # <<>>
    /\ s # <<>> =>
          c \in Patchable /\ s[1] # Missing /\ Traced(s[1]) = {} /\ WrapsUp(f, s[1])

\* The layers around a setstate are setstate's, and two tracing layers are
\* apart from each other.
Layered(c, m, f) ==
    /\ m = "setstate" => \A k \in DOMAIN f.layers : f.layers[k][2] = "setstate"
    /\ \A i, j \in Traced(f) :
          i < j => c = Connection /\ \E k \in i..j : f.layers[k] = Plain(m)

Good(c, m, f, s) == f \in Callables /\ s \in Seq(Callables) /\ Logs(c, m, f, s) /\ Layered(c, m, f)

PatchInv ==
    /\ own \in [Classes -> [Methods -> Callables]]
    /\ saved \in [Classes -> [Methods -> Seq(Callables)]]
    /\ importable \subseteq Patchable /\ foreign \in Nat
    /\ \A c \in Classes, m \in Methods : Good(c, m, own[c][m], saved[c][m])

LEMMA CallableType ==
    ASSUME NEW f \in Callables
    PROVE  /\ f.layers \in Seq(Layers) /\ Len(f.layers) \in Nat
           /\ DOMAIN f.layers = 1..Len(f.layers)
           /\ f = [function |-> f.function, layers |-> f.layers]
           /\ Traced(f) \subseteq 1..Len(f.layers)
           /\ \A i \in 1..Len(f.layers) : f.layers[i] \in Layers
BY DEF Callables, Traced

LEMMA MissingType == Missing \in Callables /\ Traced(Missing) = {}
<1>1. <<>> \in Seq(Layers)
  OBVIOUS
<1> QED
  BY <1>1 DEF Missing, Callables, Traced

LEMMA DefinedType ==
    \A c \in Classes, m \in Methods :
        Defined(c, m) \in Callables /\ Traced(Defined(c, m)) = {} /\ Defined(c, m).layers = <<>>
<1>1. <<>> \in Seq(Layers)
  OBVIOUS
<1> QED
  BY <1>1 DEF Defined, Callables, Traced

\* A wrapper is a callable with one more layer.
LEMMA WrapType ==
    ASSUME NEW f \in Callables, NEW l \in Layers
    PROVE  /\ Wrap(f, l) \in Callables
           /\ Wrap(f, l).function = f.function
           /\ Len(Wrap(f, l).layers) = Len(f.layers) + 1
           /\ \A k \in 1..Len(f.layers) : Wrap(f, l).layers[k] = f.layers[k]
           /\ Wrap(f, l).layers[Len(f.layers) + 1] = l
           /\ l[1] = "traced" => Traced(Wrap(f, l)) = Traced(f) \cup {Len(f.layers) + 1}
           /\ l[1] # "traced" => Traced(Wrap(f, l)) = Traced(f)
<1> DEFINE n == Len(f.layers)
           a == Append(f.layers, l)
<1>1. /\ f.layers \in Seq(Layers) /\ n \in Nat /\ DOMAIN f.layers = 1..n
      /\ f.function \in {<<>>} \cup Classes \X Methods
  BY CallableType DEF Callables
<1>2. /\ a \in Seq(Layers) /\ Len(a) = n + 1 /\ DOMAIN a = 1..(n + 1)
      /\ \A k \in 1..n : a[k] = f.layers[k]
      /\ a[n + 1] = l
  BY <1>1
<1>3. Wrap(f, l) = [function |-> f.function, layers |-> a]
  BY CallableType DEF Wrap
<1> HIDE DEF a
<1>4. /\ l[1] = "traced" => Traced(Wrap(f, l)) = Traced(f) \cup {n + 1}
      /\ l[1] # "traced" => Traced(Wrap(f, l)) = Traced(f)
  <2>1. DOMAIN Wrap(f, l).layers = 1..(n + 1) /\ Wrap(f, l).layers = a
    BY <1>2, <1>3
  <2>2. 1..(n + 1) = 1..n \cup {n + 1}
    BY <1>1
  <2> QED
    BY <1>1, <1>2, <2>1, <2>2 DEF Traced
<1> QED
  BY <1>1, <1>2, <1>3, <1>4 DEF Callables

\* What has been wrapped up stays so under one more layer.
LEMMA WrapsUpMore ==
    ASSUME NEW f \in Callables, NEW s \in Callables, NEW l \in Layers, WrapsUp(f, s)
    PROVE  WrapsUp(Wrap(f, l), s)
<1> DEFINE w == Wrap(f, l)
           n == Len(s.layers)
           k == Len(f.layers)
<1>1. n \in Nat /\ k \in Nat /\ DOMAIN s.layers = 1..n
  BY CallableType
<1>2. /\ w.function = f.function /\ Len(w.layers) = k + 1
      /\ \A x \in 1..k : w.layers[x] = f.layers[x]
  BY WrapType
<1>3. /\ f.function = s.function /\ n < k /\ \A x \in 1..n : f.layers[x] = s.layers[x]
      /\ f.layers[n + 1][1] = "traced"
  BY <1>1 DEF WrapsUp
<1> HIDE DEF w
<1>4. 1..n \subseteq 1..k /\ n + 1 \in 1..k /\ n < k + 1
  BY <1>1, <1>3
<1>5. w.layers[n + 1] = f.layers[n + 1]
  BY <1>2, <1>4
<1>6. \A x \in 1..n : w.layers[x] = s.layers[x]
  BY <1>2, <1>3, <1>4
<1> HIDE DEF n, k
<1>7. WrapsUp(w, s)
  BY <1>1, <1>2, <1>3, <1>4, <1>5, <1>6 DEF WrapsUp, n, k
<1> QED
  BY <1>7 DEF w

\* One of ours goes on what is not traced; a setstate, on what is not marked.
LEMMA OursIsGood ==
    ASSUME NEW c \in Patchable, NEW m \in Methods, NEW r, NEW s, Good(c, m, r, s), r # Missing,
           Traced(r) = {} \/ (c = Connection /\ m = "setstate" /\ ~Marked(r)),
           NEW n \in Methods, m = "setstate" => n = m
    PROVE  Good(c, m, Wrap(r, Ours(n)), Append(s, r))
<1> DEFINE l == Ours(n)
           w == Wrap(r, l)
           top == Len(r.layers) + 1
           t == Append(s, r)
<1>1. l \in Layers /\ l[1] = "traced" /\ l[2] = n
  BY DEF Ours, Layers
<1>2. r \in Callables /\ s \in Seq(Callables) /\ Logs(c, m, r, s) /\ Layered(c, m, r)
  BY DEF Good
<1> HIDE DEF l
<1>3. /\ Len(r.layers) \in Nat /\ DOMAIN r.layers = 1..Len(r.layers)
      /\ Traced(r) \subseteq 1..Len(r.layers)
      /\ \A i \in 1..Len(r.layers) : r.layers[i] \in Layers
  BY <1>2, CallableType
<1>4. /\ w \in Callables /\ w.function = r.function /\ Len(w.layers) = top
      /\ \A k \in 1..Len(r.layers) : w.layers[k] = r.layers[k]
      /\ w.layers[top] = l
      /\ Traced(w) = Traced(r) \cup {top}
  BY <1>1, <1>2, WrapType
<1>5. DOMAIN w.layers = 1..top
  BY <1>4, CallableType
<1> HIDE DEF w
<1>6. t \in Seq(Callables) /\ t # <<>> /\ t[1] = IF s = <<>> THEN r ELSE s[1]
  <2>1. t \in Seq(Callables) /\ t # <<>>
    BY <1>2
  <2>2. CASE s = <<>>
    BY <2>1, <2>2
  <2>3. CASE s # <<>>
    BY <1>2, <2>1, <2>3
  <2> QED
    BY <2>1, <2>2, <2>3
<1> HIDE DEF t
<1>7. Logs(c, m, w, t)
  <2>1. CASE s = <<>>
    <3>1. t[1] = r /\ Traced(r) = {}
      BY <1>2, <1>6, <2>1 DEF Logs
    <3>2. WrapsUp(w, r)
      BY <1>1, <1>3, <1>4 DEF WrapsUp
    <3> QED
      BY <1>4, <1>6, <3>1, <3>2 DEF Logs
  <2>2. CASE s # <<>>
    <3>1. t[1] = s[1] /\ s[1] # Missing /\ Traced(s[1]) = {} /\ WrapsUp(r, s[1])
      BY <1>2, <1>6, <2>2 DEF Logs
    <3>2. s[1] \in Callables
      BY <1>2, <2>2
    <3>3. WrapsUp(w, s[1])
      BY <1>1, <1>2, <3>1, <3>2, WrapsUpMore DEF w
    <3> QED
      BY <1>4, <1>6, <3>1, <3>3 DEF Logs
  <2> QED
    BY <2>1, <2>2
<1>8. Layered(c, m, w)
  <2>1. m = "setstate" => \A k \in DOMAIN w.layers : w.layers[k][2] = "setstate"
    BY <1>1, <1>2, <1>3, <1>4, <1>5 DEF Layered
  <2>2. ASSUME NEW i \in Traced(w), NEW j \in Traced(w), i < j
        PROVE  c = Connection /\ \E k \in i..j : w.layers[k] = Plain(m)
    <3>1. i \in Traced(r) /\ i \in 1..Len(r.layers)
      BY <1>3, <1>4, <2>2
    <3>2. CASE j \in Traced(r)
      <4>1. c = Connection /\ \E k \in i..j : r.layers[k] = Plain(m)
        BY <1>2, <2>2, <3>1, <3>2 DEF Layered
      <4>2. i..j \subseteq 1..Len(r.layers)
        BY <1>3, <3>1, <3>2
      <4> QED
        BY <1>4, <4>1, <4>2
    <3>3. CASE j = top
      <4>1. c = Connection /\ m = "setstate" /\ ~Marked(r)
        BY <3>1
      <4>2. PICK k \in 1..Len(r.layers) : k > i /\ r.layers[k][1] # "copying"
        BY <1>3, <3>1, <4>1 DEF Marked
      <4>3. CASE k \in Traced(r)
        <5>1. \E h \in i..k : r.layers[h] = Plain(m)
          BY <1>2, <3>1, <4>2, <4>3 DEF Layered
        <5>2. i..k \subseteq 1..Len(r.layers) /\ i..k \subseteq i..j
          BY <1>3, <3>1, <3>3
        <5> QED
          BY <1>4, <4>1, <5>1, <5>2
      <4>4. CASE k \notin Traced(r)
        <5>1. r.layers[k] \in Layers /\ r.layers[k][1] # "traced"
          BY <1>3, <4>4 DEF Traced
        <5>2. r.layers[k][1] = "plain" /\ r.layers[k][2] = "setstate"
          BY <1>2, <1>3, <4>1, <4>2, <5>1 DEF Layers, Layered
        <5>3. r.layers[k] = Plain(m)
          BY <4>1, <5>1, <5>2 DEF Layers, Plain
        <5>4. k \in i..j
          BY <1>3, <3>1, <3>3, <4>2
        <5> QED
          BY <1>4, <4>1, <5>3, <5>4
      <4> QED
        BY <4>3, <4>4
    <3> QED
      BY <1>4, <3>2, <3>3
  <2> QED
    BY <2>1, <2>2 DEF Layered
<1> QED
  BY <1>4, <1>6, <1>7, <1>8 DEF Good, w, t, l

\* So does a wrapper of others, on anything.
LEMMA OthersIsGood ==
    ASSUME NEW c \in Classes, NEW m \in Methods, NEW r, NEW s, Good(c, m, r, s),
           NEW l \in {Plain(m), Copying(m)}
    PROVE  Good(c, m, Wrap(r, l), s)
<1> DEFINE w == Wrap(r, l)
           top == Len(r.layers) + 1
<1>1. l \in Layers /\ l[1] # "traced" /\ l[2] = m
  BY DEF Plain, Copying, Layers
<1>2. r \in Callables /\ s \in Seq(Callables) /\ Logs(c, m, r, s) /\ Layered(c, m, r)
  BY DEF Good
<1>3. /\ Len(r.layers) \in Nat /\ DOMAIN r.layers = 1..Len(r.layers)
      /\ Traced(r) \subseteq 1..Len(r.layers)
  BY <1>2, CallableType
<1>4. /\ w \in Callables /\ w.function = r.function /\ Len(w.layers) = top
      /\ \A k \in 1..Len(r.layers) : w.layers[k] = r.layers[k]
      /\ w.layers[top] = l
      /\ Traced(w) = Traced(r)
  <2>1. r \in Callables /\ l \in Layers /\ l[1] # "traced"
    BY <1>1, <1>2
  <2> QED
    BY <2>1, WrapType
<1>5. DOMAIN w.layers = 1..top
  BY <1>4, CallableType
<1> HIDE DEF w
<1>6. Logs(c, m, w, s)
  <2>1. CASE s = <<>>
    BY <1>2, <1>4, <2>1 DEF Logs
  <2>2. CASE s # <<>>
    <3>1. s[1] # Missing /\ Traced(s[1]) = {} /\ WrapsUp(r, s[1]) /\ c \in Patchable
      BY <1>2, <2>2 DEF Logs
    <3>2. s[1] \in Callables
      BY <1>2, <2>2
    <3>3. WrapsUp(w, s[1])
      BY <1>1, <1>2, <3>1, <3>2, WrapsUpMore DEF w
    <3> QED
      BY <1>2, <1>4, <3>1, <3>3 DEF Logs
  <2> QED
    BY <2>1, <2>2
<1>7. Layered(c, m, w)
  <2>1. m = "setstate" => \A k \in DOMAIN w.layers : w.layers[k][2] = "setstate"
    BY <1>1, <1>2, <1>3, <1>4, <1>5 DEF Layered
  <2>2. ASSUME NEW i \in Traced(w), NEW j \in Traced(w), i < j
        PROVE  c = Connection /\ \E k \in i..j : w.layers[k] = Plain(m)
    <3>1. i \in Traced(r) /\ j \in Traced(r)
      BY <1>4, <2>2
    <3>2. c = Connection /\ \E k \in i..j : r.layers[k] = Plain(m)
      BY <1>2, <2>2, <3>1 DEF Layered
    <3>3. i..j \subseteq 1..Len(r.layers)
      BY <1>3, <3>1
    <3> QED
      BY <1>4, <3>2, <3>3
  <2> QED
    BY <2>1, <2>2 DEF Layered
<1> QED
  BY <1>2, <1>4, <1>6, <1>7 DEF Good, w

\* The oldest entry of the log is what others see without tracing.
LEMMA OldestIsGood ==
    ASSUME NEW c \in Classes, NEW m \in Methods, NEW f, NEW s, Good(c, m, f, s), s # <<>>
    PROVE  Good(c, m, s[1], <<>>)
<1>1. /\ f \in Callables /\ s \in Seq(Callables) /\ Traced(s[1]) = {} /\ WrapsUp(f, s[1])
      /\ Layered(c, m, f)
  BY DEF Good, Logs
<1>2. s[1] \in Callables
  BY <1>1
<1>3. /\ Len(s[1].layers) \in Nat /\ DOMAIN s[1].layers = 1..Len(s[1].layers)
      /\ Len(f.layers) \in Nat /\ DOMAIN f.layers = 1..Len(f.layers)
  BY <1>1, <1>2, CallableType
<1>4. m = "setstate" => \A k \in DOMAIN s[1].layers : s[1].layers[k][2] = "setstate"
  BY <1>1, <1>3 DEF Layered, WrapsUp
<1>5. Layered(c, m, s[1])
  BY <1>1, <1>4 DEF Layered
<1>6. <<>> \in Seq(Callables)
  OBVIOUS
<1> QED
  BY <1>1, <1>2, <1>5, <1>6 DEF Good, Logs

\* What a lookup finds is logged and layered as if it were the class's own.
LEMMA ResolveIsGood ==
    ASSUME PatchInv, NEW c \in Classes, NEW m \in Methods
    PROVE  /\ Good(c, m, Resolve(c, m), saved[c][m])
           /\ saved[c][m] # <<>> => own[c][m] # Missing
           /\ own[c][m] # Missing => Resolve(c, m) = own[c][m]
           /\ saved[c][m] = <<>> => Traced(Resolve(c, m)) = {}
<1> DEFINE f == own[c][m]
           s == saved[c][m]
           r == Resolve(c, m)
           b == Base[c]
<1>1. Good(c, m, f, s) /\ f \in Callables
  BY DEF PatchInv
<1>2. b \in Classes /\ (b = c \/ b \notin Patchable)
  BY ClassAssumption
<1>3. Good(b, m, own[b][m], saved[b][m]) /\ own[b][m] \in Callables
  BY <1>2 DEF PatchInv
<1>4. f # Missing => r = f
  BY DEF Resolve, Lookup
<1>5. s # <<>> => f # Missing
  BY <1>1, MissingType DEF Good, Logs
<1>6. f = Missing => r = own[b][m]
  BY DEF Resolve, Lookup
<1>7. f = Missing => Traced(r) = {}
  <2>1. b = c /\ f = Missing => Traced(r) = {}
    BY <1>6, MissingType
  <2>2. b \notin Patchable => Traced(own[b][m]) = {}
    BY <1>3 DEF Good, Logs
  <2> QED
    BY <1>2, <1>6, <2>1, <2>2
<1>8. f = Missing => Good(c, m, r, s)
  <2> SUFFICES ASSUME f = Missing PROVE Good(c, m, r, s)
    OBVIOUS
  <2>1. s = <<>> /\ Traced(r) = {} /\ r \in Callables /\ s \in Seq(Callables)
    BY <1>1, <1>3, <1>5, <1>6, <1>7 DEF Good
  <2>2. Logs(c, m, r, s)
    BY <2>1 DEF Logs
  <2>3. Layered(c, m, r)
    BY <1>3, <1>6, <2>1 DEF Good, Layered
  <2> QED
    BY <2>1, <2>2, <2>3 DEF Good
<1>9. s = <<>> => Traced(r) = {}
  BY <1>1, <1>4, <1>7 DEF Good, Logs
<1> QED
  BY <1>1, <1>4, <1>5, <1>8, <1>9

-----------------------------------------------------------------------------
(* The steps of Patching.                                                  *)

LEMMA PatchStart == PatchingInit => PatchInv
<1> SUFFICES ASSUME PatchingInit PROVE PatchInv
  OBVIOUS
<1>1. PICK names \in Defines, alias \in SUBSET Tools :
         own = [c \in Classes |-> Dictionary(c, names[c], alias)]
  BY DEF PatchingInit
<1>2. ASSUME NEW c \in Classes, NEW m \in Methods
      PROVE  /\ own[c][m] \in Callables /\ Traced(own[c][m]) = {}
             /\ own[c][m].layers = <<>>
  <2>1. own[c][m] \in {Missing, Defined(c, "searchResults"), Defined(c, m)}
    BY <1>1 DEF Dictionary
  <2>2. "searchResults" \in Methods
    BY DEF Methods, QueryMethods
  <2>3. Missing.layers = <<>>
    BY DEF Missing
  <2> QED
    BY <2>1, <2>2, <2>3, MissingType, DefinedType
<1>3. own \in [Classes -> [Methods -> Callables]]
  <2>1. \A c \in Classes : own[c] = Dictionary(c, names[c], alias)
    BY <1>1
  <2>2. \A c \in Classes : own[c] \in [Methods -> Callables]
    BY <1>2, <2>1 DEF Dictionary
  <2> QED
    BY <1>1, <2>2
<1>4. <<>> \in Seq(Callables)
  OBVIOUS
<1>5. saved \in [Classes -> [Methods -> Seq(Callables)]]
  BY <1>4 DEF PatchingInit
<1>6. importable \subseteq Patchable
  BY ClassAssumption DEF PatchingInit
<1>7. ASSUME NEW c \in Classes, NEW m \in Methods PROVE Good(c, m, own[c][m], saved[c][m])
  <2>1. saved[c][m] = <<>>
    BY DEF PatchingInit
  <2>2. Layered(c, m, own[c][m])
    BY <1>2 DEF Layered
  <2> QED
    BY <1>2, <1>4, <2>1, <2>2 DEF Good, Logs
<1> QED
  BY <1>3, <1>5, <1>6, <1>7 DEF PatchingInit, PatchInv

\* What is replaced, and where.
LEMMA ReplacedIsFree ==
    ASSUME PatchInv, NEW p \in Packages, NEW c \in Reached(p), NEW m \in Replaced(c)
    PROVE  /\ c \in Patchable /\ c \in Classes /\ m \in Methods /\ Resolve(c, m) # Missing
           /\ Traced(Resolve(c, m)) = {} \/ (c = Connection /\ m = "setstate" /\ ~Marked(Resolve(c, m)))
<1>1. p \in {"catalog", "rendering", "setstate"} /\ c \in ClassesOf[p]
  BY DEF Packages, ClassesOf, Reached
<1>2. c \in Patchable /\ c \in Classes
  BY <1>1, ClassAssumption DEF ClassesOf, Patchable
<1>3. Targets(c) \subseteq Methods
  BY DEF Targets, Methods, QueryMethods
<1>4. Fresh(c) \subseteq Methods /\ m \in Methods
  BY <1>3 DEF Fresh, Replaced, Methods
<1>5. Resolve(c, m) # Missing
  <2>1. CASE m \in Fresh(c)
    BY <2>1 DEF Fresh
  <2>2. CASE m = "__call__" /\ IsAlias(c)
    <3>1. own[c]["__call__"] = Resolve(c, "searchResults") /\ Resolve(c, "searchResults") # Missing
      BY <2>2 DEF IsAlias, Fresh
    <3> QED
      BY <2>2, <3>1 DEF Resolve, Lookup
  <2> QED
    BY <2>1, <2>2 DEF Replaced
<1>6. CASE p # "setstate"
  <2>1. saved[c][m] = <<>>
    BY <1>1, <1>4, <1>6 DEF Reached, Logged
  <2> QED
    BY <1>2, <1>4, <1>5, <2>1, ResolveIsGood
<1>7. CASE p = "setstate"
  <2>1. c = Connection
    BY <1>1, <1>7 DEF ClassesOf
  <2>2. Targets(c) = {"setstate"}
    BY <2>1, ClassAssumption DEF Targets
  <2>3. ~IsAlias(c)
    BY <2>2 DEF IsAlias, Fresh
  <2>4. m \in Fresh(c)
    BY <2>3 DEF Replaced
  <2> QED
    BY <1>2, <1>4, <1>5, <2>1, <2>2, <2>4 DEF Fresh
<1> QED
  BY <1>6, <1>7

LEMMA InstrumentIsGood ==
    ASSUME PatchInv, NEW P \in SUBSET Packages, Instrument(P)
    PROVE  PatchInv'
<1> DEFINE reached == UNION {Reached(p) : p \in P}
           now(c, m) == c \in reached /\ m \in Replaced(c)
<1>1. /\ own' = [c \in Classes |-> [m \in Methods |->
                     IF now(c, m) THEN Wrapper(c, m) ELSE own[c][m]]]
      /\ saved' = [c \in Classes |-> [m \in Methods |->
                     IF now(c, m) THEN Append(saved[c][m], Resolve(c, m)) ELSE saved[c][m]]]
      /\ importable' = importable /\ foreign' = foreign
  BY DEF Instrument
<1>2. ASSUME NEW c \in Classes, NEW m \in Methods, now(c, m)
      PROVE  Good(c, m, Wrapper(c, m), Append(saved[c][m], Resolve(c, m)))
  <2>1. PICK p \in Packages : c \in Reached(p)
    BY <1>2
  <2>2. /\ c \in Patchable /\ Resolve(c, m) # Missing
        /\ Traced(Resolve(c, m)) = {} \/ (c = Connection /\ m = "setstate" /\ ~Marked(Resolve(c, m)))
    BY <1>2, <2>1, ReplacedIsFree
  <2>3. Good(c, m, Resolve(c, m), saved[c][m])
    BY ResolveIsGood
  <2> DEFINE n == IF m = "__call__" THEN "searchResults" ELSE m
  <2>4. n \in Methods /\ (m = "setstate" => n = m)
    BY DEF Methods, QueryMethods
  <2>5. Wrapper(c, m) = Wrap(Resolve(c, m), Ours(n))
    BY DEF Wrapper
  <2> HIDE DEF n, now
  <2> QED
    BY <2>2, <2>3, <2>4, <2>5, OursIsGood
<1> HIDE DEF now
<1>3. ASSUME NEW c \in Classes, NEW m \in Methods PROVE Good(c, m, own'[c][m], saved'[c][m])
  <2>1. Good(c, m, own[c][m], saved[c][m])
    BY DEF PatchInv
  <2>2. /\ own'[c][m] = IF now(c, m) THEN Wrapper(c, m) ELSE own[c][m]
        /\ saved'[c][m] = IF now(c, m) THEN Append(saved[c][m], Resolve(c, m)) ELSE saved[c][m]
    BY <1>1
  <2> QED
    BY <1>2, <2>1, <2>2
<1>4. /\ own' \in [Classes -> [Methods -> Callables]]
      /\ saved' \in [Classes -> [Methods -> Seq(Callables)]]
  <2>1. \A c \in Classes, m \in Methods :
           own'[c][m] \in Callables /\ saved'[c][m] \in Seq(Callables)
    BY <1>3 DEF Good
  <2> QED
    BY <1>1, <2>1
<1> QED
  BY <1>1, <1>3, <1>4 DEF PatchInv

LEMMA UninstrumentIsGood ==
    ASSUME PatchInv, NEW p \in Packages, Uninstrument(p)
    PROVE  PatchInv'
<1>1. /\ own' = [c \in Classes |-> [m \in Methods |->
                     IF c \in ClassesOf[p] /\ saved[c][m] # <<>> THEN saved[c][m][1] ELSE own[c][m]]]
      /\ saved' = [c \in Classes |-> [m \in Methods |->
                     IF c \in ClassesOf[p] THEN <<>> ELSE saved[c][m]]]
      /\ importable' = importable /\ foreign' = foreign
  BY DEF Uninstrument, Restored
<1>2. ASSUME NEW c \in Classes, NEW m \in Methods PROVE Good(c, m, own'[c][m], saved'[c][m])
  <2>1. Good(c, m, own[c][m], saved[c][m])
    BY DEF PatchInv
  <2>2. /\ own'[c][m] = IF c \in ClassesOf[p] /\ saved[c][m] # <<>> THEN saved[c][m][1] ELSE own[c][m]
        /\ saved'[c][m] = IF c \in ClassesOf[p] THEN <<>> ELSE saved[c][m]
    BY <1>1
  <2>3. CASE c \in ClassesOf[p] /\ saved[c][m] # <<>>
    <3>1. Good(c, m, saved[c][m][1], <<>>)
      BY <2>1, <2>3, OldestIsGood
    <3> QED
      BY <2>2, <2>3, <3>1
  <2>4. CASE ~(c \in ClassesOf[p] /\ saved[c][m] # <<>>)
    BY <2>1, <2>2, <2>4
  <2> QED
    BY <2>3, <2>4
<1>3. /\ own' \in [Classes -> [Methods -> Callables]]
      /\ saved' \in [Classes -> [Methods -> Seq(Callables)]]
  <2>1. \A c \in Classes, m \in Methods :
           own'[c][m] \in Callables /\ saved'[c][m] \in Seq(Callables)
    BY <1>2 DEF Good
  <2> QED
    BY <1>1, <2>1
<1> QED
  BY <1>1, <1>2, <1>3 DEF PatchInv

LEMMA ForeignPatchIsGood ==
    ASSUME PatchInv, NEW c \in Classes, NEW m \in Methods, NEW l, ForeignPatch(c, m, l)
    PROVE  PatchInv'
<1>1. /\ l \in {Plain(m), Copying(m)}
      /\ own' = [own EXCEPT ![c][m] = Wrap(Resolve(c, m), l)]
      /\ importable' = importable /\ saved' = saved /\ foreign' = foreign + 1
  BY DEF ForeignPatch
<1>2. Good(c, m, Wrap(Resolve(c, m), l), saved[c][m])
  BY <1>1, ResolveIsGood, OthersIsGood
<1> DEFINE w == Wrap(Resolve(c, m), l)
<1>3. w \in Callables
  BY <1>2 DEF Good
<1> HIDE DEF w
<1>4. own \in [Classes -> [Methods -> Callables]] /\ own' = [own EXCEPT ![c][m] = w]
  BY <1>1 DEF PatchInv, w
<1>5. /\ own' \in [Classes -> [Methods -> Callables]] /\ own'[c][m] = w
      /\ \A d \in Classes, n \in Methods : (d # c \/ n # m) => own'[d][n] = own[d][n]
  BY <1>3, <1>4
<1>6. ASSUME NEW d \in Classes, NEW n \in Methods PROVE Good(d, n, own'[d][n], saved[d][n])
  <2>1. CASE d = c /\ n = m
    BY <1>2, <1>5, <2>1 DEF w
  <2>2. CASE d # c \/ n # m
    BY <1>5, <2>2 DEF PatchInv
  <2> QED
    BY <2>1, <2>2
<1> QED
  BY <1>1, <1>5, <1>6 DEF PatchInv

LEMMA PatchIsGood == PatchInv /\ Patch => PatchInv'
<1> SUFFICES ASSUME PatchInv, Patch PROVE PatchInv'
  OBVIOUS
<1>1. CASE \E p \in Packages : Instrument({p}) \/ Uninstrument(p)
  <2>1. PICK p \in Packages : Instrument({p}) \/ Uninstrument(p)
    BY <1>1
  <2>2. {p} \in SUBSET Packages
    OBVIOUS
  <2> QED
    BY <2>1, <2>2, InstrumentIsGood, UninstrumentIsGood
<1>2. CASE \E c \in Classes, m \in Methods, kind \in {"plain", "copying"} :
              ForeignPatch(c, m, <<kind, m>>)
  BY <1>2, ForeignPatchIsGood
<1> QED
  BY <1>1, <1>2 DEF Patch

\* The two invariants of Patching are part of it.
LEMMA GoodIsTracedOnce ==
    PatchInv => PatchingTypeOK /\ TracedAtMostOnce /\ WrappersAreLogged
<1> SUFFICES ASSUME PatchInv PROVE PatchingTypeOK /\ TracedAtMostOnce /\ WrappersAreLogged
  OBVIOUS
<1>1. TracedAtMostOnce
  <2>1. \A c \in Classes, m \in Methods : Layered(c, m, Resolve(c, m))
    BY ResolveIsGood DEF Good
  <2> QED
    BY <2>1 DEF Layered, TracedAtMostOnce
<1>2. WrappersAreLogged
  BY DEF PatchInv, Good, Logs, WrappersAreLogged
<1>3. PatchingTypeOK
  BY ResolveIsGood DEF PatchInv, PatchingTypeOK
<1> QED
  BY <1>1, <1>2, <1>3

-----------------------------------------------------------------------------
(* Reversibility.                                                          *)

\* Our wrapper is not seen by who looks through tracing.
LEMMA UntracedWrapper ==
    ASSUME NEW f \in Callables, NEW n \in Methods
    PROVE  Untraced(Wrap(f, Ours(n))) = Untraced(f)
<1> DEFINE l == Ours(n)
           w == Wrap(f, l)
           top == Len(f.layers) + 1
<1>1. l \in Layers /\ l[1] = "traced"
  BY DEF Ours, Layers
<1> HIDE DEF l
<1>2. /\ w \in Callables /\ w.function = f.function /\ Len(w.layers) = top
      /\ \A k \in 1..Len(f.layers) : w.layers[k] = f.layers[k]
      /\ Traced(w) = Traced(f) \cup {top}
  BY <1>1, WrapType
<1>3. /\ DOMAIN w.layers = 1..top
      /\ Len(f.layers) \in Nat /\ DOMAIN f.layers = 1..Len(f.layers)
      /\ Traced(f) \subseteq 1..Len(f.layers)
  BY <1>2, CallableType
<1> HIDE DEF w
<1>4. DOMAIN w.layers \ Traced(w) = DOMAIN f.layers \ Traced(f)
  BY <1>2, <1>3
<1>5. \A k \in DOMAIN f.layers \ Traced(f) : w.layers[k] = f.layers[k]
  BY <1>2, <1>3
<1>6. Untraced(w) = Untraced(f)
  BY <1>2, <1>4, <1>5 DEF Untraced
<1> QED
  BY <1>6 DEF w, l

\* What the log keeps is what is seen through tracing, if nothing covers it.
LEMMA UntracedOldest ==
    ASSUME NEW f \in Callables, NEW s \in Callables, WrapsUp(f, s), Traced(s) = {},
           \A i \in Traced(f), j \in DOMAIN f.layers : j > i => j \in Traced(f)
    PROVE  Untraced(s) = Untraced(f)
<1> DEFINE n == Len(s.layers)
<1>1. /\ n \in Nat /\ DOMAIN s.layers = 1..n
      /\ Len(f.layers) \in Nat /\ DOMAIN f.layers = 1..Len(f.layers)
  BY CallableType
<1>2. /\ f.function = s.function /\ n < Len(f.layers)
      /\ \A k \in 1..n : f.layers[k] = s.layers[k]
      /\ f.layers[n + 1][1] = "traced"
  BY <1>1 DEF WrapsUp
<1>3. n + 1 \in Traced(f)
  BY <1>1, <1>2 DEF Traced
<1>4. \A k \in 1..n : k \in DOMAIN f.layers /\ k \notin Traced(f)
  BY <1>1, <1>2 DEF Traced
<1>5. \A k \in DOMAIN f.layers : k \notin 1..n => k \in Traced(f)
  <2> SUFFICES ASSUME NEW k \in DOMAIN f.layers, k \notin 1..n PROVE k \in Traced(f)
    OBVIOUS
  <2>1. k = n + 1 \/ k > n + 1
    BY <1>1
  <2> QED
    BY <1>3, <2>1
<1>6. DOMAIN f.layers \ Traced(f) = 1..n /\ DOMAIN s.layers \ Traced(s) = 1..n
  BY <1>1, <1>4, <1>5
<1> DEFINE A == {<<i, s.layers[i]>> : i \in 1..n}
           B == {<<i, f.layers[i]>> : i \in 1..n}
<1>7. A = B
  BY <1>2
<1> HIDE DEF n
<1>8. Untraced(s) = [function |-> s.function, layers |-> A]
  BY <1>6 DEF Untraced
<1>9. Untraced(f) = [function |-> f.function, layers |-> B]
  BY <1>6 DEF Untraced
<1> QED
  BY <1>2, <1>7, <1>8, <1>9

\* There is one way to be wrapped up.
LEMMA OldestIsOne ==
    ASSUME NEW f \in Callables, NEW s \in Callables, NEW t \in Callables,
           WrapsUp(f, s), WrapsUp(f, t), Traced(s) = {}, Traced(t) = {}
    PROVE  s = t
<1> DEFINE n == Len(s.layers)
           k == Len(t.layers)
<1>1. /\ n \in Nat /\ DOMAIN s.layers = 1..n /\ s.layers \in Seq(Layers)
      /\ k \in Nat /\ DOMAIN t.layers = 1..k /\ t.layers \in Seq(Layers)
      /\ s = [function |-> s.function, layers |-> s.layers]
      /\ t = [function |-> t.function, layers |-> t.layers]
  BY CallableType
<1>2. /\ f.function = s.function /\ \A x \in 1..n : f.layers[x] = s.layers[x]
      /\ f.layers[n + 1][1] = "traced"
      /\ f.function = t.function /\ \A x \in 1..k : f.layers[x] = t.layers[x]
      /\ f.layers[k + 1][1] = "traced"
  BY <1>1 DEF WrapsUp
<1>3. (\A x \in 1..n : s.layers[x][1] # "traced") /\ (\A x \in 1..k : t.layers[x][1] # "traced")
  BY <1>1 DEF Traced
<1>4. ~(n < k)
  <2> SUFFICES ASSUME n < k PROVE FALSE
    OBVIOUS
  <2>1. n + 1 \in 1..k
    BY <1>1
  <2> QED
    BY <1>2, <1>3, <2>1
<1>5. ~(k < n)
  <2> SUFFICES ASSUME k < n PROVE FALSE
    OBVIOUS
  <2>1. k + 1 \in 1..n
    BY <1>1
  <2> QED
    BY <1>2, <1>3, <2>1
<1>6. n = k
  BY <1>1, <1>4, <1>5
<1>7. s.layers = t.layers
  BY <1>1, <1>2, <1>6
<1> QED
  BY <1>1, <1>2, <1>7

\* What CallsTheSameFunction says of a step.
SameFunction ==
    foreign' = foreign =>
        \A c \in Classes, m \in Methods :
            ~Covered(c, m) => Untraced(Lookup(own', c, m)) = Untraced(Lookup(own, c, m))

\* What AliasesStayAliases says of one.
SameAlias ==
    foreign' = foreign =>
        \A c \in Tools :
            (own[c]["__call__"] # Missing /\ own[c]["__call__"] = own[c]["searchResults"])
                => own'[c]["__call__"] = own'[c]["searchResults"]

LEMMA WrapperFound ==
    ASSUME PatchInv, NEW c \in Classes, NEW m \in Methods
    PROVE  Wrapper(c, m) # Missing /\ Untraced(Wrapper(c, m)) = Untraced(Resolve(c, m))
<1> DEFINE n == IF m = "__call__" THEN "searchResults" ELSE m
<1>1. n \in Methods /\ Ours(n) \in Layers
  BY DEF Methods, QueryMethods, Ours, Layers
<1>2. Wrapper(c, m) = Wrap(Resolve(c, m), Ours(n))
  BY DEF Wrapper
<1> HIDE DEF n
<1>3. Resolve(c, m) \in Callables
  BY ResolveIsGood DEF Good
<1>4. Len(Wrap(Resolve(c, m), Ours(n)).layers) = Len(Resolve(c, m).layers) + 1
  BY <1>1, <1>3, WrapType
<1>5. Len(Resolve(c, m).layers) \in Nat /\ Len(Missing.layers) = 0
  BY <1>3, CallableType DEF Missing
<1>6. Wrapper(c, m) # Missing
  BY <1>2, <1>4, <1>5
<1> QED
  BY <1>1, <1>2, <1>3, <1>6, UntracedWrapper

LEMMA InstrumentSame ==
    ASSUME PatchInv, NEW P \in SUBSET Packages, Instrument(P)
    PROVE  SameFunction /\ SameAlias
<1> DEFINE reached == UNION {Reached(p) : p \in P}
           now(c, m) == c \in reached /\ m \in Replaced(c)
<1>1. own' = [c \in Classes |-> [m \in Methods |->
                 IF now(c, m) THEN Wrapper(c, m) ELSE own[c][m]]]
  BY DEF Instrument
<1>2. \A c \in Classes, m \in Methods :
         own'[c][m] = IF now(c, m) THEN Wrapper(c, m) ELSE own[c][m]
  BY <1>1
<1>3. reached \subseteq Patchable
  <2>1. importable \subseteq Patchable
    BY DEF PatchInv
  <2> QED
    BY <2>1 DEF Reached
<1>4. ASSUME NEW c \in Classes, NEW m \in Methods
      PROVE  Untraced(Lookup(own', c, m)) = Untraced(Lookup(own, c, m))
  <2> HIDE DEF reached
  <2>1. CASE now(c, m)
    <3>1. own'[c][m] = Wrapper(c, m) /\ Wrapper(c, m) # Missing
      BY <1>2, <2>1, WrapperFound
    <3>2. Lookup(own', c, m) = Wrapper(c, m)
      BY <3>1 DEF Lookup
    <3> QED
      BY <3>2, WrapperFound DEF Resolve
  <2>2. CASE ~now(c, m)
    <3>1. own'[c][m] = own[c][m]
      BY <1>2, <2>2
    <3>2. CASE own[c][m] # Missing
      BY <3>1, <3>2 DEF Lookup
    <3>3. CASE own[c][m] = Missing
      <4>1. Base[c] \in Classes /\ (Base[c] = c \/ Base[c] \notin Patchable)
        BY ClassAssumption
      <4>2. own'[Base[c]][m] = own[Base[c]][m]
        BY <1>2, <1>3, <3>1, <4>1
      <4> QED
        BY <3>1, <3>3, <4>2 DEF Lookup
    <3> QED
      BY <3>2, <3>3
  <2> QED
    BY <2>1, <2>2
<1>5. ASSUME NEW c \in Tools, own[c]["__call__"] # Missing,
             own[c]["__call__"] = own[c]["searchResults"]
      PROVE  own'[c]["__call__"] = own'[c]["searchResults"]
  <2>1. c \in Classes /\ "__call__" \in Methods /\ "searchResults" \in Methods
    BY ClassAssumption DEF Patchable, Methods, QueryMethods
  <2>2. /\ Resolve(c, "searchResults") = own[c]["searchResults"]
        /\ Resolve(c, "__call__") = own[c]["searchResults"]
    BY <1>5 DEF Resolve, Lookup
  <2>3. "__call__" \notin Fresh(c)
    BY DEF Fresh, Targets, QueryMethods
  <2>4. "__call__" \in Replaced(c) <=> "searchResults" \in Replaced(c)
    BY <1>5, <2>2, <2>3 DEF Replaced, IsAlias
  <2>5. Wrapper(c, "__call__") = Wrapper(c, "searchResults")
    BY <2>2 DEF Wrapper
  <2> HIDE DEF reached
  <2> QED
    BY <1>2, <1>5, <2>1, <2>4, <2>5
<1> QED
  BY <1>4, <1>5 DEF SameFunction, SameAlias

LEMMA UninstrumentSame ==
    ASSUME PatchInv, NEW p \in Packages, Uninstrument(p)
    PROVE  SameFunction /\ SameAlias
<1> DEFINE now(c, m) == c \in ClassesOf[p] /\ saved[c][m] # <<>>
<1>1. own' = [c \in Classes |-> [m \in Methods |->
                 IF now(c, m) THEN saved[c][m][1] ELSE own[c][m]]]
  BY DEF Uninstrument, Restored
<1>2. \A c \in Classes, m \in Methods :
         own'[c][m] = IF now(c, m) THEN saved[c][m][1] ELSE own[c][m]
  BY <1>1
<1>3. ASSUME NEW c \in Classes, NEW m \in Methods
      PROVE  /\ own[c][m] \in Callables
             /\ Traced(own[c][m]) # {} <=> saved[c][m] # <<>>
             /\ saved[c][m] # <<>> =>
                   /\ c \in Patchable /\ saved[c][m][1] # Missing /\ saved[c][m][1] \in Callables
                   /\ Traced(saved[c][m][1]) = {} /\ WrapsUp(own[c][m], saved[c][m][1])
  <2>1. Good(c, m, own[c][m], saved[c][m])
    BY DEF PatchInv
  <2>2. saved[c][m] \in Seq(Callables)
    BY <2>1 DEF Good
  <2>3. saved[c][m] # <<>> => saved[c][m][1] \in Callables
    BY <2>2
  <2> QED
    BY <2>1, <2>3 DEF Good, Logs
<1>4. ASSUME NEW c \in Classes, NEW m \in Methods, ~Covered(c, m)
      PROVE  Untraced(Lookup(own', c, m)) = Untraced(Lookup(own, c, m))
  <2>1. CASE now(c, m)
    <3>1. own'[c][m] = saved[c][m][1] /\ saved[c][m][1] # Missing
      BY <1>2, <1>3, <2>1
    <3>2. Lookup(own', c, m) = saved[c][m][1]
      BY <3>1 DEF Lookup
    <3>3. own[c][m] # Missing
      BY <2>1, ResolveIsGood
    <3>4. Lookup(own, c, m) = own[c][m]
      BY <3>3 DEF Lookup
    <3>5. \A i \in Traced(own[c][m]), j \in DOMAIN own[c][m].layers :
             j > i => j \in Traced(own[c][m])
      BY <1>4 DEF Covered
    <3>6. Untraced(saved[c][m][1]) = Untraced(own[c][m])
      BY <1>3, <2>1, <3>5, UntracedOldest
    <3> QED
      BY <3>2, <3>4, <3>6
  <2>2. CASE ~now(c, m)
    <3>1. own'[c][m] = own[c][m]
      BY <1>2, <2>2
    <3>2. CASE own[c][m] # Missing
      BY <3>1, <3>2 DEF Lookup
    <3>3. CASE own[c][m] = Missing
      <4>1. Base[c] \in Classes /\ (Base[c] = c \/ Base[c] \notin Patchable)
        BY ClassAssumption
      <4>2. own'[Base[c]][m] = own[Base[c]][m]
        BY <1>2, <1>3, <3>1, <4>1
      <4> QED
        BY <3>1, <3>3, <4>2 DEF Lookup
    <3> QED
      BY <3>2, <3>3
  <2> QED
    BY <2>1, <2>2
<1>5. ASSUME NEW c \in Tools, own[c]["__call__"] # Missing,
             own[c]["__call__"] = own[c]["searchResults"]
      PROVE  own'[c]["__call__"] = own'[c]["searchResults"]
  <2>1. c \in Classes /\ "__call__" \in Methods /\ "searchResults" \in Methods
    BY ClassAssumption DEF Patchable, Methods, QueryMethods
  <2> DEFINE f == own[c]["__call__"]
             s == saved[c]["__call__"]
             t == saved[c]["searchResults"]
  <2>2. /\ f \in Callables /\ (Traced(f) # {} <=> s # <<>>)
        /\ s # <<>> => s[1] \in Callables /\ Traced(s[1]) = {} /\ WrapsUp(f, s[1])
    BY <1>3, <2>1
  <2>3. f = own[c]["searchResults"]
    BY <1>5
  <2>4. /\ Traced(own[c]["searchResults"]) # {} <=> t # <<>>
        /\ t # <<>> => /\ t[1] \in Callables /\ Traced(t[1]) = {}
                       /\ WrapsUp(own[c]["searchResults"], t[1])
    BY <1>3, <2>1
  <2> HIDE DEF f
  <2>5. (s # <<>> <=> t # <<>>) /\ (s # <<>> => s[1] = t[1])
    BY <2>2, <2>3, <2>4, OldestIsOne
  <2> QED
    BY <1>2, <1>5, <2>1, <2>5
<1> QED
  BY <1>4, <1>5 DEF SameFunction, SameAlias

LEMMA PatchSame == PatchInv /\ (Patch \/ Instrument(Packages)) => SameFunction /\ SameAlias
<1> SUFFICES ASSUME PatchInv, Patch \/ Instrument(Packages) PROVE SameFunction /\ SameAlias
  OBVIOUS
<1>1. CASE Instrument(Packages)
  BY <1>1, InstrumentSame
<1>2. CASE \E p \in Packages : Instrument({p}) \/ Uninstrument(p)
  <2>1. PICK p \in Packages : Instrument({p}) \/ Uninstrument(p)
    BY <1>2
  <2>2. {p} \in SUBSET Packages
    OBVIOUS
  <2> QED
    BY <2>1, <2>2, InstrumentSame, UninstrumentSame
<1>3. CASE \E c \in Classes, m \in Methods, kind \in {"plain", "copying"} :
              ForeignPatch(c, m, <<kind, m>>)
  <2>1. foreign' = foreign + 1 /\ foreign \in Nat
    BY <1>3 DEF ForeignPatch, PatchInv
  <2> QED
    BY <2>1 DEF SameFunction, SameAlias
<1> QED
  BY <1>1, <1>2, <1>3 DEF Patch

-----------------------------------------------------------------------------
(* What the filter switches on.                                            *)

SetupInv ==
    /\ PatchInv
    /\ SetupTypeOK
    /\ InstrumentorsAreListed
    /\ ~done => listed = {}
    /\ late => registered
    /\ renders \in [Managers -> Nat]
    /\ spans \in [Managers -> [manager : Nat, child : Nat]]
    /\ \A v \in Managers : wrapped[v] <= renders[v]
    /\ OneSpanPerSubrequest
    /\ ChildSpansNest

\* The parts of it that the steps of one mechanism are about.
HooksInv ==
    /\ imported \subseteq CallerModules
    /\ tracedCalls \in [CallerModules -> Nat]
    /\ late => registered
    /\ OneSpanPerSubrequest

InstrumentorsInv ==
    /\ listed \subseteq usable /\ stuck \subseteq usable /\ on \subseteq usable
    /\ InstrumentorsAreListed
    /\ ~done => listed = {}

RenderingInv ==
    /\ wrapped \in [Managers -> Nat]
    /\ renders \in [Managers -> Nat]
    /\ spans \in [Managers -> [manager : Nat, child : Nat]]
    /\ \A v \in Managers : wrapped[v] <= renders[v]
    /\ ChildSpansNest

LEMMA PartsOfSetup ==
    SetupInv <=> PatchInv /\ providers \in 0..1 /\ HooksInv /\ InstrumentorsInv /\ RenderingInv
BY GoodIsTracedOnce DEF SetupInv, SetupTypeOK, HooksInv, InstrumentorsInv, RenderingInv

LEMMA SetupStart == SetupInit => SetupInv
<1> SUFFICES ASSUME SetupInit PROVE SetupInv
  OBVIOUS
<1>1. PatchInv
  BY PatchStart DEF SetupInit
<1>2. HooksInv
  BY DEF SetupInit, HooksInv, OneSpanPerSubrequest, CallerModules
<1>3. InstrumentorsInv
  BY DEF SetupInit, InstrumentorsInv, InstrumentorsAreListed
<1>4. RenderingInv
  BY DEF SetupInit, RenderingInv, ChildSpansNest, NoSpans
<1>5. providers \in 0..1
  BY DEF SetupInit
<1> QED
  BY <1>1, <1>2, <1>3, <1>4, <1>5, PartsOfSetup

\* A module that is imported is hooked once, when it is or when we register.
LEMMA RegisterIsOnce == HooksInv /\ Register => HooksInv'
BY DEF HooksInv, Register, OneSpanPerSubrequest

LEMMA ImportIsOnce ==
    ASSUME NEW m \in CallerModules, HooksInv, Import(m)
    PROVE  HooksInv'
<1> DEFINE sub == "plone.subrequest"
           blocks == "plone.app.blocks.utils"
           hook == IF registered THEN 1 ELSE 0
           found == IF sub \in imported THEN tracedCalls[sub] ELSE hook
<1>1. /\ imported \subseteq CallerModules /\ tracedCalls \in [CallerModules -> Nat]
      /\ late => registered
      /\ \A n \in imported :
            tracedCalls[n] = IF ~registered THEN 0 ELSE IF late /\ n = blocks THEN 2 ELSE 1
  BY DEF HooksInv, OneSpanPerSubrequest
<1>2. /\ m \notin imported /\ imported' = imported \cup {m, sub} /\ registered' = registered
      /\ tracedCalls' = [n \in CallerModules |->
            IF n \in imported \/ n \notin imported' THEN tracedCalls[n]
            ELSE IF n = sub THEN found ELSE found + hook]
      /\ late' = (late \/ (registered /\ m = blocks))
  BY DEF Import
<1>3. CallerModules = {sub, blocks} /\ sub # blocks
  BY DEF CallerModules
<1>4. hook \in Nat /\ found = hook
  BY <1>1, <1>3
<1> HIDE DEF found
<1>5. tracedCalls' \in [CallerModules -> Nat]
  BY <1>1, <1>2, <1>4
<1>6. ASSUME NEW n \in imported'
      PROVE  tracedCalls'[n] = IF ~registered THEN 0 ELSE IF late' /\ n = blocks THEN 2 ELSE 1
  <2>1. n \in CallerModules
    BY <1>1, <1>2, <1>3
  <2>2. CASE n \in imported
    <3>1. tracedCalls'[n] = tracedCalls[n]
      BY <1>2, <2>1, <2>2
    <3>2. n = blocks => (late' <=> late)
      BY <1>2, <2>2
    <3> QED
      BY <1>1, <2>2, <3>1, <3>2
  <2>3. CASE n \notin imported /\ n = sub
    BY <1>2, <1>3, <1>4, <2>1, <2>3
  <2>4. CASE n \notin imported /\ n = blocks
    <3>1. m = blocks
      BY <1>2, <1>3, <2>4
    <3>2. tracedCalls'[n] = hook + hook
      BY <1>2, <1>3, <1>4, <2>1, <2>4
    <3>3. late' <=> registered
      BY <1>1, <1>2, <3>1
    <3>4. registered => hook + hook = 2
      OBVIOUS
    <3>5. ~registered => hook + hook = 0
      OBVIOUS
    <3> QED
      BY <2>4, <3>2, <3>3, <3>4, <3>5
  <2> QED
    BY <1>3, <2>1, <2>2, <2>3, <2>4
<1> QED
  BY <1>1, <1>2, <1>3, <1>5, <1>6 DEF HooksInv, OneSpanPerSubrequest

LEMMA EnableIsListed ==
    ASSUME NEW failing, InstrumentorsInv, Enable(failing)
    PROVE  InstrumentorsInv'
BY DEF InstrumentorsInv, InstrumentorsAreListed, Enable, instrumentors

LEMMA DisableIsListed ==
    ASSUME NEW failing, InstrumentorsInv, Disable(failing)
    PROVE  InstrumentorsInv'
BY DEF InstrumentorsInv, InstrumentorsAreListed, Disable

\* A rendered class is not the connection: it is traced once at most.
LEMMA RenderIsTracedOnce ==
    ASSUME PatchInv, NEW v \in Managers
    PROVE  Cardinality(Traced(Resolve(v, "render"))) \in 0..1
<1> DEFINE T == Traced(Resolve(v, "render"))
<1>1. v \in Classes /\ v # Connection /\ "render" \in Methods
  BY ClassAssumption DEF Patchable, Methods
<1>2. \A i, j \in T : ~(i < j)
  BY <1>1, GoodIsTracedOnce DEF TracedAtMostOnce
<1>3. Resolve(v, "render") \in Callables
  BY <1>1, ResolveIsGood DEF Good
<1>4. \A i \in T : i \in Nat
  BY <1>3, CallableType
<1> HIDE DEF T
<1>5. \A i, j \in T : i = j
  BY <1>2, <1>4
<1>6. CASE T = {}
  BY <1>6, FS_EmptySet DEF T
<1>7. CASE T # {}
  <2>1. PICK i : T = {i}
    BY <1>5, <1>7
  <2>2. Cardinality(T) = 1
    BY <2>1, FS_Singleton
  <2> QED
    BY <2>2 DEF T
<1> QED
  BY <1>6, <1>7

LEMMA UpdateNests ==
    ASSUME NEW v \in Managers, RenderingInv, Update(v)
    PROVE  RenderingInv'
BY DEF RenderingInv, ChildSpansNest, Update, NoSpans

LEMMA RenderNests ==
    ASSUME NEW v \in Managers, NEW active \in BOOLEAN, NEW children \in BOOLEAN,
           PatchInv, RenderingInv, Render(v, active, children)
    PROVE  RenderingInv'
<1> DEFINE t == Cardinality(Traced(Resolve(v, "render")))
           w == WrapsAdded(v, active, children)
           s == IF active THEN t ELSE 0
<1>1. t \in 0..1 /\ w \in 0..1 /\ s \in 0..1 /\ w <= s
  BY RenderIsTracedOnce DEF WrapsAdded
<1>2. /\ renders' = [renders EXCEPT ![v] = @ + 1]
      /\ wrapped' = [wrapped EXCEPT ![v] = @ + w]
      /\ spans' = [spans EXCEPT ![v] = [manager |-> s, child |-> wrapped'[v]]]
  BY DEF Render
<1> HIDE DEF s, w
<1>3. /\ wrapped \in [Managers -> Nat] /\ renders \in [Managers -> Nat]
      /\ spans \in [Managers -> [manager : Nat, child : Nat]]
      /\ \A x \in Managers : wrapped[x] <= renders[x]
  BY DEF RenderingInv
<1>4. wrapped' \in [Managers -> Nat] /\ renders' \in [Managers -> Nat]
  BY <1>1, <1>2, <1>3
<1>5. spans' \in [Managers -> [manager : Nat, child : Nat]]
  BY <1>1, <1>2, <1>3, <1>4
<1>6. ASSUME NEW x \in Managers
      PROVE  /\ wrapped'[x] <= renders'[x] /\ spans'[x].child <= renders'[x]
             /\ renders'[x] <= 1 => spans'[x].child <= spans'[x].manager
  <2>1. CASE x = v
    <3>1. renders'[x] = renders[x] + 1 /\ wrapped'[x] = wrapped[x] + w
      BY <1>2, <1>3, <2>1
    <3>2. spans'[x].child = wrapped'[x] /\ spans'[x].manager = s
      BY <1>2, <1>3, <2>1
    <3>3. renders[x] \in Nat /\ wrapped[x] \in Nat /\ wrapped[x] <= renders[x]
      BY <1>3
    <3> QED
      BY <1>1, <3>1, <3>2, <3>3
  <2>2. CASE x # v
    <3>1. renders'[x] = renders[x] /\ wrapped'[x] = wrapped[x] /\ spans'[x] = spans[x]
      BY <1>2, <1>3, <2>2
    <3> QED
      BY <1>3, <3>1 DEF RenderingInv, ChildSpansNest
  <2> QED
    BY <2>1, <2>2
<1> QED
  BY <1>4, <1>5, <1>6 DEF RenderingInv, ChildSpansNest

-----------------------------------------------------------------------------
(* Theorems.                                                               *)

\* What a step does to a mechanism that it is not a step of.
LEMMA OthersKeep ==
    /\ PatchInv /\ UNCHANGED patches => PatchInv'
    /\ HooksInv /\ UNCHANGED subrequests => HooksInv'
    /\ InstrumentorsInv /\ UNCHANGED instrumentors => InstrumentorsInv'
    /\ RenderingInv /\ UNCHANGED rendering => RenderingInv'
<1>1. PatchInv /\ UNCHANGED patches => PatchInv'
  BY DEF PatchInv, patches
<1>2. HooksInv /\ UNCHANGED subrequests => HooksInv'
  BY DEF HooksInv, OneSpanPerSubrequest, subrequests
<1>3. InstrumentorsInv /\ UNCHANGED instrumentors => InstrumentorsInv'
  BY DEF InstrumentorsInv, InstrumentorsAreListed, instrumentors
<1>4. RenderingInv /\ UNCHANGED rendering => RenderingInv'
  BY DEF RenderingInv, ChildSpansNest, rendering
<1> QED
  BY <1>1, <1>2, <1>3, <1>4

LEMMA SetupStep == SetupInv /\ [SetupNext]_setupVars => SetupInv'
<1> SUFFICES ASSUME SetupInv, [SetupNext]_setupVars PROVE SetupInv'
  OBVIOUS
<1>1. PatchInv /\ providers \in 0..1 /\ HooksInv /\ InstrumentorsInv /\ RenderingInv
  BY PartsOfSetup
<1>2. SUFFICES PatchInv' /\ providers' \in 0..1 /\ HooksInv' /\ InstrumentorsInv' /\ RenderingInv'
  <2>1. (SetupInv <=> PatchInv /\ providers \in 0..1 /\ HooksInv /\ InstrumentorsInv /\ RenderingInv)'
    BY PartsOfSetup, PTL
  <2> QED
    BY <1>2, <2>1
<1>3. ASSUME NEW failing \in SUBSET Libraries, MakeFilter(failing)
      PROVE  PatchInv' /\ providers' \in 0..1 /\ HooksInv' /\ InstrumentorsInv' /\ RenderingInv'
  <2>1. SetupTracing /\ Instrument(Packages) /\ Register /\ Enable(failing) /\ UNCHANGED rendering
    BY <1>3 DEF MakeFilter
  <2>2. PatchInv'
    BY <1>1, <2>1, InstrumentIsGood
  <2>3. providers' \in 0..1
    BY <1>1, <2>1 DEF SetupTracing
  <2> QED
    BY <1>1, <2>1, <2>2, <2>3, RegisterIsOnce, EnableIsListed, OthersKeep
<1>4. ASSUME NEW failing \in SUBSET Libraries, Disable(failing)
      PROVE  PatchInv' /\ providers' \in 0..1 /\ HooksInv' /\ InstrumentorsInv' /\ RenderingInv'
  <2>1. UNCHANGED <<patches, providers, subrequests, rendering>>
    BY <1>4 DEF Disable
  <2> QED
    BY <1>1, <1>4, <2>1, DisableIsListed, OthersKeep
<1>5. ASSUME NEW m \in CallerModules, Import(m)
      PROVE  PatchInv' /\ providers' \in 0..1 /\ HooksInv' /\ InstrumentorsInv' /\ RenderingInv'
  <2>1. UNCHANGED <<patches, providers, instrumentors, rendering>>
    BY <1>5 DEF Import
  <2> QED
    BY <1>1, <1>5, <2>1, ImportIsOnce, OthersKeep
<1>6. CASE Patch /\ UNCHANGED <<providers, subrequests, instrumentors, rendering>>
  BY <1>1, <1>6, PatchIsGood, OthersKeep
<1>7. ASSUME NEW v \in Managers, Update(v)
      PROVE  PatchInv' /\ providers' \in 0..1 /\ HooksInv' /\ InstrumentorsInv' /\ RenderingInv'
  <2>1. UNCHANGED <<patches, providers, subrequests, instrumentors>>
    BY <1>7 DEF Update
  <2> QED
    BY <1>1, <1>7, <2>1, UpdateNests, OthersKeep
<1>8. ASSUME NEW v \in Managers, NEW active \in BOOLEAN, NEW children \in BOOLEAN,
             Render(v, active, children)
      PROVE  PatchInv' /\ providers' \in 0..1 /\ HooksInv' /\ InstrumentorsInv' /\ RenderingInv'
  <2>1. UNCHANGED <<patches, providers, subrequests, instrumentors>>
    BY <1>8 DEF Render
  <2> QED
    BY <1>1, <1>8, <2>1, RenderNests, OthersKeep
<1>9. CASE UNCHANGED setupVars
  BY <1>1, <1>9, OthersKeep DEF setupVars
<1> QED
  BY <1>3, <1>4, <1>5, <1>6, <1>7, <1>8, <1>9 DEF SetupNext

LEMMA SetupInvariant == SetupSpec => []SetupInv
<1> QED
  BY SetupStart, SetupStep, PTL DEF SetupSpec

(* Type correctness of what the filter switches on; there is one tracer     *)
(* provider.                                                                *)
THEOREM SetupTypeCorrect == SetupSpec => []SetupTypeOK
<1>1. SetupInv => SetupTypeOK
  BY DEF SetupInv
<1> QED
  BY <1>1, SetupInvariant, PTL

(* otel/instrumentors.py: disable() finds every instrumentor that is on,    *)
(* except those that have failed to switch off before.                      *)
THEOREM InstrumentorsCanBeSwitchedOff == SetupSpec => []InstrumentorsAreListed
<1>1. SetupInv => InstrumentorsAreListed
  BY DEF SetupInv
<1> QED
  BY <1>1, SetupInvariant, PTL

(* otel/catalog.py, rendering.py, zodb.py: however often the patches are    *)
(* applied and taken off, a call is traced once.                            *)
THEOREM CallsAreTracedOnce == SetupSpec => []TracedAtMostOnce
<1>1. SetupInv => TracedAtMostOnce
  BY GoodIsTracedOnce DEF SetupInv
<1> QED
  BY <1>1, SetupInvariant, PTL

(* There is an entry in the log for every wrapper that is there.            *)
THEOREM WrappersCanBeTakenOff == SetupSpec => []WrappersAreLogged
<1>1. SetupInv => WrappersAreLogged
  BY GoodIsTracedOnce DEF SetupInv
<1> QED
  BY <1>1, SetupInvariant, PTL

(* otel/subrequest.py: a span per subrequest, save for the late import.     *)
THEOREM SubrequestsAreTracedOnce == SetupSpec => []OneSpanPerSubrequest
<1>1. SetupInv => OneSpanPerSubrequest
  BY DEF SetupInv
<1> QED
  BY <1>1, SetupInvariant, PTL

(* otel/rendering.py: a child's span lies within its manager's.             *)
THEOREM ChildrenAreNested == SetupSpec => []ChildSpansNest
<1>1. SetupInv => ChildSpansNest
  BY DEF SetupInv
<1> QED
  BY <1>1, SetupInvariant, PTL

\* The steps that touch the patches are MakeFilter's and Patch's.
LEMMA OnlyPatchesPatch ==
    SetupInv /\ [SetupNext]_setupVars => [SameFunction /\ SameAlias]_patches
<1> SUFFICES ASSUME SetupInv, [SetupNext]_setupVars, ~UNCHANGED patches
             PROVE  SameFunction /\ SameAlias
  OBVIOUS
<1>1. Patch \/ Instrument(Packages)
  BY DEF SetupNext, setupVars, MakeFilter, Disable, Import, Update, Render
<1> QED
  BY <1>1, PatchSame DEF SetupInv

(* otel/catalog.py, "reversible": instrumenting, and taking that back, do   *)
(* not change which function a call reaches.                                *)
THEOREM TheFunctionStays == SetupSpec => CallsTheSameFunction
<1>1. SetupInv /\ [SetupNext]_setupVars => [SameFunction]_patches
  BY OnlyPatchesPatch
<1> QED
  BY <1>1, SetupInvariant, PTL DEF SetupSpec, CallsTheSameFunction, SameFunction

(* otel/catalog.py: two names of one method stay two names of one method.   *)
THEOREM TheAliasStays == SetupSpec => AliasesStayAliases
<1>1. SetupInv /\ [SetupNext]_setupVars => [SameAlias]_patches
  BY OnlyPatchesPatch
<1> QED
  BY <1>1, SetupInvariant, PTL DEF SetupSpec, AliasesStayAliases, SameAlias

=============================================================================
