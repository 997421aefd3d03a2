-------------------------- MODULE GaugeCacheProofs --------------------------
(***************************************************************************)
(* Proofs about GaugeCache, for every set of scrapers, every TTL and every *)
(* length of behaviour.                                                    *)
(***************************************************************************)
EXTENDS GaugeCache, TLAPS

\* What makes NeverStale inductive: the time a scrape has taken is off by what
\* the clock had been set back by, and the timestamp of an entry, off by what
\* it had been set back by when it was taken, is never later than the reading
\* it stands for.
Dated ==
    /\ \A s \in Scrapers : began[s] = now[s] + behind[s] /\ began[s] <= clock + back
    /\ entry # None => entry.at + dated <= entry.value
    /\ \A s \in Scrapers : pc[s] = "store" => began[s] <= value[s]
    /\ NeverStale

IInv == TypeOK /\ Dated

\* Init establishes the invariant.
LEMMA InitIInv == Init => IInv
BY TimeAssumption DEF Init, IInv, TypeOK, Dated, NeverStale

\* Every step preserves it.
LEMMA StepIInv == IInv /\ [Next]_vars => IInv'
<1> SUFFICES ASSUME IInv, [Next]_vars PROVE IInv'
  OBVIOUS
<1> USE DEF IInv, TypeOK, Dated, NeverStale
<1>1. CASE UNCHANGED vars
  BY <1>1 DEF vars, scraper
<1>2. CASE Tick
  BY <1>2, TimeAssumption DEF Tick, scraper
<1>3. CASE SetBack
  <2>1. PICK k \in 1..clock : back + k <= MaxBack /\ clock' = clock - k /\ back' = back + k
    BY <1>3 DEF SetBack
  <2>2. back' \in 0..MaxBack /\ clock' \in Nat /\ back' >= back /\ clock' + back' = clock + back
    BY <2>1, TimeAssumption
  <2>3. UNCHANGED <<entry, dated, pc, now, value, began, behind, slipped>>
    BY <1>3 DEF SetBack, scraper
  <2> QED
    BY <2>2, <2>3, TimeAssumption
<1>4. ASSUME NEW s \in Scrapers, Scrape(s) PROVE IInv'
  <2>1. CASE Start(s)
    BY <2>1 DEF Start, Goto
  <2>2. CASE Hit(s)
    <3>1. entry \in [at : Nat, value : Nat] /\ now[s] - entry.at < TTL
      BY <2>2 DEF Hit, Fresh
    <3>2. began[s] - entry.value < TTL + (behind[s] - dated)
      BY <3>1, NoneAssumption, TimeAssumption
    <3>3. behind[s] - dated \in (-MaxBack)..MaxBack
      BY TimeAssumption
    <3> QED
      BY <2>2, <3>1, <3>2, <3>3 DEF Hit, Goto
  <2>3. CASE Miss(s)
    BY <2>3 DEF Miss, Goto
  <2>4. CASE Query(s)
    BY <2>4 DEF Query, Goto
  <2>5. CASE QueryFails(s)
    BY <2>5 DEF QueryFails, Goto
  <2>6. CASE Store(s)
    BY <2>6 DEF Store, Goto
  <2>7. CASE Return(s)
    BY <2>7 DEF Return, Goto
  <2> QED
    BY <1>4, <2>1, <2>2, <2>3, <2>4, <2>5, <2>6, <2>7 DEF Scrape
<1> QED
  BY <1>1, <1>2, <1>3, <1>4 DEF Next

\* It holds in every reachable state.
LEMMA InvariantHolds == Spec => []IInv
BY InitIInv, StepIInv, PTL DEF Spec

(* Type correctness of the gauge cache.                                     *)
THEOREM GaugeTypeCorrect == Spec => []TypeOK
<1>1. IInv => TypeOK
  BY DEF IInv
<1> QED
  BY <1>1, InvariantHolds, PTL

(* No scrape returns a reading that was TTL or more old when it began, plus *)
(* what the clock was set back by since the entry served was dated.         *)
THEOREM GaugesNeverStale == Spec => []NeverStale
<1>1. IInv => NeverStale
  BY DEF IInv, Dated
<1> QED
  BY <1>1, InvariantHolds, PTL

=============================================================================
