------------------------ MODULE ActivityMonitorProofs ------------------------
(***************************************************************************)
(* Proofs about ActivityMonitor, for every number of connections, scrapes, *)
(* loads and nested spans.                                                 *)
(***************************************************************************)
EXTENDS ActivityMonitor, Sums, SequenceTheorems, TLAPS

\* A connection that is being closed has a monitor, and the total that the
\* one inside the monitor's lock has read is still the total.
Adding ==
    /\ \A c \in Conns : cpc[c] \in {"lock", "add"} => target[c] \in DOMAIN totals
    /\ \A c \in Conns : cpc[c] = "add" => temp[c] = totals[target[c]]
    /\ \A c, d \in Conns :
          (cpc[c] = "add" /\ cpc[d] = "add" /\ target[c] = target[d]) => c = d

\* One scraper at most is inside _monitor_lock, and none installs a monitor
\* once there is one of ours.  The slot was free when the scraper that is
\* about to fill it looked, so a foreign monitor there has slipped in since.
Installing ==
    /\ \A s \in Scrapers :
          spc[s] \in {"look", "install", "remember", "unlock"} <=> holder = s
    /\ \A s \in Scrapers : spc[s] \in {"look", "install", "remember"} => monitor = Nobody
    /\ \A s \in Scrapers : (spc[s] = "install" /\ slot = Foreign) => slipped
    /\ \A s \in Scrapers : spc[s] = "remember" => totals # <<>>
    /\ ~enabled => monitor = Nobody /\ totals = <<>> /\ holder = Free
                   /\ \A s \in Scrapers : spc[s] # "lock"

\* The total has reached whatever has been reported.
Reporting ==
    /\ \A s \in Scrapers : floor[s] <= reported
    /\ reported > 0 => monitor # Nobody /\ reported <= totals[monitor]

IInv ==
    /\ TypeOK
    /\ Adding
    /\ Installing
    /\ Reporting
    /\ SpansCountTheirLoads

-----------------------------------------------------------------------------

\* Init establishes the invariant.
LEMMA InitIInv == Init => IInv
<1> SUFFICES ASSUME Init PROVE IInv
  OBVIOUS
<1> USE DEF Init
<1>1. TypeOK
  <2>1. slipped \in BOOLEAN
    OBVIOUS
  <2> QED
    BY <2>1 DEF TypeOK
<1>2. Adding
  BY DEF Adding
<1>3. Installing
  BY FreeAssumption DEF Installing
<1>4. Reporting
  BY DEF Reporting
<1>5. SpansCountTheirLoads
  BY DEF SpansCountTheirLoads
<1> QED
  BY <1>1, <1>2, <1>3, <1>4, <1>5 DEF IInv

-----------------------------------------------------------------------------
(* Connections.                                                            *)

Span == [before : Nat, at : Nat]

\* The connection's own variables keep their types.
LEMMA UseType ==
    ASSUME TypeOK, Adding, NEW c \in Conns, Use(c)
    PROVE  TypeOK'
<1> USE DEF TypeOK
<1>1. CASE Open(c)
  BY <1>1 DEF Open, CGoto, installation, scrape
<1>2. CASE Load(c)
  BY <1>2 DEF Load, installation, scrape
<1>3. CASE StartSpan(c)
  <2>1. [before |-> loads[c], at |-> done[c]] \in Span /\ spans[c] \in Seq(Span)
    BY DEF Span
  <2>2. Append(spans[c], [before |-> loads[c], at |-> done[c]]) \in Seq(Span)
    BY <2>1, AppendProperties
  <2>3. spans' \in [Conns -> Seq(Span)]
    BY <1>3, <2>2 DEF StartSpan, Span
  <2> QED
    BY <1>3, <2>3 DEF StartSpan, Span, installation, scrape
<1>4. CASE EndSpan(c)
  <2>1. spans[c] \in Seq(Span) /\ spans[c] # <<>>
    BY <1>4 DEF EndSpan, Span
  <2>2. SubSeq(spans[c], 1, Len(spans[c]) - 1) \in Seq(Span)
    BY <2>1
  <2>3. spans' \in [Conns -> Seq(Span)]
    BY <1>4, <2>2 DEF EndSpan, Span
  <2> QED
    BY <1>4, <2>3 DEF EndSpan, Span, installation, scrape
<1>5. CASE CloseUnmonitored(c)
  BY <1>5 DEF CloseUnmonitored, CGoto, installation, scrape
<1>6. CASE CloseElsewhere(c)
  BY <1>6 DEF CloseElsewhere, CGoto, installation, scrape
<1>7. CASE ClosedConnection(c)
  BY <1>7 DEF ClosedConnection, CGoto, installation, scrape
<1>8. CASE ReadTotal(c)
  <2>1. target[c] \in DOMAIN totals
    BY <1>8 DEF ReadTotal, CGoto, Adding
  <2>2. totals[target[c]] \in Nat
    BY <2>1
  <2> QED
    BY <1>8, <2>2 DEF ReadTotal, CGoto, installation, scrape
<1>9. CASE AddToTotal(c)
  <2>1. target[c] \in DOMAIN totals
    BY <1>9 DEF AddToTotal, CGoto, Adding
  <2>2. totals' \in Seq(Nat) /\ DOMAIN totals' = DOMAIN totals
    BY <1>9, <2>1 DEF AddToTotal
  <2> QED
    BY <1>9, <2>2 DEF AddToTotal, CGoto, installation, scrape
<1> QED
  BY <1>1, <1>2, <1>3, <1>4, <1>5, <1>6, <1>7, <1>8, <1>9 DEF Use

\* Totals are read and written back by one connection at a time.
LEMMA UseAdding ==
    ASSUME TypeOK, Adding, NEW c \in Conns, Use(c)
    PROVE  Adding'
<1> USE DEF TypeOK, Adding
<1>1. CASE Open(c)
  BY <1>1 DEF Open, CGoto
<1>2. CASE Load(c) \/ StartSpan(c) \/ EndSpan(c)
  BY <1>2 DEF Load, StartSpan, EndSpan
<1>3. CASE CloseUnmonitored(c)
  BY <1>3 DEF CloseUnmonitored, CGoto
<1>4. CASE CloseElsewhere(c)
  <2>1. cpc' = [cpc EXCEPT ![c] = "closed"] /\ UNCHANGED <<totals, target, temp>>
    BY <1>4 DEF CloseElsewhere, CGoto
  <2> QED
    BY <2>1
<1>5. CASE ClosedConnection(c)
  BY <1>5 DEF ClosedConnection, CGoto, installation
<1>6. CASE ReadTotal(c)
  BY <1>6 DEF ReadTotal, CGoto, Locked
<1>7. CASE AddToTotal(c)
  <2>1. cpc[c] = "add" /\ cpc' = [cpc EXCEPT ![c] = "closed"]
    BY <1>7 DEF AddToTotal, CGoto
  <2>2. /\ totals' = [totals EXCEPT ![target[c]] = temp[c] + pending[c]]
        /\ target' = [target EXCEPT ![c] = Nobody]
        /\ temp' = [temp EXCEPT ![c] = 0]
    BY <1>7 DEF AddToTotal
  <2>3. DOMAIN totals' = DOMAIN totals
    BY <2>2
  <2>4. ASSUME NEW d \in Conns, d # c
        PROVE  cpc'[d] = cpc[d] /\ target'[d] = target[d] /\ temp'[d] = temp[d]
    BY <2>1, <2>2, <2>4
  <2>5. cpc'[c] = "closed"
    BY <2>1
  <2>6. ASSUME NEW d \in Conns, cpc'[d] = "add" PROVE temp'[d] = totals'[target'[d]]
    <3>1. d # c /\ cpc[d] = "add"
      BY <2>4, <2>5, <2>6
    <3>2. target[d] # target[c] /\ target[d] \in DOMAIN totals
      BY <2>1, <3>1
    <3> QED
      BY <2>2, <2>4, <3>1, <3>2
  <2>7. ASSUME NEW d \in Conns, cpc'[d] \in {"lock", "add"}
        PROVE  target'[d] \in DOMAIN totals'
    BY <2>3, <2>4, <2>5, <2>7
  <2>8. ASSUME NEW d \in Conns, NEW e \in Conns,
               cpc'[d] = "add", cpc'[e] = "add", target'[d] = target'[e]
        PROVE  d = e
    BY <2>4, <2>5, <2>8
  <2> QED
    BY <2>6, <2>7, <2>8
<1> QED
  BY <1>1, <1>2, <1>3, <1>4, <1>5, <1>6, <1>7 DEF Use

\* What they do to installation and reports: totals may grow.
LEMMA UseRest ==
    ASSUME TypeOK, Adding, Installing, Reporting, NEW c \in Conns, Use(c)
    PROVE  Installing' /\ Reporting'
<1>1. UNCHANGED <<enabled, slot, monitor, holder, slipped, spc, created, floor, reported>>
  BY DEF Use, Open, Load, StartSpan, EndSpan, CloseUnmonitored, CloseElsewhere,
         ClosedConnection, ReadTotal, AddToTotal, installation, scrape
<1>2. /\ DOMAIN totals' = DOMAIN totals
      /\ \A m \in DOMAIN totals : totals[m] \in Nat /\ totals'[m] \in Nat /\ totals[m] <= totals'[m]
  <2>1. CASE totals' = totals
    BY <2>1 DEF TypeOK
  <2>2. CASE AddToTotal(c)
    <3>1. /\ totals' = [totals EXCEPT ![target[c]] = temp[c] + pending[c]]
          /\ target[c] \in DOMAIN totals /\ temp[c] = totals[target[c]]
      BY <2>2 DEF AddToTotal, CGoto, Adding
    <3>2. pending[c] \in Nat /\ \A m \in DOMAIN totals : totals[m] \in Nat
      BY DEF TypeOK
    <3> QED
      BY <3>1, <3>2
  <2> QED
    BY <2>1, <2>2 DEF Use, Open, Load, StartSpan, EndSpan, CloseUnmonitored,
                      CloseElsewhere, ClosedConnection, ReadTotal
<1>3. totals' = <<>> <=> totals = <<>>
  <2>1. totals \in Seq(Nat)
    BY DEF TypeOK
  <2>2. totals' \in Seq(Nat)
    BY UseType DEF TypeOK
  <2> QED
    BY <1>2, <2>1, <2>2
<1>4. Installing'
  BY <1>1, <1>3 DEF Installing
<1>5. Reporting'
  <2>1. reported \in Nat /\ monitor \in {Nobody} \cup DOMAIN totals
    BY DEF TypeOK
  <2> QED
    BY <1>1, <1>2, <2>1 DEF Reporting
<1> QED
  BY <1>4, <1>5

\* Every open span goes on seeing exactly the loads since it started.
LEMMA UseSpans ==
    ASSUME TypeOK, SpansCountTheirLoads, NEW c \in Conns, Use(c)
    PROVE  SpansCountTheirLoads'
<1> USE DEF SpansCountTheirLoads, Delta
<1>1. /\ \A d \in Conns : loads[d] \in Nat /\ done[d] \in Nat /\ spans[d] \in Seq(Span)
      /\ \A d \in Conns : \A i \in DOMAIN spans[d] : spans[d][i].before \in Nat /\ spans[d][i].at \in Nat
      /\ loads \in [Conns -> Nat] /\ done \in [Conns -> Nat] /\ spans \in [Conns -> Seq(Span)]
  <2>1. loads \in [Conns -> Nat] /\ done \in [Conns -> Nat] /\ spans \in [Conns -> Seq(Span)]
    BY DEF TypeOK, Span
  <2>2. ASSUME NEW d \in Conns, NEW i \in DOMAIN spans[d]
        PROVE  spans[d][i].before \in Nat /\ spans[d][i].at \in Nat
    <3>1. spans[d][i] \in Span
      BY <2>1
    <3> QED
      BY <3>1 DEF Span
  <2> QED
    BY <2>1, <2>2
<1>2. CASE UNCHANGED <<loads, done, spans>>
  BY <1>2
<1>3. CASE Load(c)
  <2>1. /\ loads' = [loads EXCEPT ![c] = @ + 1] /\ done' = [done EXCEPT ![c] = @ + 1]
        /\ spans' = spans
    BY <1>3 DEF Load
  <2>2. ASSUME NEW d \in Conns, NEW i \in DOMAIN spans[d]
        PROVE  loads'[d] - spans[d][i].before = done'[d] - spans[d][i].at
    <3>1. loads[d] - spans[d][i].before = done[d] - spans[d][i].at
      OBVIOUS
    <3>2. \/ loads'[d] = loads[d] /\ done'[d] = done[d]
          \/ loads'[d] = loads[d] + 1 /\ done'[d] = done[d] + 1
      BY <1>1, <2>1
    <3>3. /\ loads[d] \in Nat /\ done[d] \in Nat
          /\ spans[d][i].before \in Nat /\ spans[d][i].at \in Nat
      BY <1>1
    <3> HIDE DEF SpansCountTheirLoads
    <3> QED
      BY <3>1, <3>2, <3>3
  <2> QED
    BY <2>1, <2>2
<1>4. CASE StartSpan(c)
  <2> DEFINE r == [before |-> loads[c], at |-> done[c]]
  <2>1. spans' = [spans EXCEPT ![c] = Append(@, r)] /\ UNCHANGED <<loads, done>>
    BY <1>4 DEF StartSpan
  <2>2. r \in Span /\ r.before = loads[c] /\ r.at = done[c]
    BY <1>1 DEF Span
  <2>3. ASSUME NEW d \in Conns, NEW i \in DOMAIN spans'[d]
        PROVE  loads[d] - spans'[d][i].before = done[d] - spans'[d][i].at
    <3> HIDE DEF r
    <3>1. CASE d # c
      BY <1>1, <2>1, <3>1
    <3>2. CASE d = c
      <4>1. spans'[c] = Append(spans[c], r) /\ spans[c] \in Seq(Span)
        BY <1>1, <2>1
      <4>2. \/ i \in DOMAIN spans[c] /\ spans'[c][i] = spans[c][i]
            \/ spans'[c][i] = r
        BY <2>2, <3>2, <4>1
      <4>3. CASE i \in DOMAIN spans[c] /\ spans'[c][i] = spans[c][i]
        BY <3>2, <4>3
      <4>4. CASE spans'[c][i] = r
        BY <1>1, <2>2, <3>2, <4>4
      <4> QED
        BY <4>2, <4>3, <4>4
    <3> QED
      BY <3>1, <3>2
  <2> QED
    BY <2>1, <2>3
<1>5. CASE EndSpan(c)
  <2>1. /\ spans' = [spans EXCEPT ![c] = SubSeq(@, 1, Len(@) - 1)]
        /\ spans[c] # <<>> /\ UNCHANGED <<loads, done>>
    BY <1>5 DEF EndSpan
  <2>2. ASSUME NEW d \in Conns, NEW i \in DOMAIN spans'[d]
        PROVE  i \in DOMAIN spans[d] /\ spans'[d][i] = spans[d][i]
    BY <1>1, <2>1
  <2> QED
    BY <2>1, <2>2
<1>6. CASE CloseElsewhere(c) \/ ClosedConnection(c)
  <2>1. /\ spans[c] = <<>> /\ UNCHANGED <<spans, done>>
        /\ loads' = [loads EXCEPT ![c] = 0]
    BY <1>6 DEF CloseElsewhere, ClosedConnection
  <2>2. \A d \in Conns : \A i \in DOMAIN spans[d] : d # c /\ loads'[d] = loads[d]
    BY <1>1, <2>1
  <2> QED
    BY <2>1, <2>2
<1> QED
  BY <1>2, <1>3, <1>4, <1>5, <1>6
     DEF Use, Open, CloseUnmonitored, ReadTotal, AddToTotal

-----------------------------------------------------------------------------
(* Scrapes.                                                                *)

\* A scrape does not touch the connections, nor the totals there are.
LEMMA ScrapeFrame ==
    ASSUME TypeOK, NEW s \in Scrapers, Scrape(s)
    PROVE  /\ UNCHANGED <<enabled, cpc, loads, pending, target, temp, spans, done, elsewhere>>
           /\ totals' = totals \/ totals' = Append(totals, 0)
BY DEF Scrape, Begin, Lock, Look, SetActivityMonitor, Remember, Unlock, Report,
       installation, connection

\* Installation and reports keep their types.
LEMMA ScrapeType ==
    ASSUME TypeOK, NEW s \in Scrapers, Scrape(s)
    PROVE  TypeOK'
<1> USE DEF TypeOK
<1>1. CASE Begin(s)
  BY <1>1 DEF Begin, SGoto, installation, connection
<1>2. CASE Lock(s)
  BY <1>2 DEF Lock, SGoto, connection
<1>3. CASE Look(s)
  BY <1>3 DEF Look, SGoto, installation, connection
<1>4. CASE SetActivityMonitor(s)
  <2>1. totals' = Append(totals, 0) /\ totals \in Seq(Nat)
    BY <1>4 DEF SetActivityMonitor
  <2>2. /\ totals' \in Seq(Nat) /\ DOMAIN totals \subseteq DOMAIN totals'
        /\ Len(totals) + 1 \in DOMAIN totals'
    BY <2>1
  <2>3. slot' \in DOMAIN totals' /\ created' \in [Scrapers -> {Nobody} \cup DOMAIN totals']
    BY <1>4, <2>2 DEF SetActivityMonitor
  <2>4. target' \in [Conns -> {Nobody} \cup DOMAIN totals']
    BY <1>4, <2>2 DEF SetActivityMonitor, connection
  <2>5. spc' \in [Scrapers -> {"idle", "lock", "look", "install", "remember",
                               "unlock", "report"}]
    BY <1>4 DEF SetActivityMonitor, SGoto
  <2> QED
    BY <1>4, <2>2, <2>3, <2>4, <2>5 DEF SetActivityMonitor, connection
<1>5. CASE Remember(s)
  BY <1>5 DEF Remember, SGoto, connection
<1>6. CASE Unlock(s)
  BY <1>6 DEF Unlock, SGoto, connection
<1>7. CASE Report(s)
  <2>1. monitor # Nobody => Reading \in Nat
    BY DEF Reading
  <2> HIDE DEF TypeOK
  <2>2. reported' \in Nat /\ floor' \in [Scrapers -> Nat]
    BY <1>7, <2>1 DEF Report, TypeOK
  <2> QED
    BY <1>7, <2>2 DEF Report, SGoto, installation, connection, TypeOK
<1> QED
  BY <1>1, <1>2, <1>3, <1>4, <1>5, <1>6, <1>7 DEF Scrape

\* A new monitor is none of those that totals are being added to.
LEMMA ScrapeAdding ==
    ASSUME TypeOK, Adding, NEW s \in Scrapers, Scrape(s)
    PROVE  Adding'
<1>1. UNCHANGED <<cpc, target, temp>>
  BY ScrapeFrame
<1>2. totals \in Seq(Nat)
  BY DEF TypeOK
<1>3. /\ DOMAIN totals \subseteq DOMAIN totals'
      /\ \A m \in DOMAIN totals : totals'[m] = totals[m]
  BY <1>2, ScrapeFrame
<1> QED
  BY <1>1, <1>3 DEF Adding

\* _monitor_lock and the two looks under it allow one monitor of ours only.
LEMMA ScrapeInstalling ==
    ASSUME TypeOK, Installing, NEW s \in Scrapers, Scrape(s)
    PROVE  Installing'
<1> USE FreeAssumption DEF Installing
<1>1. /\ spc \in [Scrapers -> {"idle", "lock", "look", "install", "remember",
                               "unlock", "report"}]
      /\ created \in [Scrapers -> {Nobody} \cup DOMAIN totals]
      /\ totals \in Seq(Nat) /\ slot \in {Nobody, Foreign} \cup DOMAIN totals
      /\ monitor \in {Nobody} \cup DOMAIN totals /\ enabled \in BOOLEAN
  BY DEF TypeOK
<1>2. CASE Begin(s)
  BY <1>1, <1>2 DEF Begin, SGoto, installation
<1>3. CASE Lock(s)
  BY <1>1, <1>3 DEF Lock, SGoto
<1>4. CASE Look(s)
  BY <1>1, <1>4 DEF Look, SGoto, installation, Nobody, Foreign
<1>5. CASE SetActivityMonitor(s)
  <2>1. /\ spc[s] = "install" /\ spc' = [spc EXCEPT ![s] = "remember"]
        /\ totals' = Append(totals, 0) /\ slot' = Len(totals) + 1
        /\ UNCHANGED <<enabled, monitor, holder, slipped>>
    BY <1>5 DEF SetActivityMonitor, SGoto
  <2>2. holder = s /\ monitor = Nobody /\ enabled
    BY <1>1, <2>1
  <2>3. totals' # <<>> /\ spc'[s] = "remember"
    BY <1>1, <2>1
  <2>4. ASSUME NEW r \in Scrapers, r # s
        PROVE  spc'[r] = spc[r] /\ spc[r] \notin {"look", "install", "remember", "unlock"}
    BY <1>1, <2>1, <2>2, <2>4
  <2> QED
    BY <1>1, <2>1, <2>2, <2>3, <2>4
<1>6. CASE Remember(s)
  <2>1. /\ spc[s] = "remember" /\ spc' = [spc EXCEPT ![s] = "unlock"]
        /\ UNCHANGED <<enabled, slot, holder, slipped, totals>>
    BY <1>6 DEF Remember, SGoto
  <2>2. holder = s
    BY <2>1
  <2>3. ASSUME NEW r \in Scrapers, r # s
        PROVE  spc'[r] = spc[r] /\ spc[r] \notin {"look", "install", "remember", "unlock"}
    BY <1>1, <2>1, <2>2, <2>3
  <2>4. enabled /\ spc'[s] = "unlock"
    BY <1>1, <2>1, <2>2
  <2> QED
    BY <1>1, <2>1, <2>2, <2>3, <2>4
<1>7. CASE Unlock(s)
  BY <1>1, <1>7 DEF Unlock, SGoto
<1>8. CASE Report(s)
  BY <1>1, <1>8 DEF Report, SGoto, installation
<1> QED
  BY <1>2, <1>3, <1>4, <1>5, <1>6, <1>7, <1>8 DEF Scrape

\* Once remembered, the monitor stays, and what is reported is its total.
LEMMA ScrapeReporting ==
    ASSUME TypeOK, Installing, Reporting, NEW s \in Scrapers, Scrape(s)
    PROVE  Reporting'
<1>1. /\ reported \in Nat /\ floor \in [Scrapers -> Nat]
      /\ monitor \in {Nobody} \cup DOMAIN totals /\ totals \in Seq(Nat)
  BY DEF TypeOK
<1>2. CASE Begin(s)
  BY <1>1, <1>2 DEF Begin, installation, Reporting
<1>3. CASE Lock(s) \/ Look(s) \/ Unlock(s)
  BY <1>3 DEF Lock, Look, Unlock, installation, Reporting
<1>4. CASE SetActivityMonitor(s)
  <2>1. monitor = Nobody /\ monitor' = monitor /\ reported' = reported /\ floor' = floor
    BY <1>4 DEF SetActivityMonitor, SGoto, Installing
  <2> QED
    BY <2>1 DEF Reporting
<1>5. CASE Remember(s)
  <2>1. monitor = Nobody /\ reported' = reported /\ floor' = floor
    BY <1>5 DEF Remember, SGoto, Installing
  <2>2. ~(reported > 0)
    BY <2>1 DEF Reporting
  <2> QED
    BY <2>1, <2>2 DEF Reporting
<1>6. CASE Report(s)
  <2>1. /\ reported' = IF monitor # Nobody /\ Reading > reported THEN Reading ELSE reported
        /\ floor' = [floor EXCEPT ![s] = 0] /\ UNCHANGED <<monitor, totals>>
    BY <1>6 DEF Report, installation
  <2>2. monitor # Nobody => totals[monitor] \in Nat
    BY <1>1
  <2>3. reported' \in Nat /\ reported <= reported'
    BY <1>1, <2>1, <2>2 DEF Reading
  <2>4. \A r \in Scrapers : floor'[r] <= reported'
    BY <1>1, <2>1, <2>3 DEF Reporting
  <2>5. reported' > 0 => monitor # Nobody /\ reported' <= totals[monitor]
    BY <1>1, <2>1, <2>2 DEF Reporting, Reading
  <2> QED
    BY <2>1, <2>4, <2>5 DEF Reporting
<1> QED
  BY <1>2, <1>3, <1>4, <1>5, <1>6 DEF Scrape

-----------------------------------------------------------------------------

\* A monitor of another package disturbs nothing but the slot.
LEMMA ForeignIInv ==
    ASSUME IInv, ForeignMonitor
    PROVE  IInv'
<1> USE DEF ForeignMonitor, IInv
<1>1. TypeOK'
  BY DEF TypeOK, connection, scrape
<1>2. Adding' /\ Reporting' /\ SpansCountTheirLoads'
  BY DEF Adding, Reporting, SpansCountTheirLoads, Delta, connection, scrape
<1>3. Installing'
  BY DEF Installing, scrape
<1> QED
  BY <1>1, <1>2, <1>3

\* Every step preserves the invariant.
LEMMA StepIInv == IInv /\ [Next]_vars => IInv'
<1> SUFFICES ASSUME IInv, [Next]_vars PROVE IInv'
  OBVIOUS
<1>1. TypeOK /\ Adding /\ Installing /\ Reporting /\ SpansCountTheirLoads
  BY DEF IInv
<1>2. CASE UNCHANGED vars
  BY <1>1, <1>2 DEF vars, installation, connection, scrape, IInv, TypeOK, Adding,
                    Installing, Reporting, SpansCountTheirLoads, Delta
<1>3. ASSUME NEW c \in Conns, Use(c) PROVE IInv'
  BY <1>1, <1>3, UseType, UseAdding, UseRest, UseSpans DEF IInv
<1>4. ASSUME NEW s \in Scrapers, Scrape(s) PROVE IInv'
  <2>1. SpansCountTheirLoads'
    BY <1>1, <1>4, ScrapeFrame DEF SpansCountTheirLoads, Delta
  <2> QED
    BY <1>1, <1>4, <2>1, ScrapeType, ScrapeAdding, ScrapeInstalling, ScrapeReporting DEF IInv
<1> QED
  BY <1>2, <1>3, <1>4, ForeignIInv DEF Next

\* It holds in every reachable state.
LEMMA InvariantHolds == Spec => []IInv
BY InitIInv, StepIInv, PTL DEF Spec

(* Type correctness of the counters and of the installation.               *)
THEOREM ActivityTypeCorrect == Spec => []TypeOK
<1>1. IInv => TypeOK
  BY DEF IInv
<1> QED
  BY <1>1, InvariantHolds, PTL

(* A scrape never reports less than one answered before it began, however  *)
(* many scrapes race to install the monitor.                               *)
THEOREM ReportedTotalsNeverFall == Spec => []CounterNeverFalls
<1>1. IInv => CounterNeverFalls
  <2> SUFFICES ASSUME IInv, NEW s \in Scrapers, spc[s] = "report", reported > 0
               PROVE  monitor # Nobody /\ floor[s] <= Reading
    BY DEF CounterNeverFalls
  <2>1. monitor # Nobody /\ reported <= totals[monitor] /\ floor[s] <= reported
    BY DEF IInv, Reporting
  <2>2. floor[s] \in Nat /\ reported \in Nat /\ totals[monitor] \in Nat
    BY <2>1 DEF IInv, TypeOK
  <2> QED
    BY <2>1, <2>2 DEF Reading
<1> QED
  BY <1>1, InvariantHolds, PTL

(* However spans nest, each sees exactly the objects loaded since it began. *)
THEOREM SpanDeltasAreExact == Spec => []SpansCountTheirLoads
<1>1. IInv => SpansCountTheirLoads
  BY DEF IInv
<1> QED
  BY <1>1, InvariantHolds, PTL

(* Ours replaces a monitor of another package only if that one was put     *)
(* there between the look at the slot and the installation of one scrape;  *)
(* and none of ours is installed while the switch is off.                   *)
THEOREM ForeignMonitorsStay == Spec => ForeignMonitorStays
<1> DEFINE Stays == /\ (slot = Foreign /\ slot' # Foreign) => slipped
                    /\ ~enabled => monitor' = Nobody /\ slot' \in {slot, Foreign}
<1>1. IInv /\ [Next]_vars => [Stays]_vars
  <2> SUFFICES ASSUME IInv, Next PROVE Stays
    OBVIOUS
  <2>1. TypeOK /\ Installing
    BY DEF IInv
  <2>2. CASE ForeignMonitor
    BY <2>1, <2>2 DEF ForeignMonitor, Installing
  <2>3. ASSUME NEW c \in Conns, Use(c) PROVE Stays
    <3>1. UNCHANGED <<slot, monitor>>
      BY <2>3 DEF Use, Open, Load, StartSpan, EndSpan, CloseUnmonitored, CloseElsewhere,
                  ClosedConnection, ReadTotal, AddToTotal, installation
    <3> QED
      BY <2>1, <3>1 DEF Installing
  <2>4. ASSUME NEW s \in Scrapers, Scrape(s) PROVE Stays
    <3>1. CASE SetActivityMonitor(s)
      <4>1. spc[s] = "install" /\ holder = s
        BY <2>1, <3>1 DEF SetActivityMonitor, SGoto, Installing
      <4>2. enabled
        BY <2>1, <4>1, FreeAssumption DEF Installing, TypeOK
      <4> QED
        BY <2>1, <4>1, <4>2 DEF Installing
    <3>2. CASE Remember(s)
      <4>1. holder = s /\ slot' = slot
        BY <2>1, <3>2 DEF Remember, SGoto, Installing
      <4>2. enabled
        BY <2>1, <4>1, FreeAssumption DEF Installing, TypeOK
      <4> QED
        BY <4>1, <4>2
    <3>3. CASE Begin(s) \/ Lock(s) \/ Look(s) \/ Unlock(s) \/ Report(s)
      <4>1. UNCHANGED <<slot, monitor>>
        BY <3>3 DEF Begin, Lock, Look, Unlock, Report, installation
      <4> QED
        BY <2>1, <4>1 DEF Installing
    <3> QED
      BY <2>4, <3>1, <3>2, <3>3 DEF Scrape
  <2> QED
    BY <2>2, <2>3, <2>4 DEF Next
<1> QED
  BY <1>1, InvariantHolds, PTL DEF Spec, ForeignMonitorStays

-----------------------------------------------------------------------------
(* The loads, wherever they are.                                           *)

\* What has been read and reset belongs to a connection that is being closed.
PendingInv == \A c \in Conns : cpc[c] \in {"closed", "open"} => pending[c] = 0

\* The sum over the connections of a count that only c changes, by d.
LEMMA CountChanges ==
    ASSUME NEW f \in [Conns -> Nat], NEW g \in [Conns -> Nat], NEW c \in Conns, NEW d \in Int,
           g[c] = f[c] + d, \A e \in Conns \ {c} : g[e] = f[e]
    PROVE  SumFunction(g) = SumFunction(f) + d
<1>1. SumFunctionOnSet(g, Conns) = SumFunctionOnSet(f, Conns) + (IF c \in Conns THEN d ELSE 0)
  <2>1. IsFiniteSet(Conns) /\ \A e \in Conns : f[e] \in Int
    BY MonitorAssumption
  <2> QED
    BY <2>1, SumChanges
<1>2. DOMAIN f = Conns /\ DOMAIN g = Conns
  OBVIOUS
<1> QED
  BY <1>1, <1>2 DEF SumFunction

LEMMA CountType ==
    ASSUME NEW f \in [Conns -> Nat] PROVE SumFunction(f) \in Int
<1>1. IsFiniteSet(Conns) /\ DOMAIN f = Conns /\ \A e \in Conns : f[e] \in Int
  BY MonitorAssumption
<1> QED
  BY <1>1, SumType DEF SumFunction

\* The totals of the monitors, of which one grows, or a new one starts at 0.
LEMMA TotalsFinite ==
    ASSUME NEW q \in Seq(Nat)
    PROVE  IsFiniteSet(DOMAIN q) /\ \A m \in DOMAIN q : q[m] \in Int
<1>1. DOMAIN q = 1..Len(q) /\ Len(q) \in Int
  OBVIOUS
<1>2. IsFiniteSet(DOMAIN q)
  BY <1>1, FS_Interval
<1> QED
  BY <1>2

LEMMA TotalGrows ==
    ASSUME NEW q \in Seq(Nat), NEW m \in DOMAIN q, NEW n \in Nat
    PROVE  SumFunction([q EXCEPT ![m] = q[m] + n]) = SumFunction(q) + n
<1> DEFINE g == [q EXCEPT ![m] = q[m] + n]
<1>1. DOMAIN g = DOMAIN q /\ g[m] = q[m] + n /\ \A i \in DOMAIN q \ {m} : g[i] = q[i]
  OBVIOUS
<1>2. IsFiniteSet(DOMAIN q) /\ \A i \in DOMAIN q : q[i] \in Int
  BY TotalsFinite
<1>3. n \in Int
  OBVIOUS
<1> HIDE DEF g
<1>4. SumFunctionOnSet(g, DOMAIN q) =
         SumFunctionOnSet(q, DOMAIN q) + (IF m \in DOMAIN q THEN n ELSE 0)
  BY <1>1, <1>2, <1>3, SumChanges
<1> QED
  BY <1>1, <1>4 DEF SumFunction, g

LEMMA TotalStarts ==
    ASSUME NEW q \in Seq(Nat)
    PROVE  SumFunction(Append(q, 0)) = SumFunction(q)
<1> DEFINE g == Append(q, 0)
           n == Len(q) + 1
<1>1. /\ g \in Seq(Nat) /\ DOMAIN g = DOMAIN q \cup {n} /\ n \notin DOMAIN q
      /\ g[n] = 0 /\ \A i \in DOMAIN q : g[i] = q[i]
  OBVIOUS
<1>2. /\ IsFiniteSet(DOMAIN g) /\ \A i \in DOMAIN g : g[i] \in Int
      /\ IsFiniteSet(DOMAIN q) /\ \A i \in DOMAIN q : q[i] \in Int
  BY <1>1, TotalsFinite
<1> HIDE DEF g, n
<1>3. SumFunctionOnSet(g, DOMAIN g) = g[n] + SumFunctionOnSet(g, DOMAIN g \ {n})
  BY <1>1, <1>2, SumTakesOut
<1>4. DOMAIN g \ {n} = DOMAIN q
  BY <1>1
<1>5. SumFunctionOnSet(g, DOMAIN q) = SumFunctionOnSet(q, DOMAIN q)
  BY <1>1, <1>2, SumOfEqual
<1>6. SumFunctionOnSet(q, DOMAIN q) \in Int
  BY <1>2, SumType
<1> QED
  BY <1>1, <1>3, <1>4, <1>5, <1>6 DEF SumFunction, g

LEMMA TotalType ==
    ASSUME NEW q \in Seq(Nat) PROVE SumFunction(q) \in Int
BY TotalsFinite, SumType DEF SumFunction

LEMMA UseLoads ==
    ASSUME IInv, PendingInv, NoLoadIsLost, NEW c \in Conns, Use(c)
    PROVE  PendingInv' /\ NoLoadIsLost'
<1>1. /\ totals \in Seq(Nat) /\ cpc \in [Conns -> {"closed", "open", "lock", "add"}]
      /\ loads \in [Conns -> Nat] /\ pending \in [Conns -> Nat] /\ done \in [Conns -> Nat]
  BY DEF IInv, TypeOK
<1>2. /\ SumFunction(totals) \in Int /\ SumFunction(pending) \in Int
      /\ SumFunction(loads) \in Int /\ SumFunction(done) \in Int
      /\ elsewhere \in Int
  BY <1>1, CountType, TotalType DEF IInv, TypeOK
<1>3. SumFunction(done) =
         SumFunction(totals) + SumFunction(pending) + SumFunction(loads) + elsewhere
  BY DEF NoLoadIsLost
<1>4. CASE Load(c)
  <2>1. /\ loads' = [loads EXCEPT ![c] = @ + 1] /\ done' = [done EXCEPT ![c] = @ + 1]
        /\ UNCHANGED <<totals, pending, cpc, elsewhere>>
    BY <1>4 DEF Load
  <2>2. SumFunction(loads') = SumFunction(loads) + 1
    <3> DEFINE g == [loads EXCEPT ![c] = @ + 1]
               d == 1
    <3>1. /\ g \in [Conns -> Nat] /\ g[c] = loads[c] + d /\ d \in Int
          /\ \A e \in Conns \ {c} : g[e] = loads[e]
      BY <1>1
    <3> HIDE DEF g, d
    <3>2. SumFunction(g) = SumFunction(loads) + d
      BY <1>1, <3>1, CountChanges
    <3> QED
      BY <2>1, <3>2 DEF g, d
  <2>3. SumFunction(done') = SumFunction(done) + 1
    <3> DEFINE g == [done EXCEPT ![c] = @ + 1]
               d == 1
    <3>1. /\ g \in [Conns -> Nat] /\ g[c] = done[c] + d /\ d \in Int
          /\ \A e \in Conns \ {c} : g[e] = done[e]
      BY <1>1
    <3> HIDE DEF g, d
    <3>2. SumFunction(g) = SumFunction(done) + d
      BY <1>1, <3>1, CountChanges
    <3> QED
      BY <2>1, <3>2 DEF g, d
  <2> QED
    BY <1>2, <1>3, <2>1, <2>2, <2>3 DEF NoLoadIsLost, PendingInv
<1>5. CASE ClosedConnection(c)
  <2>1. /\ cpc[c] = "open" /\ cpc' = [cpc EXCEPT ![c] = "lock"]
        /\ pending' = [pending EXCEPT ![c] = loads[c]]
        /\ loads' = [loads EXCEPT ![c] = 0]
        /\ UNCHANGED <<totals, done, elsewhere>>
    BY <1>5 DEF ClosedConnection, CGoto
  <2>2. pending[c] = 0 /\ loads[c] \in Int /\ loads[c] \in Nat
    BY <1>1, <2>1 DEF PendingInv
  <2>3. SumFunction(pending') = SumFunction(pending) + loads[c]
    <3> DEFINE g == [pending EXCEPT ![c] = loads[c]]
    <3>1. /\ g \in [Conns -> Nat] /\ g[c] = pending[c] + loads[c]
          /\ \A e \in Conns \ {c} : g[e] = pending[e]
      BY <1>1, <2>2
    <3> HIDE DEF g
    <3>2. SumFunction(g) = SumFunction(pending) + loads[c]
      BY <1>1, <2>2, <3>1, CountChanges
    <3> QED
      BY <2>1, <3>2 DEF g
  <2>4. SumFunction(loads') = SumFunction(loads) - loads[c]
    <3> DEFINE g == [loads EXCEPT ![c] = 0]
               d == 0 - loads[c]
    <3>1. /\ g \in [Conns -> Nat] /\ g[c] = loads[c] + d /\ d \in Int
          /\ \A e \in Conns \ {c} : g[e] = loads[e]
      BY <1>1, <2>2
    <3> HIDE DEF g, d
    <3>2. SumFunction(g) = SumFunction(loads) + d
      BY <1>1, <3>1, CountChanges
    <3> QED
      BY <1>2, <2>1, <2>2, <3>2 DEF g, d
  <2>5. PendingInv'
    BY <1>1, <2>1 DEF PendingInv
  <2> QED
    BY <1>2, <1>3, <2>1, <2>2, <2>3, <2>4, <2>5 DEF NoLoadIsLost
<1>6. CASE AddToTotal(c)
  <2>1. /\ cpc[c] = "add" /\ cpc' = [cpc EXCEPT ![c] = "closed"]
        /\ totals' = [totals EXCEPT ![target[c]] = temp[c] + pending[c]]
        /\ pending' = [pending EXCEPT ![c] = 0]
        /\ UNCHANGED <<loads, done, elsewhere>>
    BY <1>6 DEF AddToTotal, CGoto
  <2>2. target[c] \in DOMAIN totals /\ temp[c] = totals[target[c]]
    BY <2>1 DEF IInv, Adding
  <2>3. pending[c] \in Int /\ pending[c] \in Nat
    BY <1>1
  <2>4. SumFunction(totals') = SumFunction(totals) + pending[c]
    BY <1>1, <2>1, <2>2, <2>3, TotalGrows
  <2>5. SumFunction(pending') = SumFunction(pending) - pending[c]
    <3> DEFINE g == [pending EXCEPT ![c] = 0]
               d == 0 - pending[c]
    <3>1. /\ g \in [Conns -> Nat] /\ g[c] = pending[c] + d /\ d \in Int
          /\ \A e \in Conns \ {c} : g[e] = pending[e]
      BY <1>1, <2>3
    <3> HIDE DEF g, d
    <3>2. SumFunction(g) = SumFunction(pending) + d
      BY <1>1, <3>1, CountChanges
    <3> QED
      BY <1>2, <2>1, <2>3, <3>2 DEF g, d
  <2>6. PendingInv'
    BY <1>1, <2>1 DEF PendingInv
  <2> QED
    BY <1>2, <1>3, <2>1, <2>3, <2>4, <2>5, <2>6 DEF NoLoadIsLost
<1>7. CASE Open(c) \/ StartSpan(c) \/ EndSpan(c) \/ CloseUnmonitored(c) \/ ReadTotal(c)
  <2>1. UNCHANGED <<totals, loads, pending, done, elsewhere>>
    BY <1>7 DEF Open, StartSpan, EndSpan, CloseUnmonitored, ReadTotal
  <2>2. /\ \A e \in Conns \ {c} : cpc'[e] = cpc[e]
        /\ cpc'[c] \in {"closed", "open"} => cpc[c] \in {"closed", "open"}
    BY <1>1, <1>7 DEF Open, StartSpan, EndSpan, CloseUnmonitored, ReadTotal, CGoto
  <2> QED
    BY <2>1, <2>2 DEF NoLoadIsLost, PendingInv
<1>8. CASE CloseElsewhere(c)
  <2>1. /\ cpc[c] = "open" /\ cpc' = [cpc EXCEPT ![c] = "closed"]
        /\ elsewhere' = elsewhere + loads[c]
        /\ loads' = [loads EXCEPT ![c] = 0]
        /\ UNCHANGED <<totals, pending, done>>
    BY <1>8 DEF CloseElsewhere, CGoto, installation
  <2>2. loads[c] \in Int /\ loads[c] \in Nat
    BY <1>1
  <2>3. SumFunction(loads') = SumFunction(loads) - loads[c]
    <3> DEFINE g == [loads EXCEPT ![c] = 0]
               d == 0 - loads[c]
    <3>1. /\ g \in [Conns -> Nat] /\ g[c] = loads[c] + d /\ d \in Int
          /\ \A e \in Conns \ {c} : g[e] = loads[e]
      BY <1>1, <2>2
    <3> HIDE DEF g, d
    <3>2. SumFunction(g) = SumFunction(loads) + d
      BY <1>1, <3>1, CountChanges
    <3> QED
      BY <1>2, <2>1, <2>2, <3>2 DEF g, d
  <2>4. PendingInv'
    BY <1>1, <2>1 DEF PendingInv
  <2> QED
    BY <1>2, <1>3, <2>1, <2>2, <2>3, <2>4 DEF NoLoadIsLost
<1> QED
  BY <1>4, <1>5, <1>6, <1>7, <1>8 DEF Use

(* Every loaded object is still on its connection, read but not yet added,   *)
(* in a total, or read by a foreign monitor, once: the lock-free read and    *)
(* the locked addition of connections that are closed together lose none and *)
(* count none twice.                                                         *)
THEOREM LoadsAreKept == Spec => []NoLoadIsLost
<1>1. Init => PendingInv /\ NoLoadIsLost
  <2> SUFFICES ASSUME Init PROVE PendingInv /\ NoLoadIsLost
    OBVIOUS
  <2>1. ASSUME NEW f, f = [c \in Conns |-> 0] PROVE SumFunction(f) = 0
    <3>1. IsFiniteSet(Conns) /\ DOMAIN f = Conns /\ \A c \in Conns : f[c] = 0
      BY <2>1, MonitorAssumption
    <3> QED
      BY <3>1, SumOfZeros DEF SumFunction
  <2>2. SumFunction(<<>>) = 0
    <3>1. DOMAIN <<>> = {}
      OBVIOUS
    <3> QED
      BY <3>1, SumOfNone DEF SumFunction
  <2> QED
    BY <2>1, <2>2 DEF Init, PendingInv, NoLoadIsLost
<1>2. IInv /\ PendingInv /\ NoLoadIsLost /\ [Next]_vars => (PendingInv /\ NoLoadIsLost)'
  <2> SUFFICES ASSUME IInv, PendingInv, NoLoadIsLost, [Next]_vars
               PROVE  PendingInv' /\ NoLoadIsLost'
    OBVIOUS
  <2>1. CASE UNCHANGED vars
    BY <2>1 DEF vars, connection, PendingInv, NoLoadIsLost
  <2>2. ASSUME NEW s \in Scrapers, Scrape(s) PROVE PendingInv' /\ NoLoadIsLost'
    <3>1. /\ UNCHANGED <<cpc, loads, pending, done, elsewhere>>
          /\ totals' = totals \/ totals' = Append(totals, 0)
      BY <2>2, ScrapeFrame DEF IInv
    <3>2. SumFunction(totals') = SumFunction(totals)
      BY <3>1, TotalStarts DEF IInv, TypeOK
    <3> QED
      BY <3>1, <3>2 DEF PendingInv, NoLoadIsLost
  <2>3. CASE ForeignMonitor
    BY <2>3 DEF ForeignMonitor, connection, PendingInv, NoLoadIsLost
  <2> QED
    BY <2>1, <2>2, <2>3, UseLoads DEF Next
<1> QED
  BY <1>1, <1>2, InvariantHolds, PTL DEF Spec

=============================================================================
