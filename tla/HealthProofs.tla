---------------------------- MODULE HealthProofs ----------------------------
(***************************************************************************)
(* Proofs about the health server: about ReadinessProbes, for every set of *)
(* probe threads and checks and every TTL and stuck threshold, and about   *)
(* HealthLifecycle, for every set of clients and every number of starts.   *)
(* The two have no variable in common.                                     *)
(***************************************************************************)
EXTENDS ReadinessProbes, HealthLifecycle, TLAPS

-----------------------------------------------------------------------------
(* The dict of verdicts stays a result while checks are added to it.       *)

\* A status without verdicts is a result.
LEMMA BareIsResult == \A b \in BOOLEAN : [ok |-> b, checks |-> NoChecks] \in Results
<1>1. NoChecks \in [{} -> BOOLEAN]
  BY DEF NoChecks
<1>2. NoChecks \in UNION {[S -> BOOLEAN] : S \in SUBSET Checks}
  BY <1>1
<1> QED
  BY <1>2 DEF Results

\* So are the two constants the handlers start from.
LEMMA ConstantsAreResults == NotReady \in Results /\ AllGood \in Results
BY BareIsResult DEF NotReady, AllGood

\* One more verdict turns a result into a result.
LEMMA ExtendIsResult ==
  ASSUME NEW r \in Results, NEW c \in Checks, NEW up \in BOOLEAN
  PROVE  /\ Extend(r, c, up) \in Results
         /\ DOMAIN Extend(r, c, up).checks = DOMAIN r.checks \cup {c}
<1>1. PICK S \in SUBSET Checks : r.checks \in [S -> BOOLEAN]
  BY DEF Results
<1>2. r.ok \in BOOLEAN
  BY DEF Results
<1> DEFINE f == [d \in DOMAIN r.checks \cup {c} |-> IF d = c THEN up ELSE r.checks[d]]
<1>3. f \in [S \cup {c} -> BOOLEAN]
  BY <1>1
<1>4. f \in UNION {[Z -> BOOLEAN] : Z \in SUBSET Checks}
  BY <1>3
<1>5. (r.ok /\ up) \in BOOLEAN
  OBVIOUS
<1>6. Extend(r, c, up) = [ok |-> (r.ok /\ up), checks |-> f]
  BY DEF Extend
<1> QED
  BY <1>4, <1>5, <1>6 DEF Results

-----------------------------------------------------------------------------
(* Type correctness.                                                       *)

\* Every step keeps every variable in its type.
LEMMA TypeStep == TypeOK /\ [Next]_vars => TypeOK'
<1> SUFFICES ASSUME TypeOK, [Next]_vars PROVE TypeOK'
  OBVIOUS
<1> USE DEF TypeOK
<1>1. CASE UNCHANGED vars
  BY <1>1 DEF vars, server, history
<1>2. ASSUME NEW t \in Threads, Step(t) PROVE TypeOK'
  <2>1. CASE HandleLive(t)
    BY <2>1, ConstantsAreResults DEF HandleLive, Goto, PCs, server, history
  <2>2. CASE LivenessRaises(t)
    BY <2>2, ConstantsAreResults DEF LivenessRaises, Leave, PCs, Probes, server, history
  <2>3. CASE HandleReady(t)
    BY <2>3 DEF HandleReady, Goto, PCs, server, history
  <2>4. CASE HandleStartup(t)
    BY <2>4 DEF HandleStartup, Goto, PCs, server, history
  <2>5. CASE AnswerFromCache(t)
    BY <2>5 DEF AnswerFromCache, Fresh, Goto, PCs, server, history
  <2>6. CASE AnswerFromLastRun(t)
    BY <2>6 DEF AnswerFromLastRun, Goto, PCs, server, history
  <2>7. CASE AnswerInProgress(t)
    BY <2>7, ConstantsAreResults DEF AnswerInProgress, Stuck, Goto, PCs, server, history
  <2>8. CASE StartRun(t)
    <3>1. resultAge' \in 0..TTL /\ runAge' \in 0..StuckAfter
      BY <2>8, TimeAssumption DEF StartRun
    <3> QED
      BY <2>8, <3>1, ConstantsAreResults DEF StartRun, Goto, PCs, server, history
  <2>9. ASSUME NEW c \in Checks, RunCheck(t, c) PROVE TypeOK'
    <3>1. Extend(res[t], c, health[c] = "up") \in Results
      BY ExtendIsResult
    <3> QED
      BY <2>9, <3>1 DEF RunCheck, server, history
  <2>10. ASSUME NEW c \in Checks, CheckRaises(t, c) PROVE TypeOK'
    BY <2>10 DEF CheckRaises, Goto, PCs, server, history
  <2>11. CASE Publish(t)
    <3>1. resultAge' \in 0..TTL /\ runAge' \in 0..StuckAfter
      BY <2>11, TimeAssumption DEF Publish
    <3> QED
      BY <2>11, <3>1 DEF Publish, Goto, PCs, server, history
  <2>12. CASE Abort(t)
    <3>1. resultAge' \in 0..TTL /\ runAge' \in 0..StuckAfter
      BY <2>12, TimeAssumption DEF Abort
    <3> QED
      BY <2>12, <3>1, ConstantsAreResults DEF Abort, Leave, PCs, Probes, server, history
  <2>13. CASE Latch(t)
    <3>1. (started \/ res[t].ok) \in BOOLEAN
      OBVIOUS
    <3> QED
      BY <2>13, <3>1 DEF Latch, Goto, PCs, server, history
  <2>14. CASE ReadLatch(t)
    BY <2>14, BareIsResult DEF ReadLatch, Goto, PCs, server, history
  <2>15. CASE Deliver(t)
    <3>1. (promised \/ (probe[t] # "live" /\ res[t].ok)) \in BOOLEAN
      OBVIOUS
    <3> QED
      BY <2>15, <3>1, ConstantsAreResults DEF Deliver, Leave, PCs, Probes, server, history
  <2>16. CASE ClientGone(t)
    BY <2>16, ConstantsAreResults DEF ClientGone, Leave, PCs, Probes, server, history
  <2> QED
    BY <1>2, <2>1, <2>2, <2>3, <2>4, <2>5, <2>6, <2>7, <2>8, <2>9, <2>10, <2>11, <2>12,
       <2>13, <2>14, <2>15, <2>16 DEF Step, Enter
<1>3. ASSUME NEW t \in Threads, NEW p \in Probes, Arrive(t, p) PROVE TypeOK'
  BY <1>3 DEF Arrive, Goto, PCs, server, history
<1>4. CASE Tick
  <2>1. resultAge' \in 0..TTL /\ runAge' \in 0..StuckAfter
    BY <1>4, TimeAssumption DEF Tick, Older
  <2> QED
    BY <1>4, <2>1 DEF Tick, history
<1>5. ASSUME NEW c \in Checks, NEW h \in {"up", "down", "raises", "hangs"}, ChangeHealth(c, h)
      PROVE TypeOK'
  BY <1>5 DEF ChangeHealth, server, history
<1> QED
  BY <1>1, <1>2, <1>3, <1>4, <1>5 DEF Next

(* Type correctness of every reachable state of the health server.         *)
THEOREM TypeCorrect == Spec => []TypeOK
<1>1. Init => TypeOK
  <2>1. Init => resultAge \in 0..TTL /\ runAge \in 0..StuckAfter
    BY TimeAssumption DEF Init
  <2> QED
    BY <2>1, ConstantsAreResults DEF Init, TypeOK, PCs, Probes
<1> QED
  BY <1>1, TypeStep, PTL DEF Spec

-----------------------------------------------------------------------------
(* Single flight.  The running mark and the set InFlight change together,  *)
(* except when a run moves on from "run" to "abort", inside InFlight.      *)

\* The actions of a thread that neither open nor close a run.
Bystander(t) ==
    \/ HandleLive(t) \/ LivenessRaises(t) \/ HandleReady(t) \/ HandleStartup(t)
    \/ AnswerFromCache(t) \/ AnswerFromLastRun(t) \/ AnswerInProgress(t)
    \/ \E c \in Checks : RunCheck(t, c) \/ CheckRaises(t, c)
    \/ Latch(t) \/ ReadLatch(t) \/ Deliver(t) \/ ClientGone(t)

\* A bystander's step leaves the mark and the set of runs alone.
LEMMA BystanderStep ==
  ASSUME TypeOK, NEW t \in Threads, Bystander(t)
  PROVE  running' = running /\ InFlight' = InFlight
<1>1. running' = running
  BY DEF Bystander, HandleLive, LivenessRaises, HandleReady, HandleStartup, AnswerFromCache,
       AnswerFromLastRun,
         AnswerInProgress, RunCheck, CheckRaises, Latch, ReadLatch, Deliver, ClientGone, server
<1>2. \A s \in Threads : (pc'[s] \in {"run", "abort"}) <=> (pc[s] \in {"run", "abort"})
  BY DEF TypeOK, Bystander, HandleLive, LivenessRaises, HandleReady, HandleStartup,
       AnswerFromCache, AnswerFromLastRun,
         AnswerInProgress, RunCheck, CheckRaises, Latch, ReadLatch, Deliver, ClientGone, Goto,
       Leave
<1> QED
  BY <1>1, <1>2 DEF InFlight

\* Opening a run adds the thread, closing it removes the thread.
LEMMA FlightMoves ==
  ASSUME TypeOK, NEW t \in Threads
  PROVE  /\ StartRun(t) => InFlight' = InFlight \cup {t}
         /\ (Publish(t) \/ Abort(t)) => t \in InFlight /\ InFlight' = InFlight \ {t}
BY DEF TypeOK, StartRun, Publish, Abort, Leave, Goto, InFlight

\* Every step preserves SingleFlight.
LEMMA SingleFlightStep == TypeOK /\ SingleFlight /\ [Next]_vars => SingleFlight'
<1> SUFFICES ASSUME TypeOK, SingleFlight, [Next]_vars PROVE SingleFlight'
  OBVIOUS
<1>1. ASSUME running' = running, InFlight' = InFlight PROVE SingleFlight'
  BY <1>1 DEF SingleFlight
<1>2. CASE UNCHANGED vars
  BY <1>1, <1>2 DEF vars, server, InFlight
<1>3. ASSUME NEW t \in Threads, Step(t) PROVE SingleFlight'
  <2>1. CASE Bystander(t)
    BY <1>1, <2>1, BystanderStep
  <2>2. CASE StartRun(t)
    <3>1. ~running /\ running'
      BY <2>2 DEF StartRun
    <3>2. InFlight' = {t}
      BY <2>2, <3>1, FlightMoves DEF SingleFlight
    <3> QED
      BY <3>1, <3>2 DEF SingleFlight
  <2>3. CASE Publish(t) \/ Abort(t)
    <3>1. ~running'
      BY <2>3 DEF Publish, Abort
    <3>2. InFlight' = {}
      BY <2>3, FlightMoves DEF SingleFlight
    <3> QED
      BY <3>1, <3>2 DEF SingleFlight
  <2> QED
    BY <1>3, <2>1, <2>2, <2>3 DEF Step, Enter, Bystander
<1>4. ASSUME NEW t \in Threads, NEW p \in Probes, Arrive(t, p) PROVE SingleFlight'
  <2>1. running' = running /\ InFlight' = InFlight
    BY <1>4 DEF Arrive, Goto, TypeOK, server, InFlight
  <2> QED
    BY <1>1, <2>1
<1>5. CASE Tick
  BY <1>1, <1>5 DEF Tick, InFlight
<1>6. ASSUME NEW c \in Checks, NEW h \in {"up", "down", "raises", "hangs"}, ChangeHealth(c, h)
      PROVE SingleFlight'
  BY <1>1, <1>6 DEF ChangeHealth, server, InFlight
<1> QED
  BY <1>2, <1>3, <1>4, <1>5, <1>6 DEF Next

(* The readiness checks are evaluated by at most one probe thread at a time, *)
(* and the running mark tells exactly whether there is one.                  *)
THEOREM AtMostOneRun == Spec => []SingleFlight
<1>1. Init => SingleFlight
  BY DEF Init, SingleFlight, InFlight
<1> QED
  BY <1>1, SingleFlightStep, TypeCorrect, PTL DEF Spec

-----------------------------------------------------------------------------
(* A stuck run.  The cache is consulted before the running mark, so a stuck *)
(* run is reported only because no result is within its TTL while one runs. *)

Expired == running => (last = None \/ resultAge = TTL)

\* A run starts only on an expired cache, and time does not refresh it.
LEMMA ExpiredStep == TypeOK /\ Expired /\ [Next]_vars => Expired'
<1> SUFFICES ASSUME TypeOK, Expired, [Next]_vars PROVE Expired'
  OBVIOUS
<1>1. ASSUME running' = running, last' = last, resultAge' = resultAge PROVE Expired'
  BY <1>1 DEF Expired
<1>2. CASE UNCHANGED vars
  BY <1>1, <1>2 DEF vars, server
<1>3. ASSUME NEW t \in Threads, Step(t) PROVE Expired'
  <2>1. CASE Bystander(t)
    BY <1>1, <2>1 DEF Bystander, HandleLive, LivenessRaises, HandleReady, HandleStartup,
       AnswerFromCache,
         AnswerFromLastRun, AnswerInProgress, RunCheck, CheckRaises, Latch, ReadLatch, Deliver,
         ClientGone, server
  <2>2. CASE StartRun(t)
    <3>1. last = None \/ ~(resultAge < TTL)
      BY <2>2 DEF StartRun, Fresh
    <3>2. last' = last /\ resultAge' = resultAge
      BY <2>2 DEF StartRun
    <3>3. ~(resultAge < TTL) => resultAge = TTL
      BY TimeAssumption DEF TypeOK
    <3> QED
      BY <3>1, <3>2, <3>3 DEF Expired
  <2>3. CASE Publish(t) \/ Abort(t)
    BY <2>3 DEF Publish, Abort, Expired
  <2> QED
    BY <1>3, <2>1, <2>2, <2>3 DEF Step, Enter, Bystander
<1>4. ASSUME NEW t \in Threads, NEW p \in Probes, Arrive(t, p) PROVE Expired'
  BY <1>1, <1>4 DEF Arrive, server
<1>5. CASE Tick
  <2>1. resultAge = TTL => resultAge' = TTL
    BY <1>5, TimeAssumption DEF Tick, Older
  <2>2. running' = running /\ last' = last
    BY <1>5 DEF Tick
  <2> QED
    BY <2>1, <2>2 DEF Expired
<1>6. ASSUME NEW c \in Checks, NEW h \in {"up", "down", "raises", "hangs"}, ChangeHealth(c, h)
      PROVE Expired'
  BY <1>1, <1>6 DEF ChangeHealth, server
<1> QED
  BY <1>2, <1>3, <1>4, <1>5, <1>6 DEF Next

\* No result is fresh while a run is in flight.
LEMMA NothingFresh == TypeOK /\ Expired /\ running => ~Fresh
<1> SUFFICES ASSUME TypeOK, Expired, running, Fresh PROVE FALSE
  OBVIOUS
<1>1. resultAge = TTL /\ resultAge < TTL
  BY DEF Expired, Fresh
<1> QED
  BY <1>1, TimeAssumption

StuckStep ==
    \A t \in Threads :
        (pc[t] = "enter" /\ pc'[t] = "answered" /\ running /\ Stuck) => ~res'[t].ok

\* The only exit of the critical section left to such a probe is "in progress".
LEMMA StuckStepHolds == TypeOK /\ Expired /\ [Next]_vars => StuckStep
<1> SUFFICES ASSUME TypeOK, Expired, [Next]_vars,
                    NEW t \in Threads,
                    pc[t] = "enter", pc'[t] = "answered", running, Stuck
             PROVE  ~res'[t].ok
  BY DEF StuckStep
<1>1. PICK s \in Threads : Step(s) \/ \E p \in Probes : Arrive(s, p)
  BY DEF Next, vars, Tick, ChangeHealth
<1>2. s = t /\ Enter(t)
  BY <1>1 DEF TypeOK, Step, Enter, HandleLive, LivenessRaises, HandleReady, HandleStartup,
       RunCheck, CheckRaises,
       Publish, Abort, Leave, Latch, ReadLatch, Deliver, ClientGone, Arrive, Goto,
       AnswerFromCache, AnswerFromLastRun, AnswerInProgress, StartRun
<1>3. AnswerInProgress(t)
  BY <1>2, NothingFresh DEF Enter, AnswerFromCache, AnswerFromLastRun, StartRun
<1> QED
  BY <1>3 DEF AnswerInProgress, NotReady, TypeOK

(* A readiness probe answered while a run has been out for StuckAfter or     *)
(* more is never told "ready".                                               *)
THEOREM StuckIsNotReady == Spec => StuckAnswersNotReady
<1>1. Init => Expired
  BY DEF Init, Expired
<1>2. Spec => []Expired
  BY <1>1, ExpiredStep, TypeCorrect, PTL DEF Spec
<1>3. TypeOK /\ Expired /\ [Next]_vars => [StuckStep]_vars
  BY StuckStepHolds
<1>4. Spec => [][StuckStep]_vars
  BY <1>2, <1>3, TypeCorrect, PTL DEF Spec
<1> QED
  BY <1>4 DEF StuckAnswersNotReady, StuckStep

-----------------------------------------------------------------------------
(* The startup latch.  A positive answer on its way to a client, one that   *)
(* has arrived, and a probe sent since, each imply that the latch is set.   *)

LatchedBeforeSend ==
    \A t \in Threads : (pc[t] = "send" /\ probe[t] # "live" /\ res[t].ok) => started

LatchInv ==
    /\ LatchedBeforeSend
    /\ promised => started
    /\ owed # {} => promised
    /\ StartupStaysGreen

\* A thread's step preserves LatchInv.
LEMMA LatchThreadStep ==
  ASSUME TypeOK, LatchInv, NEW t \in Threads, Step(t)
  PROVE  LatchInv'
<1> USE DEF LatchInv, LatchedBeforeSend, StartupStaysGreen, TypeOK
<1>1. CASE HandleLive(t)
  BY <1>1 DEF HandleLive, Goto, server, history
<1>2. CASE HandleReady(t)
  BY <1>2 DEF HandleReady, Goto, server, history
<1>3. CASE HandleStartup(t)
  BY <1>3 DEF HandleStartup, Goto, server, history
<1>4. CASE AnswerFromCache(t)
  BY <1>4 DEF AnswerFromCache, Goto, server, history
<1>5. CASE AnswerFromLastRun(t)
  BY <1>5 DEF AnswerFromLastRun, Goto, server, history
<1>6. CASE AnswerInProgress(t)
  BY <1>6 DEF AnswerInProgress, Goto, history
<1>7. CASE StartRun(t)
  BY <1>7 DEF StartRun, Goto, history
<1>8. ASSUME NEW c \in Checks, RunCheck(t, c) PROVE LatchInv'
  BY <1>8 DEF RunCheck, server, history
<1>9. ASSUME NEW c \in Checks, CheckRaises(t, c) PROVE LatchInv'
  BY <1>9 DEF CheckRaises, Goto, server, history
<1>10. CASE Publish(t)
  BY <1>10 DEF Publish, Goto, history
<1>11. CASE Abort(t)
  BY <1>11 DEF Abort, Leave
<1>12. CASE Latch(t)
  BY <1>12 DEF Latch, Goto, history
<1>13. CASE ReadLatch(t)
  <2>1. started' = started /\ promised' = promised /\ owed' = owed /\ probe' = probe
    BY <1>13 DEF ReadLatch, server, history
  <2>2. pc'[t] = "send" /\ res'[t].ok = started
    BY <1>13 DEF ReadLatch, Goto
  <2>3. \A s \in Threads \ {t} : pc'[s] = pc[s] /\ res'[s] = res[s]
    BY <1>13 DEF ReadLatch, Goto
  <2> QED
    BY <2>1, <2>2, <2>3
<1>14. CASE Deliver(t)
  BY <1>14 DEF Deliver, Leave, server
<1>15. CASE ClientGone(t)
  BY <1>15 DEF ClientGone, Leave, server
<1>16. CASE LivenessRaises(t)
  BY <1>16 DEF LivenessRaises, Leave, server
<1> QED
  BY <1>1, <1>2, <1>3, <1>4, <1>5, <1>6, <1>7, <1>8, <1>9, <1>10, <1>11, <1>12,
     <1>13, <1>14, <1>15, <1>16 DEF Step, Enter

\* So does every other step.
LEMMA LatchStep == TypeOK /\ LatchInv /\ [Next]_vars => LatchInv'
<1> SUFFICES ASSUME TypeOK, LatchInv, [Next]_vars PROVE LatchInv'
  OBVIOUS
<1>1. ASSUME started' = started, promised' = promised, owed' = owed,
             pc' = pc, probe' = probe, res' = res
      PROVE  LatchInv'
  BY <1>1 DEF LatchInv, LatchedBeforeSend, StartupStaysGreen
<1>2. CASE UNCHANGED vars
  BY <1>1, <1>2 DEF vars, server, history
<1>3. ASSUME NEW t \in Threads, NEW p \in Probes, Arrive(t, p) PROVE LatchInv'
  BY <1>3 DEF Arrive, Goto, LatchInv, LatchedBeforeSend, StartupStaysGreen, TypeOK, server
<1>4. CASE Tick
  BY <1>1, <1>4 DEF Tick, history
<1>5. ASSUME NEW c \in Checks, NEW h \in {"up", "down", "raises", "hangs"}, ChangeHealth(c, h)
      PROVE LatchInv'
  BY <1>1, <1>5 DEF ChangeHealth, server, history
<1> QED
  BY <1>2, <1>3, <1>4, <1>5, LatchThreadStep DEF Next

(* After the first 200 a client has received from /ready or /startup, every  *)
(* later /startup probe is answered 200 and never waits for a run.           *)
THEOREM StartupLatchHolds == Spec => []StartupStaysGreen
<1>1. Init => LatchInv
  BY DEF Init, LatchInv, LatchedBeforeSend, StartupStaysGreen
<1>2. LatchInv => StartupStaysGreen
  BY DEF LatchInv
<1> QED
  BY <1>1, <1>2, LatchStep, TypeCorrect, PTL DEF Spec

-----------------------------------------------------------------------------
(* What a positive answer says.                                            *)

AllPassed == [c \in Checks |-> TRUE]

\* ok is the conjunction of the verdicts collected so far.
SoFarSoGood ==
    \A t \in Threads :
        (pc[t] = "run" /\ res[t].ok) => \A c \in DOMAIN res[t].checks : res[t].checks[c]

GreenInv ==
    /\ \A t \in Threads : pc[t] = "reread" => probe[t] = "startup"
    /\ SoFarSoGood
    /\ (last # None /\ last.ok) => last.checks = AllPassed
    /\ GreenListsEveryCheck

\* A result without pending checks and without a failed one lists them all.
LEMMA CompleteResult ==
  ASSUME NEW r \in Results, Checks \ DOMAIN r.checks = {}, \A c \in DOMAIN r.checks : r.checks[c]
  PROVE  r.checks = AllPassed
<1>1. PICK S \in SUBSET Checks : r.checks \in [S -> BOOLEAN]
  BY DEF Results
<1>2. DOMAIN r.checks = Checks
  BY <1>1
<1>3. \A c \in Checks : r.checks[c] = TRUE
  BY <1>1, <1>2
<1> QED
  BY <1>1, <1>2, <1>3 DEF AllPassed

\* Extend keeps ok the conjunction of the verdicts.
LEMMA ExtendConjoins ==
  ASSUME NEW r \in Results, NEW c \in Checks, NEW up \in BOOLEAN,
         r.ok => \A d \in DOMAIN r.checks : r.checks[d],
         Extend(r, c, up).ok
  PROVE  \A d \in DOMAIN Extend(r, c, up).checks : Extend(r, c, up).checks[d]
BY DEF Extend

\* A thread's step preserves GreenInv.
LEMMA GreenThreadStep ==
  ASSUME TypeOK, GreenInv, NEW t \in Threads, Step(t)
  PROVE  GreenInv'
<1> USE DEF GreenInv, SoFarSoGood, GreenListsEveryCheck, AllPassed, TypeOK
<1>1. CASE HandleLive(t)
  <2>1. PICK verdict : res' = [res EXCEPT ![t] = verdict]
    BY <1>1 DEF HandleLive
  <2>2. probe[t] = "live" /\ pc' = [pc EXCEPT ![t] = "send"] /\ last' = last /\ probe' = probe
    BY <1>1 DEF HandleLive, Goto, server
  <2> QED
    BY <2>1, <2>2
<1>2. CASE HandleReady(t)
  BY <1>2 DEF HandleReady, Goto, server
<1>3. CASE HandleStartup(t)
  BY <1>3 DEF HandleStartup, Goto, server
<1>4. CASE AnswerFromCache(t)
  BY <1>4 DEF AnswerFromCache, Fresh, Goto, server
<1>5. CASE AnswerFromLastRun(t)
  BY <1>5 DEF AnswerFromLastRun, Goto, server
<1>6. CASE AnswerInProgress(t)
  BY <1>6 DEF AnswerInProgress, NotReady, Goto
<1>7. CASE StartRun(t)
  <2>1. DOMAIN AllGood.checks = {}
    BY DEF AllGood, NoChecks
  <2> QED
    BY <1>7, <2>1 DEF StartRun, Goto
<1>8. ASSUME NEW c \in Checks, RunCheck(t, c) PROVE GreenInv'
  <2>1. last' = last /\ pc' = pc /\ probe' = probe /\ pc[t] = "run"
    BY <1>8 DEF RunCheck, server
  <2>2. res'[t] = Extend(res[t], c, health[c] = "up")
    BY <1>8 DEF RunCheck
  <2>3. \A s \in Threads \ {t} : res'[s] = res[s]
    BY <1>8 DEF RunCheck
  <2>4. res'[t].ok => \A d \in DOMAIN res'[t].checks : res'[t].checks[d]
    <3> DEFINE up == health[c] = "up"
    <3>1. res[t] \in Results /\ up \in BOOLEAN
      OBVIOUS
    <3>2. res[t].ok => \A d \in DOMAIN res[t].checks : res[t].checks[d]
      BY <2>1
    <3> HIDE DEF up
    <3>3. Extend(res[t], c, up).ok =>
              \A d \in DOMAIN Extend(res[t], c, up).checks : Extend(res[t], c, up).checks[d]
      BY <3>1, <3>2, ExtendConjoins
    <3> QED
      BY <2>2, <3>3 DEF up
  <2> QED
    BY <2>1, <2>3, <2>4
<1>9. ASSUME NEW c \in Checks, CheckRaises(t, c) PROVE GreenInv'
  BY <1>9 DEF CheckRaises, Goto, server
<1>10. CASE Publish(t)
  <2>1. res[t].ok => res[t].checks = AllPassed
    BY <1>10, CompleteResult DEF Publish, Pending, Goto
  <2> QED
    BY <1>10, <2>1 DEF Publish, Goto
<1>11. CASE Abort(t)
  BY <1>11 DEF Abort, Leave, NotReady
<1>12. CASE Latch(t)
  BY <1>12 DEF Latch, Goto
<1>13. CASE ReadLatch(t)
  <2>1. probe[t] = "startup"
    BY <1>13 DEF ReadLatch, Goto
  <2> QED
    BY <1>13, <2>1 DEF ReadLatch, Goto, server
<1>14. CASE Deliver(t)
  BY <1>14 DEF Deliver, Leave, NotReady, server
<1>15. CASE ClientGone(t)
  BY <1>15 DEF ClientGone, Leave, NotReady, server
<1>16. CASE LivenessRaises(t)
  BY <1>16 DEF LivenessRaises, Leave, NotReady, server
<1> QED
  BY <1>1, <1>2, <1>3, <1>4, <1>5, <1>6, <1>7, <1>8, <1>9, <1>10, <1>11, <1>12,
     <1>13, <1>14, <1>15, <1>16 DEF Step, Enter

\* So does every other step.
LEMMA GreenStep == TypeOK /\ GreenInv /\ [Next]_vars => GreenInv'
<1> SUFFICES ASSUME TypeOK, GreenInv, [Next]_vars PROVE GreenInv'
  OBVIOUS
<1>1. ASSUME last' = last, pc' = pc, probe' = probe, res' = res PROVE GreenInv'
  BY <1>1 DEF GreenInv, SoFarSoGood, GreenListsEveryCheck
<1>2. CASE UNCHANGED vars
  BY <1>1, <1>2 DEF vars, server
<1>3. ASSUME NEW t \in Threads, NEW p \in Probes, Arrive(t, p) PROVE GreenInv'
  BY <1>3 DEF Arrive, Goto, GreenInv, SoFarSoGood, GreenListsEveryCheck, TypeOK, server
<1>4. CASE Tick
  BY <1>1, <1>4 DEF Tick
<1>5. ASSUME NEW c \in Checks, NEW h \in {"up", "down", "raises", "hangs"}, ChangeHealth(c, h)
      PROVE GreenInv'
  BY <1>1, <1>5 DEF ChangeHealth, server
<1> QED
  BY <1>2, <1>3, <1>4, <1>5, GreenThreadStep DEF Next

\* GreenInv holds in every reachable state.
LEMMA GreenAlways == Spec => []GreenInv
<1>1. Init => GreenInv
  BY DEF Init, GreenInv, SoFarSoGood, GreenListsEveryCheck
<1> QED
  BY <1>1, GreenStep, TypeCorrect, PTL DEF Spec

(* A positive readiness answer lists every registered check as passed.      *)
THEOREM GreenIsComplete == Spec => []GreenListsEveryCheck
<1>1. GreenInv => GreenListsEveryCheck
  BY DEF GreenInv
<1> QED
  BY <1>1, GreenAlways, PTL

FullPassStep ==
    started' # started =>
        /\ started'
        /\ \E t \in Threads : res[t].checks = [c \in Checks |-> TRUE]

\* Only Latch writes the latch, and only for an answer GreenInv speaks of.
LEMMA FullPassStepHolds == TypeOK /\ GreenInv /\ [Next]_vars => FullPassStep
<1> SUFFICES ASSUME TypeOK, GreenInv, [Next]_vars, started' # started
             PROVE  started' /\ \E t \in Threads : res[t].checks = [c \in Checks |-> TRUE]
  BY DEF FullPassStep
<1>1. PICK t \in Threads : Latch(t)
  BY DEF Next, vars, server, Step, Enter, Arrive, Tick, ChangeHealth, HandleLive,
       LivenessRaises, HandleReady,
       HandleStartup, AnswerFromCache, AnswerFromLastRun, AnswerInProgress, StartRun, RunCheck,
       CheckRaises, Publish, Abort, ReadLatch, Deliver, ClientGone
<1>2. started' = (started \/ res[t].ok) /\ pc[t] = "answered"
  BY <1>1 DEF Latch, Goto
<1>3. started' /\ res[t].ok
  BY <1>2 DEF TypeOK
<1> QED
  BY <1>2, <1>3 DEF GreenInv, GreenListsEveryCheck

(* The startup latch flips only on a run in which every check passed.       *)
THEOREM LatchNeedsAFullPass == Spec => LatchedByAFullPass
<1>1. TypeOK /\ GreenInv /\ [Next]_vars => [FullPassStep]_vars
  BY FullPassStepHolds
<1>2. Spec => [][FullPassStep]_vars
  BY <1>1, GreenAlways, TypeCorrect, PTL DEF Spec
<1> QED
  BY <1>2 DEF LatchedByAFullPass, FullPassStep

-----------------------------------------------------------------------------
(* Warnings.                                                               *)

\* The age of a run only grows, and a new run starts without a warning.
LEMMA WarningStep == TypeOK /\ WarningIsForThisRun /\ [Next]_vars => WarningIsForThisRun'
<1> SUFFICES ASSUME TypeOK, WarningIsForThisRun, [Next]_vars, warned', running' PROVE Stuck'
  BY DEF WarningIsForThisRun
<1>1. ASSUME warned' = warned, running' = running, runAge' = runAge PROVE Stuck'
  BY <1>1 DEF WarningIsForThisRun, Stuck
<1>2. CASE UNCHANGED vars
  BY <1>1, <1>2 DEF vars, server
<1>3. ASSUME NEW t \in Threads, AnswerInProgress(t) PROVE Stuck'
  BY <1>3 DEF AnswerInProgress, WarningIsForThisRun, Stuck
<1>4. ASSUME NEW t \in Threads, Step(t), ~AnswerInProgress(t) PROVE Stuck'
  BY <1>1, <1>4 DEF Step, Enter, HandleLive, LivenessRaises, HandleReady, HandleStartup,
       AnswerFromCache,
       AnswerFromLastRun, StartRun, RunCheck, CheckRaises, Publish, Abort, Latch, ReadLatch,
       Deliver, ClientGone, server
<1>5. ASSUME NEW t \in Threads, NEW p \in Probes, Arrive(t, p) PROVE Stuck'
  BY <1>1, <1>5 DEF Arrive, server
<1>6. CASE Tick
  <2>1. Stuck
    BY <1>6 DEF Tick, WarningIsForThisRun
  <2>2. runAge' >= runAge
    BY <1>6, TimeAssumption DEF Tick, Older, TypeOK
  <2>3. runAge \in Int /\ runAge' \in Int /\ StuckAfter \in Int
    BY <1>6, TimeAssumption DEF Tick, Older, TypeOK
  <2> QED
    BY <2>1, <2>2, <2>3 DEF Stuck
<1>7. ASSUME NEW c \in Checks, NEW h \in {"up", "down", "raises", "hangs"}, ChangeHealth(c, h)
      PROVE Stuck'
  BY <1>1, <1>7 DEF ChangeHealth, server
<1> QED
  BY <1>2, <1>3, <1>4, <1>5, <1>6, <1>7 DEF Next

(* A "stuck" warning that stands while a run is in flight was given for that *)
(* run, never for an earlier one.                                            *)
THEOREM WarningHolds == Spec => []WarningIsForThisRun
<1>1. Init => WarningIsForThisRun
  BY DEF Init, WarningIsForThisRun
<1> QED
  BY <1>1, WarningStep, TypeCorrect, PTL DEF Spec

-----------------------------------------------------------------------------
(* Refinement of OneFlight.                                                *)

\* What a thread that neither answers nor leaves an answer does to Told.
LEMMA ToldUnchanged ==
  ASSUME TypeOK, NEW t \in Threads,
         pc[t] # "answered", pc'[t] # "answered",
         \A s \in Threads \ {t} : pc'[s] = pc[s] /\ res'[s] = res[s]
  PROVE  Told' = Told
BY DEF Told

\* What a thread that gets an answer does to Told.
LEMMA ToldAnswer ==
  ASSUME TypeOK, NEW t \in Threads, pc'[t] = "answered",
         \A s \in Threads \ {t} : pc'[s] = pc[s] /\ res'[s] = res[s]
  PROVE  Told' = [Told EXCEPT ![t] = res'[t]]
BY DEF Told

\* A thread's step is a step of OneFlight or a stutter.
LEMMA FlightThreadStep ==
  ASSUME TypeOK, SingleFlight, NEW t \in Threads, Step(t)
  PROVE  [Flight!FlightNext]_(Flight!flightVars)
<1> USE DEF TypeOK, Flight!FlightNext, Flight!flightVars
<1>1. \A s \in Threads \ {t} : pc'[s] = pc[s] /\ res'[s] = res[s]
  BY DEF Step, Enter, HandleLive, LivenessRaises, HandleReady, HandleStartup, AnswerFromCache,
       AnswerFromLastRun,
       AnswerInProgress, StartRun, RunCheck, CheckRaises, Publish, Abort, Latch, ReadLatch,
       Deliver, ClientGone, Goto, Leave
<1>2. CASE HandleLive(t) \/ LivenessRaises(t) \/ HandleReady(t) \/ HandleStartup(t) \/ ReadLatch(t)
           \/ Deliver(t) \/ ClientGone(t)
           \/ \E c \in Checks : RunCheck(t, c) \/ CheckRaises(t, c)
  <2>1. last' = last /\ InFlight' = InFlight
    BY <1>2, BystanderStep DEF Bystander, HandleLive, LivenessRaises, HandleReady,
       HandleStartup, ReadLatch,
         Deliver, ClientGone, RunCheck, CheckRaises, server
  <2>2. pc[t] # "answered" /\ pc'[t] # "answered"
    BY <1>2 DEF HandleLive, LivenessRaises, HandleReady, HandleStartup, ReadLatch,
         Deliver, ClientGone, RunCheck, CheckRaises, Goto, Leave
  <2>3. Told' = Told
    BY <1>1, <2>2, ToldUnchanged
  <2> QED
    BY <2>1, <2>3
<1>3. CASE AnswerFromCache(t) \/ AnswerFromLastRun(t)
  <2>1. last' = last /\ InFlight' = InFlight /\ last # None
    BY <1>3, BystanderStep DEF Bystander, AnswerFromCache, AnswerFromLastRun, Fresh, server
  <2>2. pc[t] = "enter" /\ pc'[t] = "answered" /\ res'[t] = last
    BY <1>3 DEF AnswerFromCache, AnswerFromLastRun, Goto
  <2>3. Told' = [Told EXCEPT ![t] = last]
    BY <1>1, <2>2, ToldAnswer
  <2>4. t \notin InFlight
    BY <2>2 DEF InFlight
  <2> QED
    BY <2>1, <2>3, <2>4 DEF Flight!Serve
<1>4. CASE AnswerInProgress(t)
  <2>1. last' = last /\ InFlight' = InFlight
    BY <1>4, BystanderStep DEF Bystander, AnswerInProgress
  <2>2. pc[t] = "enter" /\ pc'[t] = "answered" /\ res'[t] = NotReady
    BY <1>4 DEF AnswerInProgress, Goto
  <2>3. Told' = [Told EXCEPT ![t] = NotReady]
    BY <1>1, <2>2, ToldAnswer
  <2>4. t \notin InFlight /\ InFlight # {}
    BY <1>4, <2>2 DEF InFlight, SingleFlight, AnswerInProgress
  <2> QED
    BY <2>1, <2>3, <2>4 DEF Flight!Refuse
<1>5. CASE StartRun(t)
  <2>1. InFlight = {} /\ InFlight' = {t} /\ last' = last
    BY <1>5, FlightMoves DEF StartRun, SingleFlight
  <2>2. pc[t] # "answered" /\ pc'[t] # "answered"
    BY <1>5 DEF StartRun, Goto
  <2>3. Told' = Told
    BY <1>1, <2>2, ToldUnchanged
  <2> QED
    BY <2>1, <2>3 DEF Flight!Launch
<1>6. CASE Publish(t)
  <2>1. InFlight = {t} /\ InFlight' = {}
    BY <1>6, FlightMoves DEF SingleFlight
  <2>2. last' = res[t] /\ pc'[t] = "answered" /\ res'[t] = res[t] /\ res[t] \in Results
    BY <1>6 DEF Publish, Goto
  <2>3. Told' = [Told EXCEPT ![t] = res[t]]
    BY <1>1, <2>2, ToldAnswer
  <2> QED
    BY <2>1, <2>2, <2>3 DEF Flight!Land
<1>7. CASE Abort(t)
  <2>1. InFlight = {t} /\ InFlight' = {} /\ last' = last
    BY <1>7, FlightMoves DEF SingleFlight, Abort
  <2>2. pc[t] # "answered" /\ pc'[t] # "answered"
    BY <1>7 DEF Abort, Leave
  <2>3. Told' = Told
    BY <1>1, <2>2, ToldUnchanged
  <2> QED
    BY <2>1, <2>3 DEF Flight!Fail
<1>8. CASE Latch(t)
  <2>1. last' = last /\ InFlight' = InFlight
    BY <1>8, BystanderStep DEF Bystander, Latch
  <2>2. pc'[t] # "answered"
    BY <1>8 DEF Latch, Goto
  <2>3. Told' = [Told EXCEPT ![t] = None]
    BY <1>1, <2>2 DEF Told
  <2> QED
    BY <2>1, <2>3 DEF Flight!Forget
<1> QED
  BY <1>2, <1>3, <1>4, <1>5, <1>6, <1>7, <1>8 DEF Step, Enter

\* So is every step.
LEMMA FlightStep == TypeOK /\ SingleFlight /\ [Next]_vars => [Flight!FlightNext]_(Flight!flightVars)
<1> SUFFICES ASSUME TypeOK, SingleFlight, [Next]_vars
             PROVE  [Flight!FlightNext]_(Flight!flightVars)
  OBVIOUS
<1>1. ASSUME last' = last, pc' = pc, res' = res PROVE UNCHANGED Flight!flightVars
  BY <1>1 DEF Flight!flightVars, InFlight, Told
<1>2. CASE UNCHANGED vars
  BY <1>1, <1>2 DEF vars, server
<1>3. ASSUME NEW t \in Threads, NEW p \in Probes, Arrive(t, p)
      PROVE UNCHANGED Flight!flightVars
  <2>1. last' = last /\ res' = res
    BY <1>3 DEF Arrive, server
  <2>2. pc[t] = "idle" /\ pc'[t] = "dispatch" /\ \A s \in Threads \ {t} : pc'[s] = pc[s]
    BY <1>3 DEF Arrive, Goto, TypeOK
  <2>3. InFlight' = InFlight
    BY <2>2 DEF InFlight
  <2>4. Told' = Told
    BY <2>1, <2>2, ToldUnchanged
  <2> QED
    BY <2>1, <2>3, <2>4 DEF Flight!flightVars
<1>4. CASE Tick
  BY <1>1, <1>4 DEF Tick
<1>5. ASSUME NEW c \in Checks, NEW h \in {"up", "down", "raises", "hangs"}, ChangeHealth(c, h)
      PROVE UNCHANGED Flight!flightVars
  BY <1>1, <1>5 DEF ChangeHealth, server
<1> QED
  BY <1>2, <1>3, <1>4, <1>5, FlightThreadStep DEF Next

(* check_readiness implements OneFlight.                                    *)
THEOREM RefinesOneFlight == Spec => ImplementsOneFlight
<1>1. Init => Flight!FlightInit
  BY DEF Init, Flight!FlightInit, InFlight, Told
<1>2. Spec => [][Flight!FlightNext]_(Flight!flightVars)
  BY FlightStep, TypeCorrect, AtMostOneRun, PTL DEF Spec
<1> QED
  BY <1>1, <1>2 DEF Spec, ImplementsOneFlight, Flight!FlightSpec

-----------------------------------------------------------------------------
(* HealthLifecycle.                                                        *)

\* The Boolean variables, apart from the others.
Flags ==
    /\ registered \in BOOLEAN /\ database \in BOOLEAN /\ taken \in BOOLEAN
    /\ due \in BOOLEAN
    /\ due => registered
    /\ (due /\ main = "bind") => database
    /\ inTime # {} => database

Types ==
    /\ main \in {"idle", "wire", "bind", "attach", "run", "stop"}
    /\ made \in 0..MaxStarts
    /\ httpd \in 0..made
    /\ main \in {"attach", "run", "stop"} => httpd # Nothing
    /\ attached \subseteq 1..made /\ asked \subseteq 1..made
    /\ inTime \subseteq 1..made /\ forgotten \subseteq 1..made
    /\ loop \in [Servers -> {"none", "bound", "starting", "serving", "ended"}]
    /\ connection \in [Clients -> {"away", "connected", "accepted", "opening"}]
    /\ at \in [Clients -> 0..made]

\* A server is made, told whose it is, and only then run; clients are at
\* servers that have been made, and are answered by servers that have run.
Order ==
    /\ \A s \in Servers : loop[s] # "none" <=> s <= made
    /\ main \in {"wire", "bind"} => made < MaxStarts
    /\ main \in {"attach", "run"} => loop[httpd] = "bound"
    /\ main = "run" => httpd \in attached
    /\ \A s \in Servers : loop[s] \in {"starting", "serving", "ended"} => s \in attached
    /\ \A p \in Clients : connection[p] # "away" => at[p] \in Servers
    /\ \A p \in Clients :
          connection[p] \in {"accepted", "opening"} => loop[at[p]] \in {"serving", "ended"}

LifecycleInv == Flags /\ Types /\ Order /\ OnlyOneServesAndCanBeStopped

-----------------------------------------------------------------------------

\* Init establishes the invariant.
LEMMA LifecycleInvInit == LifecycleInit => LifecycleInv
<1> SUFFICES ASSUME LifecycleInit PROVE LifecycleInv
  OBVIOUS
<1> USE DEF LifecycleInit
<1>1. Flags
  BY DEF Flags
<1>2. Types
  BY StartsAssumption DEF Types, Nothing
<1>3. Order
  BY DEF Order, Servers
<1>4. OnlyOneServesAndCanBeStopped
  BY DEF OnlyOneServesAndCanBeStopped, Up
<1> QED
  BY <1>1, <1>2, <1>3, <1>4 DEF LifecycleInv

\* No step breaks the wiring: the database reference is given on every
\* occasion at which the check is there.
LEMMA StepFlags == Flags /\ LifecycleNext => Flags'
<1> SUFFICES ASSUME Flags, LifecycleNext PROVE Flags'
  OBVIOUS
<1> USE DEF Flags
<1>1. CASE MakeFilter
  <2>1. due' = registered /\ main' = "wire" /\ UNCHANGED <<registered, database, taken, inTime>>
    BY <1>1 DEF MakeFilter, MainGoto, wiring
  <2> QED
    BY <2>1, Zenon
<1>2. CASE Wire
  <2>1. /\ database' = (database \/ registered)
        /\ UNCHANGED <<registered, taken, due, inTime>>
    BY <1>2 DEF Wire, servers
  <2> QED
    BY <2>1, Zenon
<1>3. CASE Bind
  <2>1. main = "bind" /\ UNCHANGED <<registered, database, taken, due>>
    BY <1>3 DEF Bind, MainGoto, wiring
  <2>2. inTime' = inTime \/ due
    BY <1>3 DEF Bind
  <2> QED
    BY <2>1, <2>2, Zenon
<1>4. CASE RegisterCheck
  <2>1. registered' = TRUE /\ UNCHANGED <<database, taken, main, due, inTime>>
    BY <1>4 DEF RegisterCheck, servers
  <2> QED
    BY <2>1, Zenon
<1>5. CASE OtherProcess
  <2>1. taken' = ~taken /\ UNCHANGED <<registered, database, main, due, inTime>>
    BY <1>5 DEF OtherProcess, wiring, servers
  <2> QED
    BY <2>1, Zenon
<1>6. CASE /\ UNCHANGED <<registered, database, taken, due, inTime>>
           /\ main' # "bind" \/ main' = main
  BY <1>6, Zenon
<1>7. CASE CannotBind \/ Attach \/ Run \/ Shutdown \/ Stopped
  <2>1. UNCHANGED <<registered, database, taken, due, inTime>> /\ main' # "bind"
    BY <1>7 DEF CannotBind, Attach, Run, Shutdown, Stopped, MainGoto, wiring, servers
  <2> QED
    BY <1>6, <2>1
<1>8. CASE (\E s \in Servers : LoopStep(s))
           \/ (\E p \in Clients : Connect(p) \/ Accept(p) \/ GiveUp(p) \/ Open(p) \/ Answer(p))
  <2>1. UNCHANGED <<registered, database, taken, due, inTime, main>>
    BY <1>8 DEF LoopStep, ServeForever, End, Connect, Accept, GiveUp, Open, Answer, wiring,
       servers
  <2> QED
    BY <1>6, <2>1
<1> QED
  BY <1>1, <1>2, <1>3, <1>4, <1>5, <1>7, <1>8 DEF LifecycleNext, MainStep

-----------------------------------------------------------------------------
(* The main thread.                                                        *)

LEMMA MainTypes ==
    ASSUME Types, Order, MakeFilter \/ MainStep \/ Shutdown
    PROVE  Types' /\ Order'
<1> USE StartsAssumption DEF Types, Order, Servers, Nothing
<1>1. CASE MakeFilter
  BY <1>1 DEF MakeFilter, MainGoto, servers, connections
<1>2. CASE Wire
  BY <1>2 DEF Wire, MainGoto, servers, connections
<1>3. CASE Bind
  <2>1. /\ main = "bind" /\ main' = "attach" /\ made' = made + 1 /\ httpd' = made + 1
        /\ loop' = [loop EXCEPT ![made + 1] = "bound"]
        /\ inTime' \subseteq inTime \cup {made + 1}
        /\ UNCHANGED <<attached, asked, forgotten, connection, at>>
    BY <1>3 DEF Bind, MainGoto, connections
  <2>2. made < MaxStarts /\ made + 1 \in Servers /\ loop'[made + 1] = "bound"
    BY <2>1
  <2>3. Types'
    BY <2>1, <2>2
  <2>4. \A s \in Servers : s # made + 1 => loop'[s] = loop[s]
    BY <2>1
  <2>5. loop[made + 1] = "none"
    BY <2>2
  <2>6. \A s \in Servers : loop'[s] # "none" <=> s <= made'
    BY <2>1, <2>2, <2>4
  <2>7. \A s \in Servers : loop'[s] \in {"starting", "serving", "ended"} => s \in attached'
    BY <2>1, <2>2, <2>4
  <2>8. \A p \in Clients :
           connection'[p] \in {"accepted", "opening"} => loop'[at'[p]] \in {"serving", "ended"}
    BY <2>1, <2>4, <2>5
  <2> QED
    BY <2>1, <2>2, <2>3, <2>6, <2>7, <2>8
<1>4. CASE CannotBind
  <2>1. forgotten' \subseteq 1..made
    <3>1. \A s \in Servers : Up(s) => s \in 1..made
      BY DEF Up
    <3>2. forgotten' = forgotten \cup {s \in Servers : Up(s)}
      BY <1>4 DEF CannotBind
    <3> QED
      BY <3>1, <3>2
  <2> QED
    BY <1>4, <2>1 DEF CannotBind, MainGoto, connections
<1>5. CASE Attach
  BY <1>5 DEF Attach, MainGoto, connections
<1>6. CASE Run
  <2>1. /\ main = "run" /\ main' = "idle" /\ loop' = [loop EXCEPT ![httpd] = "starting"]
        /\ httpd \in Servers /\ httpd <= made /\ loop[httpd] = "bound" /\ httpd \in attached
        /\ UNCHANGED <<httpd, made, attached, asked, inTime, forgotten, connection, at>>
    BY <1>6 DEF Run, MainGoto, servers, connections
  <2>2. \A s \in Servers : s # httpd => loop'[s] = loop[s]
    BY <2>1
  <2>3. loop'[httpd] = "starting"
    BY <2>1
  <2>4. \A p \in Clients :
           connection'[p] \in {"accepted", "opening"} => loop'[at'[p]] \in {"serving", "ended"}
    BY <2>1, <2>2
  <2>5. Types'
    BY <2>1
  <2> QED
    BY <2>1, <2>2, <2>3, <2>4, <2>5
<1>7. CASE Stopped
  BY <1>7 DEF Stopped, MainGoto, connections
<1>8. CASE Shutdown
  BY <1>8 DEF Shutdown, MainGoto, connections
<1> QED
  BY <1>1, <1>2, <1>3, <1>4, <1>5, <1>6, <1>7, <1>8 DEF MainStep

\* A server is made only when none is up, and forgotten only when it has
\* ended, or when start() was called too often.
LEMMA MainOneServes ==
    ASSUME Types, Order, OnlyOneServesAndCanBeStopped, MakeFilter \/ MainStep \/ Shutdown
    PROVE  OnlyOneServesAndCanBeStopped'
<1> USE StartsAssumption DEF Types, Order, Servers, Nothing, OnlyOneServesAndCanBeStopped, Up
<1>1. CASE MakeFilter \/ Wire \/ Attach \/ Shutdown
  BY <1>1 DEF MakeFilter, Wire, Attach, Shutdown, servers
<1>2. CASE Bind
  BY <1>2 DEF Bind, CanBind, Listening
<1>3. CASE CannotBind
  BY <1>3 DEF CannotBind
<1>4. CASE Run
  BY <1>4 DEF Run, MainGoto, servers
<1>5. CASE Stopped
  BY <1>5 DEF Stopped, MainGoto
<1> QED
  BY <1>1, <1>2, <1>3, <1>4, <1>5 DEF MainStep

-----------------------------------------------------------------------------
(* The loops, the probes and the environment.                              *)

LEMMA LoopTypes ==
    ASSUME Types, Order, NEW s \in Servers, LoopStep(s)
    PROVE  /\ Types' /\ Order'
           /\ OnlyOneServesAndCanBeStopped => OnlyOneServesAndCanBeStopped'
<1> USE StartsAssumption DEF Types, Order, Servers, Nothing
<1>1. PICK to \in {"serving", "ended"} :
         /\ loop[s] \in {"starting", "serving"}
         /\ loop[s] = "serving" => to = "ended"
         /\ loop' = [loop EXCEPT ![s] = to]
         /\ UNCHANGED <<main, httpd, made, attached, asked, inTime, forgotten, connection, at>>
  BY DEF LoopStep, ServeForever, End, servers, connections
<1>2. loop'[s] = to /\ \A r \in Servers : r # s => loop'[r] = loop[r]
  BY <1>1
<1>3. Types'
  BY <1>1
<1>4. \A p \in Clients :
         connection'[p] \in {"accepted", "opening"} => loop'[at'[p]] \in {"serving", "ended"}
  BY <1>1, <1>2
<1>5. Order'
  BY <1>1, <1>2, <1>4
<1>6. OnlyOneServesAndCanBeStopped => OnlyOneServesAndCanBeStopped'
  BY <1>1, <1>2 DEF OnlyOneServesAndCanBeStopped, Up
<1> QED
  BY <1>1, <1>3, <1>5, <1>6

LEMMA ConnectionTypes ==
    ASSUME Types, Order, NEW p \in Clients,
           Connect(p) \/ Accept(p) \/ GiveUp(p) \/ Open(p) \/ Answer(p)
    PROVE  Types' /\ Order' /\ UNCHANGED <<forgotten, httpd, loop>>
<1> USE StartsAssumption DEF Types, Order, Servers, Nothing
<1>1. UNCHANGED <<main, httpd, made, attached, asked, inTime, forgotten, loop>>
  BY DEF Connect, Accept, GiveUp, Open, Answer, servers
<1>2. CASE Connect(p)
  <2>1. PICK s \in Servers : Listening(s) /\ at' = [at EXCEPT ![p] = s]
    BY <1>2 DEF Connect
  <2>2. s <= made
    BY <2>1 DEF Listening, Up
  <2>3. connection' = [connection EXCEPT ![p] = "connected"]
    BY <1>2 DEF Connect
  <2> QED
    BY <1>1, <2>1, <2>2, <2>3
<1>3. CASE Accept(p)
  BY <1>1, <1>3 DEF Accept
<1>4. CASE GiveUp(p)
  BY <1>1, <1>4 DEF GiveUp
<1>5. CASE Open(p)
  BY <1>1, <1>5 DEF Open
<1>6. CASE Answer(p)
  BY <1>1, <1>6 DEF Answer
<1> QED
  BY <1>1, <1>2, <1>3, <1>4, <1>5, <1>6

\* Every step preserves the invariant.
LEMMA LifecycleStep == LifecycleInv /\ [LifecycleNext]_lifecycleVars => LifecycleInv'
<1> SUFFICES ASSUME LifecycleInv, [LifecycleNext]_lifecycleVars PROVE LifecycleInv'
  OBVIOUS
<1>1. Flags /\ Types /\ Order /\ OnlyOneServesAndCanBeStopped
  BY DEF LifecycleInv
<1>2. CASE UNCHANGED lifecycleVars
  BY <1>1, <1>2 DEF lifecycleVars, wiring, servers, connections, LifecycleInv, Flags, Types,
                    Order, OnlyOneServesAndCanBeStopped, Up
<1>3. CASE LifecycleNext
  <2>1. Flags'
    BY <1>1, <1>3, StepFlags
  <2>2. CASE MakeFilter \/ MainStep \/ Shutdown
    BY <1>1, <2>1, <2>2, MainTypes, MainOneServes DEF LifecycleInv
  <2>3. CASE \E s \in Servers : LoopStep(s)
    BY <1>1, <2>1, <2>3, LoopTypes DEF LifecycleInv
  <2>4. CASE \E p \in Clients : Connect(p) \/ Accept(p) \/ GiveUp(p) \/ Open(p) \/ Answer(p)
    <3>1. Types' /\ Order' /\ UNCHANGED <<forgotten, httpd, loop>>
      BY <1>1, <2>4, ConnectionTypes
    <3> QED
      BY <1>1, <2>1, <3>1 DEF LifecycleInv, OnlyOneServesAndCanBeStopped, Up
  <2>5. CASE RegisterCheck \/ OtherProcess
    <3>1. UNCHANGED <<main, servers, loop, connections>>
      BY <2>5 DEF RegisterCheck, OtherProcess
    <3> QED
      BY <1>1, <2>1, <3>1 DEF servers, connections, LifecycleInv, Types, Order,
                              OnlyOneServesAndCanBeStopped, Up
  <2> QED
    BY <1>3, <2>2, <2>3, <2>4, <2>5 DEF LifecycleNext
<1> QED
  BY <1>2, <1>3

\* It holds in every reachable state.
LEMMA LifecycleInvHolds == LifecycleSpec => []LifecycleInv
BY LifecycleInvInit, LifecycleStep, PTL DEF LifecycleSpec

(* Type correctness of the server's lifecycle.                             *)
THEOREM LifecycleTypeCorrect == LifecycleSpec => []LifecycleTypeOK
<1>1. LifecycleInv => LifecycleTypeOK
  BY DEF LifecycleInv, Flags, Types, LifecycleTypeOK
<1> QED
  BY <1>1, LifecycleInvHolds, PTL

(* Whoever is answered is answered by a server that knows its HealthServer, *)
(* with the database, if the check was there when the server's make_filter  *)
(* was called.                                                              *)
THEOREM ProbesAreAnsweredWhenWired == LifecycleSpec => []AnswersWhenWired
<1>1. LifecycleInv => AnswersWhenWired
  BY DEF LifecycleInv, Flags, Order, AnswersWhenWired
<1> QED
  BY <1>1, LifecycleInvHolds, PTL

(* At most one server is up, and it is the one that stop() shuts down,      *)
(* unless a start() that could not bind has cleared the reference to it.    *)
THEOREM StopFindsTheServer == LifecycleSpec => []OnlyOneServesAndCanBeStopped
<1>1. LifecycleInv => OnlyOneServesAndCanBeStopped
  BY DEF LifecycleInv
<1> QED
  BY <1>1, LifecycleInvHolds, PTL

=============================================================================
