---------------------------- MODULE BridgeProofs ----------------------------
(***************************************************************************)
(* Proofs of the safety properties of both ends of the crawl's bridge: the *)
(* queue and its polling loops (FetchBridge), for any number of fetchers   *)
(* and jobs and any timing constants, and the browser's controller         *)
(* (BrowserController), for any jobs, pages, budgets and bounds.           *)
(*                                                                         *)
(* Each end has one inductive invariant.  BridgeInv ties the three places  *)
(* a job lives in (the queue, the status field, the polling loop that      *)
(* awaits it) to each other, and the clock of every polling loop to the    *)
(* history variable that counts the browser's live ticks.  ControllerInv   *)
(* says of the running and of the saved state what each of their           *)
(* navigations and RPCs rests on, and gives the shapes that the awaits of  *)
(* a handler can have.                                                     *)
(***************************************************************************)
EXTENDS FetchBridge, BrowserController, FiniteSetTheorems, SequenceTheorems, TLAPS

-----------------------------------------------------------------------------
(* The queue and its polling loops.                                         *)

\* Every job's status field says where the job is.
StatusPlaces ==
    /\ \A j \in Jobs : status[j] = "none" <=> j > nJobs
    /\ \A j \in Jobs : status[j] = "pending" <=> j \in pending
    /\ \A j \in Jobs : status[j] = "assigned" <=> assigned = j

\* A polling loop waits for a created job, alone, and without an outcome yet.
OneWaiterEach ==
    /\ \A f \in Fetchers : waiter[f].job <= nJobs
    /\ \A f, g \in Fetchers :
         (waiter[f].job # NoJob /\ waiter[f].job = waiter[g].job) => f = g
    /\ \A f \in Fetchers : waiter[f].job # NoJob => outcome[waiter[f].job] = Unset

\* A job is open exactly while somebody waits for it without an answer; a job
\* that was never created has neither answer nor outcome.
OpenIsAwaited ==
    /\ \A j \in Jobs : status[j] \in {"pending", "assigned"}
         <=> (fut[j] = Unset /\ \E f \in Fetchers : waiter[f].job = j)
    /\ \A j \in Jobs : j > nJobs => fut[j] = Unset /\ outcome[j] = Unset

\* An answer agrees with the recorded verdict and with the identity asked
\* for, and is never a timeout.
AnswerAgrees ==
    \A j \in Jobs : fut[j] # Unset =>
        /\ status[j] \in Verdicts
        /\ fut[j].block = "none" <=> status[j] = "completed"
        /\ fut[j].ident = ident[j]
        /\ fut[j].block # "timeout"

\* The most time a polling loop may have counted after h live ticks.
LiveTime(h) == PollGap * h
Covered(t, h) == h >= Timeout \/ t <= LiveTime(h)

\* The clock of a polling loop never runs ahead of the browser's live ticks.
ClockOK(w) ==
    /\ w.since <= PollGap
    /\ Covered(w.elapsed, healthy[w.job])
    /\ (w.counting /\ w.since = 0) => Alive
    /\ (w.counting /\ w.since > 0) => Covered(w.elapsed + PollGap, healthy[w.job])

ClockIsHealthy == \A f \in Fetchers : waiter[f].job # NoJob => ClockOK(waiter[f])

BridgeInv ==
    /\ TypeOK
    /\ StatusPlaces
    /\ OneWaiterEach
    /\ OpenIsAwaited
    /\ AnswerAgrees
    /\ VerdictAgrees
    /\ ClockIsHealthy
    /\ TimeoutWasHealthy

-----------------------------------------------------------------------------
\* Arithmetic of LiveTime.
LEMMA LiveTimeFacts ==
    ASSUME NEW h \in Nat
    PROVE  /\ LiveTime(h) \in Nat
           /\ LiveTime(h + 1) = LiveTime(h) + PollGap
           /\ LiveTime(h) >= h
BY BridgeAssumption DEF LiveTime

\* What complete, fail and skip have in common: they resolve the in-flight,
\* unanswered job with an answer that keeps the identity, has a page exactly
\* when the verdict is "completed", and is never a timeout.
Answer(j, res, st) ==
    /\ Resolvable(j)
    /\ Finish(j, res, st)
    /\ res.ident = ident[j]
    /\ res.block = "none" <=> st = "completed"
    /\ res.block # "timeout"

\* Every step is a fetch, a turn of a polling loop, a call of the client, a
\* heartbeat, a tick or a stutter; the calls are TakeNext, Answer and Override.
LEMMA StepCases ==
    ASSUME TypeOK, [Next]_vars
    PROVE  \/ \E f \in Fetchers, u \in Urls : Fetch(f, u)
           \/ \E f \in Fetchers : PollDone(f) \/ PollTimeout(f) \/ PollWait(f)
           \/ TakeNext
           \/ \E j \in Jobs, res \in Result, st \in Verdicts : Answer(j, res, st)
           \/ \E j \in Jobs, u \in Urls : Override(j, u)
           \/ Heartbeat
           \/ Tick
           \/ UNCHANGED vars
<1>1. ASSUME NEW j \in Jobs, NEW b \in Blocks
      PROVE  /\ FailedResult(j, b) \in Result
             /\ FailedResult(j, b).ident = ident[j]
             /\ FailedResult(j, b).block = b
  BY DEF FailedResult, Result, TypeOK
<1>2. ASSUME NEW j \in handed, NEW u \in Urls, Complete(j, u)
      PROVE  \E res \in Result, st \in Verdicts : Answer(j, res, st)
  <2> j \in Jobs
    BY DEF TypeOK
  <2>1. CASE u \in PortUrls
    BY <1>1, <1>2, <2>1 DEF Complete, Answer, Blocks, Verdicts
  <2>2. CASE u \notin PortUrls
    <3> DEFINE r == [FailedResult(j, "none") EXCEPT !.final = u]
    <3>1. r \in Result /\ r.ident = ident[j] /\ r.block = "none"
      BY DEF FailedResult, Result, Blocks, TypeOK
    <3> QED
      BY <1>2, <2>2, <3>1 DEF Complete, Answer, Verdicts
  <2> QED
    BY <2>1, <2>2
<1>3. ASSUME NEW j \in handed, NEW r \in Reasons \cup {"human_failed"}, Fail(j, r)
      PROVE  \E res \in Result, st \in Verdicts : Answer(j, res, st)
  BY <1>1, <1>3, BridgeAssumption DEF Fail, Answer, Blocks, Verdicts, TypeOK
<1>4. ASSUME NEW j \in handed, NEW r \in Reasons \cup {"human_skip"}, Skip(j, r)
      PROVE  \E res \in Result, st \in Verdicts : Answer(j, res, st)
  BY <1>1, <1>4, BridgeAssumption DEF Skip, Answer, Blocks, Verdicts, TypeOK
<1>5. handed \subseteq Jobs
  BY DEF TypeOK
<1> QED
  BY <1>2, <1>3, <1>4, <1>5 DEF Next, Poll, Client

\* Each handler and each turn of the polling loop keeps the queue, the
\* futures and the clocks in their types.
LEMMA TypeStep ==
    ASSUME TypeOK, [Next]_vars
    PROVE  TypeOK'
<1> USE BridgeAssumption DEF TypeOK
<1>1. ASSUME NEW f \in Fetchers, NEW u \in Urls, Fetch(f, u) PROVE TypeOK'
  <2> DEFINE n == nJobs + 1
  <2>1. n \in Jobs /\ n \in 0..MaxJobs
    BY <1>1 DEF Fetch, Jobs
  <2>2. [job |-> n, elapsed |-> 0, since |-> 0, counting |-> Alive] \in Waiter
    BY <2>1 DEF Waiter, Alive
  <2>3. "pending" \in JobStatus
    BY DEF JobStatus
  <2> QED
    BY <1>1, <2>1, <2>2, <2>3 DEF Fetch
<1>2. ASSUME NEW f \in Fetchers, PollDone(f) PROVE TypeOK'
  BY <1>2 DEF PollDone, Idle, Waiter, Jobs, NoJob, queueVars
<1>3. ASSUME NEW f \in Fetchers, PollTimeout(f) PROVE TypeOK'
  <2>1. PICK j \in Jobs : j = waiter[f].job
    BY <1>3 DEF PollTimeout, Waiter
  <2>2. FailedResult(j, "timeout") \in Result
    BY DEF FailedResult, Result, Blocks
  <2>3. Discard(j) => /\ pending' \subseteq Jobs
                      /\ assigned' \in Jobs \cup {NoJob}
                      /\ stats' \in [Verdicts -> Nat]
                      /\ status' \in [Jobs -> JobStatus]
    BY DEF Discard, Verdicts, JobStatus
  <2>4. Idle \in Waiter
    BY DEF Idle, Waiter
  <2> QED
    BY <1>3, <2>1, <2>2, <2>3, <2>4 DEF PollTimeout
<1>4. ASSUME NEW f \in Fetchers, PollWait(f) PROVE TypeOK'
  <2> DEFINE w == waiter[f]
             v == [job |-> w.job, elapsed |-> Elapsed(w), since |-> 0, counting |-> Alive]
  <2>1. w \in Waiter
    OBVIOUS
  <2>2. w.job \in Jobs \cup {NoJob} /\ Elapsed(w) \in Nat /\ Alive \in BOOLEAN
    BY <2>1 DEF Waiter, Elapsed, Alive
  <2>3. v \in Waiter
    BY <2>2 DEF Waiter
  <2>4. /\ waiter' = [waiter EXCEPT ![f] = v]
        /\ UNCHANGED <<nJobs, url, ident, status, pending, assigned, stats, fut, handed, hbAge,
                       outcome, healthy>>
    BY <1>4 DEF PollWait, queueVars
  <2> HIDE DEF v
  <2> QED
    BY <2>3, <2>4
<1>5. CASE TakeNext
  BY <1>5 DEF TakeNext, Jobs, NoJob, JobStatus
<1>6. ASSUME NEW j \in Jobs, NEW res \in Result, NEW st \in Verdicts, Answer(j, res, st)
      PROVE  TypeOK'
  BY <1>6 DEF Answer, Finish, Jobs, NoJob, JobStatus, Verdicts
<1>7. ASSUME NEW j \in Jobs, NEW u \in Urls, Override(j, u) PROVE TypeOK'
  BY <1>7 DEF Override, queueVars
<1>8. CASE Heartbeat
  BY <1>8 DEF Heartbeat, queueVars
<1>9. CASE Tick
  BY <1>9 DEF Tick, queueVars, Waiter, Alive
<1>10. CASE UNCHANGED vars
  BY <1>10 DEF vars
<1> QED
  BY StepCases, <1>1, <1>2, <1>3, <1>4, <1>5, <1>6, <1>7, <1>8, <1>9, <1>10

\* The initial state satisfies the invariant.
LEMMA InitInv == Init => BridgeInv
<1> SUFFICES ASSUME Init PROVE BridgeInv
  OBVIOUS
<1>1. TypeOK
  BY BridgeAssumption DEF Init, TypeOK, Jobs, NoJob, Waiter, Idle, JobStatus, Verdicts
<1>2. StatusPlaces
  BY BridgeAssumption DEF Init, StatusPlaces, Jobs, NoJob
<1>3. OneWaiterEach /\ ClockIsHealthy
  BY DEF Init, OneWaiterEach, ClockIsHealthy, Idle, NoJob
<1>4. OpenIsAwaited
  BY DEF Init, OpenIsAwaited, Idle, NoJob, Jobs
<1>5. AnswerAgrees /\ VerdictAgrees /\ TimeoutWasHealthy
  BY DEF Init, AnswerAgrees, VerdictAgrees, TimeoutWasHealthy
<1> QED
  BY <1>1, <1>2, <1>3, <1>4, <1>5 DEF BridgeInv

\* fetch() keeps the invariant: the new job is waited for by its caller alone.
LEMMA FetchStep ==
    ASSUME BridgeInv, TypeOK', NEW f \in Fetchers, NEW u \in Urls, Fetch(f, u)
    PROVE  BridgeInv'
<1> DEFINE n == nJobs + 1
<1> USE DEF BridgeInv, NoJob
<1>1. /\ n \in Jobs /\ nJobs \in Nat /\ nJobs' = n
      /\ waiter[f].job = 0
      /\ status' = [status EXCEPT ![n] = "pending"]
      /\ ident' = [ident EXCEPT ![n] = u]
      /\ pending' = pending \cup {n}
      /\ waiter' = [waiter EXCEPT ![f] = [job |-> n, elapsed |-> 0, since |-> 0, counting |-> Alive]]
      /\ UNCHANGED <<assigned, fut, hbAge, outcome, healthy>>
  <2>1. n \in Jobs /\ nJobs \in Nat
    BY BridgeAssumption DEF Fetch, Jobs, TypeOK
  <2>2. waiter[f].job = 0
    BY DEF Fetch, Idle
  <2> QED
    BY <2>1, <2>2 DEF Fetch
<1>2. StatusPlaces'
  BY <1>1 DEF StatusPlaces, TypeOK, Jobs
<1>3. OneWaiterEach'
  <2>1. waiter'[f].job = n /\ \A g \in Fetchers \ {f} : waiter'[g] = waiter[g]
    BY <1>1 DEF TypeOK
  <2>2. outcome[n] = Unset
    BY <1>1 DEF OpenIsAwaited
  <2>3. \A g \in Fetchers : waiter[g].job \in Nat /\ waiter[g].job < n
    BY <1>1 DEF OneWaiterEach, TypeOK, Waiter, Jobs
  <2> QED
    BY <1>1, <2>1, <2>2, <2>3 DEF OneWaiterEach
<1>4. OpenIsAwaited'
  BY <1>1 DEF OpenIsAwaited, TypeOK, OneWaiterEach, Jobs
<1>5. AnswerAgrees'
  BY <1>1 DEF AnswerAgrees, OpenIsAwaited, TypeOK, Jobs
<1>6. VerdictAgrees'
  BY <1>1 DEF VerdictAgrees, OpenIsAwaited, TypeOK, Jobs
<1>7. ClockIsHealthy'
  <2>1. LiveTime(healthy[n]) \in Nat
    BY <1>1, LiveTimeFacts DEF TypeOK
  <2>2. ClockOK(waiter[f])'
    <3>1. Alive' <=> Alive
      BY <1>1 DEF Alive
    <3>2. /\ waiter'[f].job = n /\ waiter'[f].since = 0 /\ waiter'[f].elapsed = 0
          /\ waiter'[f].counting => Alive
      BY <1>1 DEF TypeOK
    <3> QED
      BY <1>1, <2>1, <3>1, <3>2, BridgeAssumption DEF ClockOK, Covered
  <2>3. \A g \in Fetchers \ {f} : waiter'[g] = waiter[g]
    BY <1>1 DEF TypeOK
  <2> QED
    BY <1>1, <2>2, <2>3 DEF ClockIsHealthy, ClockOK, Alive
<1>8. TimeoutWasHealthy'
  BY <1>1 DEF TimeoutWasHealthy
<1> QED
  BY <1>2, <1>3, <1>4, <1>5, <1>6, <1>7, <1>8

\* The polling loop returns the answer it finds.
LEMMA PollDoneStep ==
    ASSUME BridgeInv, TypeOK', NEW f \in Fetchers, PollDone(f)
    PROVE  BridgeInv'
<1> USE DEF BridgeInv, NoJob
<1>1. PICK j \in Jobs :
        /\ j = waiter[f].job /\ j # 0
        /\ fut[j] # Unset
        /\ outcome' = [outcome EXCEPT ![j] = fut[j]]
        /\ waiter' = [waiter EXCEPT ![f] = Idle]
        /\ UNCHANGED <<nJobs, url, ident, pending, assigned, status, fut, hbAge, healthy>>
  BY DEF PollDone, TypeOK, Waiter, queueVars
<1>2. StatusPlaces'
  BY <1>1 DEF StatusPlaces
<1>3. OneWaiterEach'
  BY <1>1 DEF OneWaiterEach, TypeOK, Waiter, Idle, Jobs
<1>4. OpenIsAwaited'
  BY <1>1 DEF OpenIsAwaited, OneWaiterEach, TypeOK, Idle, Jobs
<1>5. AnswerAgrees'
  BY <1>1 DEF AnswerAgrees
<1>6. VerdictAgrees'
  BY <1>1 DEF VerdictAgrees, AnswerAgrees, TypeOK
<1>7. ClockIsHealthy'
  BY <1>1 DEF ClockIsHealthy, ClockOK, TypeOK, Idle, Alive
<1>8. TimeoutWasHealthy'
  BY <1>1 DEF TimeoutWasHealthy, AnswerAgrees, TypeOK
<1> QED
  BY <1>2, <1>3, <1>4, <1>5, <1>6, <1>7, <1>8

\* The polling loop gives up: the job leaves the queue and its outcome is a
\* timeout, which the loop's clock justifies.
LEMMA PollTimeoutStep ==
    ASSUME BridgeInv, TypeOK', NEW f \in Fetchers, PollTimeout(f)
    PROVE  BridgeInv'
<1> USE DEF BridgeInv, NoJob
<1>1. PICK j \in Jobs :
        /\ j = waiter[f].job /\ j # 0
        /\ fut[j] = Unset
        /\ TimesOut(waiter[f])
        /\ outcome' = [outcome EXCEPT ![j] = FailedResult(j, "timeout")]
        /\ waiter' = [waiter EXCEPT ![f] = Idle]
        /\ assigned' = IF assigned = j THEN 0 ELSE assigned
        /\ pending' = IF assigned = j THEN pending ELSE pending \ {j}
        /\ status' = [status EXCEPT ![j] = "failed"]
        /\ UNCHANGED <<nJobs, url, ident, fut, hbAge, healthy>>
  BY DEF PollTimeout, Discard, TypeOK, Waiter
<1>2. /\ FailedResult(j, "timeout") # Unset
      /\ FailedResult(j, "timeout").block = "timeout"
      /\ FailedResult(j, "timeout").ident = ident[j]
  BY UnsetAssumption DEF FailedResult, Result, Blocks, TypeOK
<1>3. StatusPlaces'
  <2>1. status[j] \in {"pending", "assigned"}
    BY <1>1 DEF OpenIsAwaited
  <2>2. status'[j] = "failed" /\ \A i \in Jobs : i # j => status'[i] = status[i]
    BY <1>1 DEF TypeOK
  <2>3. ~(j > nJobs) /\ nJobs' = nJobs
    BY <1>1, <2>1 DEF StatusPlaces
  <2>4. j \notin pending' /\ \A i \in Jobs : i # j => (i \in pending' <=> i \in pending)
    BY <1>1, <2>1 DEF StatusPlaces
  <2>5. assigned' # j /\ \A i \in Jobs : i # j => (assigned' = i <=> assigned = i)
    BY <1>1 DEF Jobs
  <2> QED
    BY <2>2, <2>3, <2>4, <2>5 DEF StatusPlaces
<1>4. OneWaiterEach'
  <2>1. waiter'[f].job = 0 /\ \A g \in Fetchers : g # f => waiter'[g] = waiter[g]
    BY <1>1 DEF TypeOK, Idle
  <2>2. \A g \in Fetchers : g # f => waiter[g].job # j
    BY <1>1 DEF OneWaiterEach
  <2>3. \A i \in Jobs : i # j => outcome'[i] = outcome[i]
    BY <1>1 DEF TypeOK
  <2>4. nJobs \in Nat /\ nJobs' = nJobs /\ \A g \in Fetchers : waiter[g].job \in Jobs \cup {0}
    BY <1>1 DEF TypeOK, Waiter
  <2> QED
    BY <2>1, <2>2, <2>3, <2>4 DEF OneWaiterEach
<1>5. OpenIsAwaited'
  BY <1>1 DEF OpenIsAwaited, OneWaiterEach, TypeOK, Idle, Jobs
<1>6. AnswerAgrees'
  BY <1>1 DEF AnswerAgrees, TypeOK
<1>7. VerdictAgrees'
  BY <1>1, <1>2 DEF VerdictAgrees, TypeOK
<1>8. ClockIsHealthy'
  BY <1>1 DEF ClockIsHealthy, ClockOK, TypeOK, Idle, Alive
<1>9. TimeoutWasHealthy'
  <2>1. LiveTime(healthy[j]) >= Timeout
    <3>1. /\ LiveTime(healthy[j]) \in Nat /\ healthy[j] \in Nat
          /\ LiveTime(healthy[j]) >= healthy[j]
      BY LiveTimeFacts DEF TypeOK
    <3>2. ClockOK(waiter[f])
      BY <1>1 DEF ClockIsHealthy
    <3> QED
      BY <1>1, <3>1, <3>2, BridgeAssumption DEF ClockOK, Covered, TimesOut, Elapsed, TypeOK, Waiter
  <2> QED
    BY <1>1, <2>1 DEF TimeoutWasHealthy, TypeOK, LiveTime
<1> QED
  BY <1>3, <1>4, <1>5, <1>6, <1>7, <1>8, <1>9

\* The polling loop goes on: only its clock moves.
LEMMA PollWaitStep ==
    ASSUME BridgeInv, TypeOK', NEW f \in Fetchers, PollWait(f)
    PROVE  BridgeInv'
<1> USE DEF BridgeInv, NoJob
<1> DEFINE w == waiter[f]
           v == [job |-> w.job, elapsed |-> Elapsed(w), since |-> 0, counting |-> Alive]
<1>1. /\ w \in Waiter /\ w.job \in Jobs /\ w.job # 0
      /\ waiter' = [waiter EXCEPT ![f] = v]
      /\ UNCHANGED <<nJobs, url, ident, pending, assigned, status, fut, hbAge, outcome, healthy>>
  BY DEF PollWait, TypeOK, Waiter, queueVars
<1>2. \A g \in Fetchers : waiter'[g].job = waiter[g].job
  BY <1>1 DEF TypeOK
<1>3. StatusPlaces' /\ AnswerAgrees' /\ VerdictAgrees' /\ TimeoutWasHealthy'
  BY <1>1 DEF StatusPlaces, AnswerAgrees, VerdictAgrees, TimeoutWasHealthy
<1>4. OneWaiterEach'
  BY <1>1, <1>2 DEF OneWaiterEach
<1>5. OpenIsAwaited'
  BY <1>1, <1>2 DEF OpenIsAwaited
<1>6. ClockIsHealthy'
  <2>1. LiveTime(healthy[w.job]) \in Nat
    BY <1>1, LiveTimeFacts DEF TypeOK
  <2>2. ClockOK(w)
    BY <1>1 DEF ClockIsHealthy
  <2>3. Covered(Elapsed(w), healthy[w.job])
    BY <1>1, <2>1, <2>2, BridgeAssumption DEF ClockOK, Covered, Elapsed, Waiter
  <2>4. waiter'[f] = v /\ \A g \in Fetchers \ {f} : waiter'[g] = waiter[g]
    BY <1>1 DEF TypeOK
  <2>5. ClockOK(waiter[f])'
    <3>1. Alive' <=> Alive
      BY <1>1 DEF Alive
    <3>2. /\ waiter'[f].job = w.job /\ waiter'[f].since = 0
          /\ waiter'[f].elapsed = Elapsed(w)
          /\ waiter'[f].counting => Alive
      BY <2>4
    <3> QED
      BY <1>1, <2>3, <3>1, <3>2, BridgeAssumption DEF ClockOK
  <2> QED
    BY <1>1, <2>4, <2>5 DEF ClockIsHealthy, ClockOK, Alive
<1> QED
  BY <1>3, <1>4, <1>5, <1>6

\* GET /jobs/next moves one job from the queue to the in-flight slot.
LEMMA TakeNextStep ==
    ASSUME BridgeInv, TypeOK', TakeNext
    PROVE  BridgeInv'
<1> USE DEF BridgeInv, NoJob
<1>1. PICK j \in pending :
        /\ assigned = 0 /\ assigned' = j
        /\ pending' = pending \ {j}
        /\ status' = [status EXCEPT ![j] = "assigned"]
        /\ UNCHANGED <<nJobs, url, ident, fut, hbAge, waiter, outcome, healthy>>
  BY DEF TakeNext
<1>2. j \in Jobs /\ status[j] = "pending"
  BY DEF TypeOK, StatusPlaces
<1>3. StatusPlaces'
  BY <1>1, <1>2 DEF StatusPlaces, TypeOK, Jobs
<1>4. OneWaiterEach' /\ ClockIsHealthy' /\ TimeoutWasHealthy'
  BY <1>1 DEF OneWaiterEach, ClockIsHealthy, ClockOK, Alive, TimeoutWasHealthy
<1>5. OpenIsAwaited'
  BY <1>1, <1>2 DEF OpenIsAwaited, TypeOK
<1>6. AnswerAgrees'
  BY <1>1, <1>2 DEF AnswerAgrees, TypeOK, Verdicts
<1>7. VerdictAgrees'
  BY <1>1, <1>2 DEF VerdictAgrees, OpenIsAwaited, OneWaiterEach, TypeOK, Jobs
<1> QED
  BY <1>3, <1>4, <1>5, <1>6, <1>7

\* complete, fail and skip: the in-flight job gets its answer and its verdict.
LEMMA AnswerStep ==
    ASSUME BridgeInv, TypeOK', NEW j \in Jobs, NEW res \in Result, NEW st \in Verdicts,
           Answer(j, res, st)
    PROVE  BridgeInv'
<1> USE DEF BridgeInv, NoJob
<1>1. /\ assigned = j /\ fut[j] = Unset
      /\ fut' = [fut EXCEPT ![j] = res]
      /\ assigned' = 0
      /\ status' = [status EXCEPT ![j] = st]
      /\ UNCHANGED <<nJobs, url, ident, pending, hbAge, waiter, outcome, healthy>>
      /\ res.ident = ident[j] /\ (res.block = "none" <=> st = "completed")
      /\ res.block # "timeout" /\ res # Unset
  BY UnsetAssumption DEF Answer, Resolvable, Finish
<1>2. status[j] = "assigned"
  BY <1>1 DEF StatusPlaces
<1>3. StatusPlaces'
  BY <1>1, <1>2 DEF StatusPlaces, TypeOK, Jobs, Verdicts
<1>4. OneWaiterEach' /\ ClockIsHealthy' /\ TimeoutWasHealthy'
  BY <1>1 DEF OneWaiterEach, ClockIsHealthy, ClockOK, Alive, TimeoutWasHealthy
<1>5. OpenIsAwaited'
  BY <1>1, <1>2 DEF OpenIsAwaited, StatusPlaces, TypeOK, Verdicts
<1>6. AnswerAgrees'
  BY <1>1 DEF AnswerAgrees, TypeOK
<1>7. VerdictAgrees'
  BY <1>1, <1>2 DEF VerdictAgrees, OpenIsAwaited, OneWaiterEach, TypeOK, Jobs
<1> QED
  BY <1>3, <1>4, <1>5, <1>6, <1>7

\* Time passes: a loop that counts began its interval with a live browser.
LEMMA TickStep ==
    ASSUME BridgeInv, TypeOK', Tick
    PROVE  BridgeInv'
<1> USE DEF BridgeInv, NoJob
<1>1. /\ \A f \in Fetchers :
           /\ waiter[f].job = 0 => waiter'[f] = waiter[f]
           /\ waiter[f].job # 0 => /\ waiter[f].since < PollGap
                                   /\ waiter'[f] = [waiter[f] EXCEPT !.since = @ + 1]
      /\ UNCHANGED <<nJobs, url, ident, pending, assigned, status, fut, outcome>>
  BY DEF Tick, TypeOK, queueVars
<1>2. \A f \in Fetchers : waiter'[f].job = waiter[f].job
  BY <1>1 DEF TypeOK, Waiter
<1>3. \A j \in Jobs : healthy[j] \in Nat /\ healthy'[j] \in {healthy[j], healthy[j] + 1}
  BY DEF Tick, TypeOK
<1>4. \A j \in Jobs : LiveTime(healthy'[j]) >= LiveTime(healthy[j])
  <2> TAKE j \in Jobs
  <2> QED
    BY <1>3, LiveTimeFacts, BridgeAssumption
<1>5. StatusPlaces' /\ AnswerAgrees' /\ VerdictAgrees'
  BY <1>1 DEF StatusPlaces, AnswerAgrees, VerdictAgrees
<1>6. OneWaiterEach'
  BY <1>1, <1>2 DEF OneWaiterEach
<1>7. OpenIsAwaited'
  BY <1>1, <1>2 DEF OpenIsAwaited
<1>8. ClockIsHealthy'
  <2> SUFFICES ASSUME NEW f \in Fetchers, waiter'[f].job # 0 PROVE ClockOK(waiter[f])'
    BY DEF ClockIsHealthy
  <2> DEFINE w == waiter[f]
             h == healthy[w.job]
             hh == healthy'[w.job]
  <2>1. w \in Waiter /\ w.job \in Jobs /\ w.job # 0
    BY <1>2 DEF TypeOK, Waiter
  <2>2. /\ waiter'[f].job = w.job /\ waiter'[f].elapsed = w.elapsed
        /\ waiter'[f].since = w.since + 1 /\ waiter'[f].counting = w.counting
        /\ w.since < PollGap
    BY <1>1, <2>1 DEF Waiter
  <2>3. ClockOK(w)
    BY <2>1 DEF ClockIsHealthy
  <2>4. /\ h \in Nat /\ hh \in Nat /\ hh >= h
        /\ LiveTime(h) \in Nat /\ LiveTime(hh) \in Nat /\ LiveTime(hh) >= LiveTime(h)
    BY <1>3, <1>4, <2>1, LiveTimeFacts
  <2>5. (w.counting /\ w.since = 0) => \/ hh >= Timeout
                                        \/ LiveTime(hh) = LiveTime(h) + PollGap
    <3> SUFFICES ASSUME w.counting, w.since = 0 PROVE hh >= Timeout \/ hh = h + 1
      BY <1>3, <2>1, LiveTimeFacts
    <3>1. Alive
      BY <2>3 DEF ClockOK
    <3> QED
      BY <2>1, <2>4, <3>1, BridgeAssumption DEF Tick, Waiting, TypeOK
  <2>6. w.counting => Covered(w.elapsed + PollGap, hh)
    BY <2>1, <2>3, <2>4, <2>5, BridgeAssumption DEF ClockOK, Covered, Waiter
  <2> QED
    BY <2>1, <2>2, <2>3, <2>4, <2>6, BridgeAssumption DEF ClockOK, Covered, Waiter
<1>9. TimeoutWasHealthy'
  <2> SUFFICES ASSUME NEW j \in Jobs, outcome[j] # Unset, outcome[j].block = "timeout"
               PROVE  LiveTime(healthy'[j]) >= Timeout
    BY <1>1 DEF TimeoutWasHealthy, LiveTime
  <2>1. LiveTime(healthy[j]) >= Timeout
    BY DEF TimeoutWasHealthy, LiveTime
  <2>2. LiveTime(healthy[j]) \in Nat /\ LiveTime(healthy'[j]) \in Nat
    BY <1>3, LiveTimeFacts
  <2> QED
    BY <1>4, <2>1, <2>2, BridgeAssumption
<1> QED
  BY <1>5, <1>6, <1>7, <1>8, <1>9

\* The invariant is inductive.
LEMMA InvStep ==
    ASSUME BridgeInv, [Next]_vars
    PROVE  BridgeInv'
<1>1. TypeOK /\ TypeOK'
  BY TypeStep DEF BridgeInv
<1>2. ASSUME NEW j \in Jobs, NEW u \in Urls, Override(j, u) PROVE BridgeInv'
  BY <1>1, <1>2 DEF BridgeInv, Override, queueVars, StatusPlaces, OneWaiterEach,
     OpenIsAwaited, AnswerAgrees, VerdictAgrees, ClockIsHealthy, ClockOK, Alive,
     TimeoutWasHealthy
<1>3. CASE Heartbeat
  <2>1. StatusPlaces' /\ OneWaiterEach' /\ OpenIsAwaited' /\ AnswerAgrees'
        /\ VerdictAgrees' /\ TimeoutWasHealthy'
    BY <1>3 DEF BridgeInv, Heartbeat, queueVars, StatusPlaces, OneWaiterEach,
       OpenIsAwaited, AnswerAgrees, VerdictAgrees, TimeoutWasHealthy
  <2>2. ClockIsHealthy'
    BY <1>3, BridgeAssumption DEF BridgeInv, Heartbeat, ClockIsHealthy, ClockOK, Alive
  <2> QED
    BY <1>1, <2>1, <2>2 DEF BridgeInv
<1>4. CASE UNCHANGED vars
  BY <1>1, <1>4 DEF BridgeInv, vars, StatusPlaces, OneWaiterEach,
     OpenIsAwaited, AnswerAgrees, VerdictAgrees, ClockIsHealthy, ClockOK, Alive,
     TimeoutWasHealthy
<1> QED
  BY <1>1, <1>2, <1>3, <1>4, StepCases, FetchStep, PollDoneStep, PollTimeoutStep,
     PollWaitStep, TakeNextStep, AnswerStep, TickStep

-----------------------------------------------------------------------------
\* Type correctness of the bridge, for any number of fetchers and jobs.
THEOREM TypeCorrect == Spec => []TypeOK
<1>1. Init => TypeOK
  BY InitInv DEF BridgeInv
<1>2. TypeOK /\ [Next]_vars => TypeOK'
  BY TypeStep
<1> QED
  BY <1>1, <1>2, PTL DEF Spec

\* The inductive invariant holds of every reachable state.
THEOREM Invariance == Spec => []BridgeInv
<1>1. BridgeInv /\ [Next]_vars => BridgeInv'
  BY InvStep
<1> QED
  BY InitInv, <1>1, PTL DEF Spec

\* take_next never hands out a job nobody awaits and no waiting fetch loses
\* its job, however timeouts, answers and hand-outs interleave.
THEOREM NoOrphans == Spec => []NoOrphanJob
<1>1. BridgeInv => NoOrphanJob
  BY DEF BridgeInv, StatusPlaces, OpenIsAwaited, NoOrphanJob, Waiting
<1> QED
  BY <1>1, Invariance, PTL

\* fetch() returns what the queue recorded, under the identity it was asked for.
THEOREM VerdictsAgree == Spec => []VerdictAgrees
<1>1. BridgeInv => VerdictAgrees
  BY DEF BridgeInv
<1> QED
  BY <1>1, Invariance, PTL

\* A timeout is reported only after the promised time with a live browser.
THEOREM TimeoutsAreHealthy == Spec => []TimeoutWasHealthy
<1>1. BridgeInv => TimeoutWasHealthy
  BY DEF BridgeInv
<1> QED
  BY <1>1, Invariance, PTL

\* A verdict, once given, is never changed by a late or repeated call.
THEOREM VerdictsFinal == Spec => VerdictFinal
<1> DEFINE Keep == \A j \in Jobs : status[j] \in Verdicts
          => /\ status'[j] = status[j]
             /\ fut'[j] = fut[j]
             /\ outcome[j] # Unset => outcome'[j] = outcome[j]
<1>1. BridgeInv /\ [Next]_vars => [Keep]_vars
  <2> SUFFICES ASSUME BridgeInv, [Next]_vars PROVE Keep
    OBVIOUS
  <2> SUFFICES ASSUME NEW j \in Jobs, status[j] \in Verdicts
               PROVE  /\ status'[j] = status[j] /\ fut'[j] = fut[j]
                      /\ outcome[j] # Unset => outcome'[j] = outcome[j]
    OBVIOUS
  <2> USE DEF BridgeInv
  <2>1. /\ TypeOK /\ j <= nJobs /\ j \notin pending /\ assigned # j
        /\ \A f \in Fetchers : waiter[f].job = j => fut[j] # Unset /\ outcome[j] = Unset
    BY DEF StatusPlaces, OpenIsAwaited, OneWaiterEach, Verdicts, TypeOK, Jobs, NoJob
  <2>2. ASSUME NEW f \in Fetchers, NEW u \in Urls, Fetch(f, u)
        PROVE  status'[j] = status[j] /\ UNCHANGED <<fut, outcome>>
    BY <2>1, <2>2 DEF Fetch, TypeOK, Jobs
  <2>3. ASSUME NEW f \in Fetchers, PollDone(f)
        PROVE  /\ UNCHANGED <<status, fut>>
               /\ outcome[j] # Unset => outcome'[j] = outcome[j]
    BY <2>1, <2>3 DEF PollDone, queueVars, TypeOK
  <2>4. ASSUME NEW f \in Fetchers, PollTimeout(f)
        PROVE  /\ status'[j] = status[j] /\ UNCHANGED fut
               /\ outcome'[j] = outcome[j]
    BY <2>1, <2>4 DEF PollTimeout, Discard, TypeOK
  <2>5. ASSUME NEW f \in Fetchers, PollWait(f) PROVE UNCHANGED <<status, fut, outcome>>
    BY <2>5 DEF PollWait, queueVars
  <2>6. CASE TakeNext
    BY <2>1, <2>6 DEF TakeNext, TypeOK
  <2>7. ASSUME NEW i \in Jobs, NEW res \in Result, NEW st \in Verdicts, Answer(i, res, st)
        PROVE  status'[j] = status[j] /\ fut'[j] = fut[j] /\ UNCHANGED outcome
    BY <2>1, <2>7 DEF Answer, Resolvable, Finish, TypeOK
  <2>8. ASSUME NEW i \in Jobs, NEW u \in Urls, Override(i, u)
        PROVE  UNCHANGED <<status, fut, outcome>>
    BY <2>8 DEF Override, queueVars
  <2>9. Heartbeat \/ Tick \/ UNCHANGED vars => UNCHANGED <<status, fut, outcome>>
    BY DEF Heartbeat, Tick, queueVars, vars
  <2> QED
    BY StepCases, <2>1, <2>2, <2>3, <2>4, <2>5, <2>6, <2>7, <2>8, <2>9
<1> QED
  BY <1>1, Invariance, PTL DEF Spec, VerdictFinal

\* Every job is counted once: each step moves a job between the queue, the
\* slot and one lifetime counter, and none is counted by both a timeout and a
\* late answer.
THEOREM CountedOnce == Spec => []JobsCountedOnce
<1> USE DEF NoJob
<1>1. ASSUME TypeOK
      PROVE  /\ IsFiniteSet(pending) /\ Cardinality(pending) \in Nat
             /\ ClosedCount \in Nat
  <2>1. IsFiniteSet(pending)
    <3>1. IsFiniteSet(Jobs)
      BY FS_Interval, BridgeAssumption DEF Jobs
    <3>2. pending \in SUBSET Jobs
      BY <1>1 DEF TypeOK
    <3> QED
      BY <3>1, <3>2, FS_Subset
  <2> QED
    BY <1>1, <2>1, FS_CardinalityType DEF TypeOK, ClosedCount, Verdicts
<1>2. Init => JobsCountedOnce
  BY FS_EmptySet DEF Init, JobsCountedOnce, OpenCount, ClosedCount, Verdicts
<1>3. BridgeInv /\ JobsCountedOnce /\ [Next]_vars => JobsCountedOnce'
  <2> SUFFICES ASSUME BridgeInv, nJobs = OpenCount + ClosedCount, [Next]_vars
               PROVE  nJobs' = OpenCount' + ClosedCount'
    BY DEF JobsCountedOnce
  <2> USE DEF BridgeInv
  <2>1. IsFiniteSet(pending) /\ Cardinality(pending) \in Nat /\ ClosedCount \in Nat
    BY <1>1
  <2>2. ASSUME NEW f \in Fetchers, NEW u \in Urls, Fetch(f, u)
        PROVE  nJobs' = OpenCount' + ClosedCount'
    <3>1. nJobs + 1 \notin pending /\ nJobs \in Nat
      BY <2>2 DEF StatusPlaces, TypeOK, Fetch, Jobs
    <3>2. pending' = pending \cup {nJobs + 1} /\ nJobs' = nJobs + 1 /\ UNCHANGED <<assigned, stats>>
      BY <2>2 DEF Fetch
    <3>3. Cardinality(pending') = Cardinality(pending) + 1
      BY <2>1, <3>1, <3>2, FS_AddElement
    <3> QED
      BY <2>1, <3>1, <3>2, <3>3 DEF OpenCount, ClosedCount
  <2>3. ASSUME NEW f \in Fetchers, PollTimeout(f)
        PROVE  nJobs' = OpenCount' + ClosedCount'
    <3>1. PICK j \in Jobs :
            /\ assigned' = IF assigned = j THEN 0 ELSE assigned
            /\ pending' = IF assigned = j THEN pending ELSE pending \ {j}
            /\ stats' = [stats EXCEPT !["failed"] = @ + 1]
            /\ nJobs' = nJobs /\ j = waiter[f].job /\ fut[j] = Unset
      BY <2>3 DEF PollTimeout, Discard, TypeOK, Waiter
    <3> assigned = j \/ j \in pending
      BY <3>1 DEF StatusPlaces, OpenIsAwaited
    <3>2. ClosedCount' = ClosedCount + 1
      BY <3>1 DEF ClosedCount, TypeOK, Verdicts
    <3>3. j # 0
      BY DEF Jobs
    <3>4. CASE assigned = j
      BY <2>1, <3>1, <3>2, <3>3, <3>4 DEF OpenCount
    <3>5. CASE assigned # j
      <4>1. Cardinality(pending') = Cardinality(pending) - 1 /\ assigned' = assigned
        BY <2>1, <3>1, <3>5, FS_RemoveElement
      <4> QED
        BY <2>1, <3>1, <3>2, <3>5, <4>1 DEF OpenCount
    <3> QED
      BY <3>4, <3>5
  <2>4. CASE TakeNext
    <3>1. PICK j \in pending :
            /\ assigned = 0 /\ assigned' = j /\ pending' = pending \ {j}
            /\ UNCHANGED <<nJobs, stats>>
      BY <2>4 DEF TakeNext
    <3>2. Cardinality(pending') = Cardinality(pending) - 1
      BY <2>1, <3>1, FS_RemoveElement
    <3>3. j # 0
      BY DEF TypeOK, Jobs
    <3> QED
      BY <2>1, <3>1, <3>2, <3>3 DEF OpenCount, ClosedCount
  <2>5. ASSUME NEW j \in Jobs, NEW res \in Result, NEW st \in Verdicts, Answer(j, res, st)
        PROVE  nJobs' = OpenCount' + ClosedCount'
    <3>1. /\ assigned = j /\ j # 0 /\ assigned' = 0
          /\ stats' = [stats EXCEPT ![st] = @ + 1]
          /\ UNCHANGED <<nJobs, pending>>
      BY <2>5 DEF Answer, Resolvable, Finish, Jobs
    <3>2. ClosedCount' = ClosedCount + 1
      BY <3>1 DEF ClosedCount, TypeOK, Verdicts
    <3> QED
      BY <2>1, <3>1, <3>2 DEF OpenCount
  <2>6. ASSUME UNCHANGED <<nJobs, pending, assigned, stats>>
        PROVE  nJobs' = OpenCount' + ClosedCount'
    BY <2>6 DEF OpenCount, ClosedCount
  <2>7. ASSUME NEW f \in Fetchers, PollDone(f) \/ PollWait(f)
        PROVE  UNCHANGED <<nJobs, pending, assigned, stats>>
    BY <2>7 DEF PollDone, PollWait, queueVars
  <2>8. ASSUME NEW j \in Jobs, NEW u \in Urls, Override(j, u)
        PROVE  UNCHANGED <<nJobs, pending, assigned, stats>>
    BY <2>8 DEF Override, queueVars
  <2>9. Heartbeat \/ Tick \/ UNCHANGED vars => UNCHANGED <<nJobs, pending, assigned, stats>>
    BY DEF Heartbeat, Tick, queueVars, vars
  <2> QED
    BY StepCases, <2>2, <2>3, <2>4, <2>5, <2>6, <2>7, <2>8, <2>9
<1> QED
  BY <1>2, <1>3, Invariance, PTL DEF Spec

-----------------------------------------------------------------------------
(* The browser's controller: its inductive invariant.                       *)

\* Documents whose content script has reported: nothing on its way says that they are ready.
Reported ==
    {d \in 1..Len(requests) :
        /\ loading # None => d # loading
        /\ \A m \in net : m.event = "ready" => m.doc # d}

\* Documents that were asked to submit their form.
Asked == submitted \cup {r.doc : r \in {x \in inbox : x.op = "perform"}}

StateFields == {"bound", "auto", "paused", "job", "phase", "nav", "rpc"}
NavFields   == {"job", "url", "at", "attempt", "kind", "source", "request", "commit", "http",
                "ready", "effect"}
RpcFields   == {"id", "job", "op", "doc", "at", "resends"}

IsState(s) == s = [x \in StateFields |-> s[x]]
IsNav(n)   == n = [x \in NavFields |-> n[x]]
IsRpc(r)   == r = [x \in RpcFields |-> r[x]]

\* The navigation of a state.
NavSound(n, rep, ask) ==
    /\ IsNav(n)
    /\ n.commit # None => n.commit.doc # None
    /\ n.kind = "form_action" => n.source # None
    /\ n.kind = "navigate" /\ n.ready # None => n.ready.doc \in rep \ ask

\* The pending RPC of a state.
RpcSound(s, acc, rep, ask) ==
    /\ IsRpc(s.rpc)
    /\ s.rpc.doc # None
    /\ s.rpc.op = "capture" => [url |-> s.job.url, doc |-> s.rpc.doc] \in acc
    /\ s.rpc.op = "prepare" => s.rpc.doc \in rep \ ask

Sound(s, acc, rep, ask) ==
    /\ IsState(s)
    /\ Correlated(s)
    /\ s.job # None => s.job \in CachedJob /\ s.job.url.job = s.job.id
    /\ s.nav # None => NavSound(s.nav, rep, ask)
    /\ s.rpc # None => RpcSound(s, acc, rep, ask)

\* A message to the content script may follow.
MaySend(s, rep, ask) ==
    /\ s.job # None
    /\ s.rpc.job \in FetchJobs
    /\ s.rpc.op = "perform" => s.rpc.doc \in rep \ ask /\ s.nav.kind = "form_action"

PageUrls == [job : FetchJobs \cup {None}, at : {"list", "moved", "form", "link"}]

IsOpen(a) == a.await = "update" /\ a = Open(a.url) /\ a.url \in PageUrls
IsPost(a) == a.await = "post" /\ a = Post(a.verdict, a.job, a.doc)
IsBecome(a, acc, rep, ask) ==
    a.await = "become" /\ a = Become(a.state) /\ Sound(a.state, acc, rep, ask)

\* The awaits a handler leaves: the state is saved by the last one that changes it.
Fresh(s, q, acc, rep, ask) ==
    \/ q \in {<<Save>>, <<Save, Become(s)>>}
    \/ Len(q) = 2 /\ q = <<Save, q[2]>> /\ IsOpen(q[2])
    \/ q \in {<<Save, Send>>, <<Save, Resend>>} /\ MaySend(s, rep, ask)
    \/ Len(q) = 2 /\ q = <<q[1], Save>> /\ IsPost(q[1]) /\ q[1].verdict # "completed"
    \/ /\ Len(q) = 3 /\ q = <<q[1], q[2], Save>> /\ IsPost(q[1]) /\ IsBecome(q[2], acc, rep, ask)
       /\ q[1].verdict = "completed" => [url |-> s.job.url, doc |-> q[1].doc] \in acc
    \/ /\ Len(q) = 4 /\ q = <<Save, q[2], Save, Send>>
       /\ IsBecome(q[2], acc, rep, ask) /\ MaySend(q[2].state, rep, ask)

\* What is left of them later.
Later(s, q, acc, rep, ask) ==
    \/ Len(q) = 2 /\ q = <<q[1], Save>> /\ IsBecome(q[1], acc, rep, ask)
    \/ /\ Len(q) = 3 /\ q = <<q[1], Save, Send>>
       /\ IsBecome(q[1], acc, rep, ask) /\ MaySend(q[1].state, rep, ask)

\* The state is saved.
Saved(s, q, rep, ask) ==
    \/ q \in {<<>>, <<Become(s)>>}
    \/ Len(q) = 1 /\ q = <<q[1]>> /\ IsOpen(q[1])
    \/ q \in {<<Send>>, <<Resend>>} /\ MaySend(s, rep, ask)

InHand(s, dk, q, acc, rep, ask) ==
    \/ dk = s /\ Saved(s, q, rep, ask)
    \/ Fresh(s, q, acc, rep, ask)
    \/ Later(s, q, acc, rep, ask)

Reports ==
    /\ slot \in FetchJobs \cup {None}
    /\ requests \in Seq(PageUrls)
    /\ loading # None => loading \in 1..Len(requests)
    /\ \A m \in net : m.event = "commit" => m.doc # None
    /\ \A m \in net : m.event = "ready" => 
         m.doc \in 1..Len(requests) /\ (loading # None => m.doc # loading)
    /\ \A m, n \in net : m.event = "ready" /\ n.event = "ready" /\ m.doc = n.doc => m = n

Forms ==
    /\ \A r \in inbox : r.job \in FetchJobs
    /\ Asked \subseteq Reported
    /\ \A r, t \in inbox : r.op = "perform" /\ t.op = "perform" /\ r.doc = t.doc => r = t

ControllerInv ==
    /\ Sound(mem, accepted, Reported, Asked)
    /\ Sound(disk, accepted, Reported, Asked)
    /\ InHand(mem, disk, todo, accepted, Reported, Asked)
    /\ Reports /\ Forms /\ OneSubmitPerPage

-----------------------------------------------------------------------------
(* What the controller's handlers make of a sound state.                    *)

LEMMA AppendOne ==
    ASSUME NEW a, NEW b
    PROVE  Append(<<a>>, b) = <<a, b>>
<1> DEFINE S == {a, b}
<1>1. <<a>> \in Seq(S) /\ <<a, b>> \in Seq(S) /\ b \in S
  OBVIOUS
<1> HIDE DEF S
<1>2. Append(<<a>>, b) \in Seq(S) /\ Len(Append(<<a>>, b)) = 2
  BY <1>1
<1>3. \A i \in 1..2 : Append(<<a>>, b)[i] = <<a, b>>[i]
  BY <1>1
<1>4. Len(<<a, b>>) = 2
  OBVIOUS
<1> QED BY <1>1, <1>2, <1>3, <1>4, SeqEqual

LEMMA ConcatPairs ==
    ASSUME NEW a, NEW b, NEW c, NEW e
    PROVE  <<a, b>> \o <<c, e>> = <<a, b, c, e>>
<1> DEFINE S == {a, b, c, e}
<1>1. <<a, b>> \in Seq(S) /\ <<c, e>> \in Seq(S) /\ <<a, b, c, e>> \in Seq(S)
  OBVIOUS
<1> HIDE DEF S
<1>2. <<a, b>> \o <<c, e>> \in Seq(S) /\ Len(<<a, b>> \o <<c, e>>) = 4
  BY <1>1
<1>3. \A i \in 1..4 : (<<a, b>> \o <<c, e>>)[i] = <<a, b, c, e>>[i]
  BY <1>1
<1>4. Len(<<a, b, c, e>>) = 4
  OBVIOUS
<1> QED BY <1>1, <1>2, <1>3, <1>4, SeqEqual

LEMMA ConcatNothing ==
    ASSUME NEW a, NEW b
    PROVE  <<a, b>> \o <<>> = <<a, b>>
<1>1. <<a, b>> \in Seq({a, b})
  OBVIOUS
<1> QED BY <1>1, ConcatEmptySeq

LEMMA UrlsOfJobs ==
    ASSUME NEW c \in CachedJob
    PROVE  c.id \in FetchJobs /\ c.url \in PageUrls /\ c.url.job \in FetchJobs /\ c # None
BY NoneAssumption DEF CachedJob, PageUrls

LEMMA SoundStays ==
    ASSUME NEW s, NEW acc, NEW rep, NEW ask, NEW acc2, NEW rep2, NEW ask2,
           Sound(s, acc, rep, ask), rep \subseteq rep2, ask2 \subseteq ask,
           s.rpc # None => \A dc : [url |-> s.job.url, doc |-> dc] \in acc
                             => [url |-> s.job.url, doc |-> dc] \in acc2
    PROVE  Sound(s, acc2, rep2, ask2)
BY DEF Sound, RpcSound, NavSound

LEMMA LandingKinds ==
    ASSUME NEW n
    PROVE  /\ evaluateLanding(n) \in {StillWaiting, Landed, Terminal}
                \/ evaluateLanding(n).kind = "retry"
           /\ evaluateLanding(n).kind \in {"waiting", "landed", "skip", "retry"}
           /\ evaluateLanding(n).kind = "landed" =>
                /\ n.commit # None /\ n.ready # None
                /\ n.ready.doc = n.commit.doc
BY DEF evaluateLanding, StillWaiting, Landed, Terminal, Retry

LEMMA FunnelDecisions ==
    ASSUME NEW o, NEW a
    PROVE  funnelDecision(o, a) \in {"skip", "fail", "retry_navigate"}
BY DEF funnelDecision

\* What an operation leaves to be done, before the handler's own save.
Work(d, acc, rep, ask) ==
    /\ d = Do(d.state, d.todo)
    /\ Sound(d.state, acc, rep, ask)
    /\ \/ d.todo = <<>>
       \/ d.todo = <<Save, Open(d.state.job.url)>> /\ d.state.job # None
       \/ d.todo = <<Save, Send>> /\ MaySend(d.state, rep, ask)
       \/ \E v, j : v # "completed" /\ d.todo = <<Post(v, j, None)>>

\* What a handler leaves to be done.
Handled(d, acc, rep, ask) ==
    /\ Sound(d.state, acc, rep, ask)
    /\ Fresh(d.state, d.todo, acc, rep, ask)

LEMMA DoFields ==
    ASSUME NEW s, NEW q
    PROVE  /\ Do(s, q).state = s /\ Do(s, q).todo = q
           /\ Do(s, q) = Do(Do(s, q).state, Do(s, q).todo)
BY DEF Do

LEMMA NavigationSound ==
    ASSUME NEW j, NEW u, NEW t, NEW a, NEW k, NEW dc, NEW rep, NEW ask,
           k = "form_action" => dc # None
    PROVE  /\ NavSound(Navigation(j, u, t, a, k, dc), rep, ask)
           /\ Navigation(j, u, t, a, k, dc).job = j
           /\ Navigation(j, u, t, a, k, dc).kind = k
BY DEF Navigation, NavSound, IsNav, NavFields

LEMMA NavigateWorks ==
    ASSUME NEW s, NEW a, NEW acc, NEW rep, NEW ask, Sound(s, acc, rep, ask)
    PROVE  /\ Work(navigateNow(s, a), acc, rep, ask)
           /\ navigateNow(s, a).state.job = s.job
           /\ navigateNow(s, a).state.rpc = s.rpc
<1> DEFINE n == Navigation(s.job.id, s.job.url, Now, a, "navigate", None)
           t == [s EXCEPT !.nav = n, !.phase = "navigating"]
<1>1. CASE s.job = None \/ ~s.bound \/ s.paused \/ ~s.auto
  <2>1. navigateNow(s, a) = Do(s, <<>>)
    BY <1>1 DEF navigateNow
  <2> QED BY <2>1, DoFields DEF Work
<1>2. CASE ~(s.job = None \/ ~s.bound \/ s.paused \/ ~s.auto)
  <2>1. navigateNow(s, a) = Do(t, <<Save, Open(s.job.url)>>)
    BY <1>2 DEF navigateNow
  <2>2. NavSound(n, rep, ask) /\ n.job = s.job.id
    BY NavigationSound
  <2> HIDE DEF n
  <2>3. /\ IsState(t) /\ t.job = s.job /\ t.rpc = s.rpc /\ t.nav = n
        /\ t.phase = "navigating"
    BY DEF Sound, IsState, StateFields
  <2>4. Sound(t, acc, rep, ask)
    BY <1>2, <2>2, <2>3 DEF Sound, RpcSound, Correlated
  <2> HIDE DEF t
  <2> QED BY <1>2, <2>1, <2>3, <2>4, DoFields DEF Work
<1> QED BY <1>1, <1>2

\* A state with a navigation of its job.
Navigating(s, rep, ask) == s.job # None /\ NavSound(s.nav, rep, ask) /\ s.nav.job = s.job.id

LEMMA RetryWorks ==
    ASSUME NEW s, NEW acc, NEW rep, NEW ask, Sound(s, acc, rep, ask), Navigating(s, rep, ask)
    PROVE  /\ Work(RetryNavigation(s), acc, rep, ask)
           /\ RetryNavigation(s).state.job = s.job
           /\ RetryNavigation(s).state.rpc = s.rpc
<1> DEFINE n == [ClearSignals(s.nav) EXCEPT !.attempt = @ + 1, !.at = Now]
           t == [s EXCEPT !.nav = n]
<1>1. /\ IsNav(ClearSignals(s.nav)) /\ ClearSignals(s.nav).commit = None
      /\ ClearSignals(s.nav).ready = None /\ ClearSignals(s.nav).job = s.nav.job
      /\ ClearSignals(s.nav).kind = s.nav.kind /\ ClearSignals(s.nav).source = s.nav.source
  BY DEF ClearSignals, Navigating, NavSound, IsNav, NavFields
<1>2. NavSound(n, rep, ask) /\ n.job = s.nav.job
  BY <1>1 DEF Navigating, NavSound, IsNav, NavFields
<1> HIDE DEF n
<1>3. IsState(t) /\ t.job = s.job /\ t.rpc = s.rpc /\ t.nav = n /\ t.phase = s.phase
  BY DEF Sound, IsState, StateFields
<1>4. Sound(t, acc, rep, ask)
  BY <1>2, <1>3 DEF Sound, RpcSound, Correlated, Navigating
<1>5. RetryNavigation(s) = navigateNow(t, n.attempt)
  BY DEF RetryNavigation, n
<1> HIDE DEF t
<1> QED BY <1>3, <1>4, <1>5, NavigateWorks

\* The state that awaits a message to the document dc.
Asking(s, op, dc, t, ph) == [s EXCEPT !.rpc = PendingRpc(s, op, dc, t), !.phase = ph]

LEMMA AskingJob ==
    ASSUME NEW s, NEW op, NEW dc, NEW t, NEW ph, IsState(s)
    PROVE  Asking(s, op, dc, t, ph).job = s.job
BY DEF Asking, IsState, StateFields

LEMMA DispatchWorks ==
    ASSUME NEW s, NEW op, NEW dc, NEW t, NEW ph, NEW acc, NEW rep, NEW ask,
           Sound(s, acc, rep, ask), s.job # None, dc # None,
           \/ /\ op = "capture"
              /\ PendingRpc(s, op, dc, t) # None => [url |-> s.job.url, doc |-> dc] \in acc
           \/ op = "prepare" /\ dc \in rep /\ dc \notin ask
    PROVE  /\ Sound(Asking(s, op, dc, t, ph), acc, rep, ask)
           /\ MaySend(Asking(s, op, dc, t, ph), rep, ask)
<1> DEFINE r == PendingRpc(s, op, dc, t)
           u == [s EXCEPT !.rpc = r, !.phase = ph]
<1>1. IsRpc(r) /\ r.id = FreshRpc /\ r.job = s.job.id /\ r.op = op /\ r.doc = dc
  BY DEF PendingRpc, IsRpc, RpcFields
<1> HIDE DEF r
<1>2. IsState(u) /\ u.job = s.job /\ u.rpc = r /\ u.nav = s.nav /\ u.phase = ph
  BY DEF Sound, IsState, StateFields
<1> HIDE DEF u
<1>3. s.job.id \in FetchJobs
  BY UrlsOfJobs DEF Sound
<1>4. Sound(u, acc, rep, ask)
  BY <1>1, <1>2 DEF Sound, RpcSound, Correlated, r
<1>5. MaySend(u, rep, ask)
  BY <1>1, <1>2, <1>3 DEF MaySend
<1> QED BY <1>1, <1>2, <1>4, <1>5 DEF u, r, Asking

\* The page of the RPC that an operation dispatches has been accepted for the URL u.
Granted(d, u, acc) ==
    d.state.rpc # None /\ d.state.rpc.id = FreshRpc
        => [url |-> u, doc |-> d.state.rpc.doc] \in acc

LEMMA CaptureWorks ==
    ASSUME NEW s, NEW dc, NEW acc, NEW rep, NEW ask, Sound(s, acc, rep, ask),
           Granted(dispatchCaptureFromDocument(s, dc), s.job.url, acc)
    PROVE  /\ Work(dispatchCaptureFromDocument(s, dc), acc, rep, ask)
           /\ dispatchCaptureFromDocument(s, dc).state.job = s.job
<1> DEFINE u == Asking(s, "capture", dc, 0, "capturing")
<1>1. CASE s.job = None \/ ~s.bound \/ dc = None
  <2>1. dispatchCaptureFromDocument(s, dc) = Do(s, <<>>)
    BY <1>1 DEF dispatchCaptureFromDocument
  <2> QED BY <2>1, DoFields DEF Work
<1>2. CASE ~(s.job = None \/ ~s.bound \/ dc = None)
  <2>1. dispatchCaptureFromDocument(s, dc) = Do(u, <<Save, Send>>)
    BY <1>2 DEF dispatchCaptureFromDocument, Asking
  <2>2. u.job = s.job /\ u.rpc = PendingRpc(s, "capture", dc, 0)
    BY DEF Sound, Asking, IsState, StateFields
  <2>3. u.rpc.id = FreshRpc /\ u.rpc.doc = dc
    BY <2>2 DEF PendingRpc
  <2>4. PendingRpc(s, "capture", dc, 0) # None => [url |-> s.job.url, doc |-> dc] \in acc
    <3> HIDE DEF u
    <3> QED BY <2>1, <2>2, <2>3, DoFields DEF Granted
  <2>5. Sound(u, acc, rep, ask) /\ MaySend(u, rep, ask)
    BY <1>2, <2>4, DispatchWorks
  <2> HIDE DEF u
  <2> QED BY <2>1, <2>2, <2>5, DoFields DEF Work
<1> QED BY <1>1, <1>2

LEMMA PrepareDispatch ==
    ASSUME NEW s, NEW dc, NEW t, NEW ph, NEW acc, NEW rep, NEW ask,
           Sound(s, acc, rep, ask), s.job # None, dc # None, dc \in rep, dc \notin ask
    PROVE  /\ Sound(Asking(s, "prepare", dc, t, ph), acc, rep, ask)
           /\ MaySend(Asking(s, "prepare", dc, t, ph), rep, ask)
BY DispatchWorks

LEMMA PrepareWorks ==
    ASSUME NEW s, NEW acc, NEW rep, NEW ask, Sound(s, acc, rep, ask), Navigating(s, rep, ask),
           s.nav.commit # None, s.nav.commit.doc \in rep, s.nav.commit.doc \notin ask
    PROVE  /\ Work(prepareFormActionDispatch(s), acc, rep, ask)
           /\ prepareFormActionDispatch(s).state.job = s.job
<1> DEFINE u == Asking(s, "prepare", s.nav.commit.doc, Now, "acting")
<1>1. CASE s.job = None \/ ~s.bound
  <2>1. prepareFormActionDispatch(s) = Do(s, <<>>)
    BY <1>1 DEF prepareFormActionDispatch
  <2> QED BY <2>1, DoFields DEF Work
<1>2. CASE ~(s.job = None \/ ~s.bound)
  <2>1. prepareFormActionDispatch(s) = Do(u, <<Save, Send>>)
    BY <1>2 DEF prepareFormActionDispatch, Asking
  <2>2. s.nav.commit.doc # None
    BY DEF Navigating, NavSound
  <2>3. u.job = s.job
    BY AskingJob DEF Sound
  <2>4. Sound(u, acc, rep, ask) /\ MaySend(u, rep, ask)
    BY <1>2, <2>2, PrepareDispatch
  <2> HIDE DEF u
  <2> QED BY <2>1, <2>3, <2>4, DoFields DEF Work
<1> QED BY <1>1, <1>2

LEMMA GiveUpWorks ==
    ASSUME NEW s, NEW v, NEW acc, NEW rep, NEW ask, Sound(s, acc, rep, ask), s.job # None,
           v # "completed"
    PROVE  /\ Work(GiveUp(s, v), acc, rep, ask)
           /\ GiveUp(s, v).state.job = s.job
           /\ GiveUp(s, v).state.rpc = s.rpc
<1> DEFINE u == [s EXCEPT !.phase = "error", !.nav = None]
<1>1. GiveUp(s, v) = Do(u, <<Post(v, s.job.id, None)>>)
  BY DEF GiveUp
<1>2. IsState(u) /\ u.job = s.job /\ u.rpc = s.rpc /\ u.nav = None
  BY DEF Sound, IsState, StateFields
<1> HIDE DEF u
<1>3. Sound(u, acc, rep, ask)
  BY <1>2 DEF Sound, RpcSound, Correlated
<1> QED BY <1>1, <1>2, <1>3, DoFields DEF Work

LEMMA PhaseSound ==
    ASSUME NEW s, NEW ph, NEW acc, NEW rep, NEW ask, Sound(s, acc, rep, ask), s.job # None
    PROVE  LET t == [s EXCEPT !.phase = ph]
           IN /\ Sound(t, acc, rep, ask) /\ t.job = s.job /\ t.nav = s.nav
              /\ t.rpc = s.rpc /\ t.bound = s.bound
<1> DEFINE t == [s EXCEPT !.phase = ph]
<1>1. /\ IsState(t) /\ t.job = s.job /\ t.nav = s.nav /\ t.rpc = s.rpc /\ t.bound = s.bound
      /\ t.phase = ph
  BY DEF Sound, IsState, StateFields
<1> HIDE DEF t
<1>2. Sound(t, acc, rep, ask)
  BY <1>1 DEF Sound, RpcSound, Correlated
<1> QED BY <1>1, <1>2 DEF t

LEMMA LandingWorks ==
    ASSUME NEW s, NEW acc, NEW rep, NEW ask, Sound(s, acc, rep, ask), Navigating(s, rep, ask),
           Granted(applyLandingVerdict(s), s.job.url, acc)
    PROVE  /\ Work(applyLandingVerdict(s), acc, rep, ask)
           /\ applyLandingVerdict(s).state.job = s.job
<1> DEFINE k == evaluateLanding(s.nav)
           f == funnelDecision(k.outcome, s.nav.attempt)
           t == [s EXCEPT !.phase = "landed"]
<1>1. /\ k.kind \in {"waiting", "landed", "skip", "retry"}
      /\ k.kind = "landed" => /\ s.nav.commit # None /\ s.nav.ready # None
                              /\ s.nav.ready.doc = s.nav.commit.doc
      /\ f \in {"skip", "fail", "retry_navigate"}
  BY LandingKinds, FunnelDecisions
<1>2. s.job # None
  BY DEF Navigating
<1>3. CASE k.kind = "waiting"
  <2>1. applyLandingVerdict(s) = Do(s, <<>>)
    BY <1>3 DEF applyLandingVerdict
  <2> QED BY <2>1, DoFields DEF Work
<1>4. CASE k.kind = "landed"
  <2>0. /\ Sound(t, acc, rep, ask) /\ t.job = s.job /\ t.nav = s.nav
    BY <1>2, PhaseSound
  <2>1. /\ Sound(t, acc, rep, ask) /\ t.job = s.job /\ t.nav = s.nav
        /\ Navigating(t, rep, ask)
    BY <2>0 DEF Navigating
  <2>2. CASE s.nav.kind = "navigate" /\ s.job.id \in FormJobs
    <3>1. applyLandingVerdict(s) = prepareFormActionDispatch(t)
      BY <1>4, <2>2 DEF applyLandingVerdict
    <3>2. t.nav.commit # None /\ t.nav.commit.doc \in rep /\ t.nav.commit.doc \notin ask
      BY <1>1, <1>4, <2>1, <2>2 DEF Navigating, NavSound
    <3> HIDE DEF t
    <3> QED BY <2>1, <3>1, <3>2, PrepareWorks
  <2>3. CASE ~(s.nav.kind = "navigate" /\ s.job.id \in FormJobs)
    <3>1. applyLandingVerdict(s) = dispatchCapture(t)
      BY <1>4, <2>3 DEF applyLandingVerdict
    <3>2. \E x : dispatchCapture(t) = dispatchCaptureFromDocument(t, x)
      BY DEF dispatchCapture
    <3> HIDE DEF t
    <3> QED BY <2>1, <3>1, <3>2, CaptureWorks
  <2> QED BY <2>2, <2>3
<1>5. CASE k.kind = "skip" \/ (k.kind = "retry" /\ f \in {"skip", "fail"})
  <2>1. \E v \in {"skipped", "failed"} : applyLandingVerdict(s) = GiveUp(s, v)
    BY <1>5 DEF applyLandingVerdict
  <2>2. PICK v \in {"skipped", "failed"} : applyLandingVerdict(s) = GiveUp(s, v)
    BY <2>1
  <2>3. v # "completed"
    OBVIOUS
  <2> QED BY <1>2, <2>2, <2>3, GiveUpWorks
<1>6. CASE k.kind = "retry" /\ f = "retry_navigate"
  <2>1. applyLandingVerdict(s) = RetryNavigation(s)
    BY <1>6 DEF applyLandingVerdict
  <2> QED BY <2>1, RetryWorks
<1> QED BY <1>1, <1>3, <1>4, <1>5, <1>6

-----------------------------------------------------------------------------
(* The tick.                                                                *)

LEMMA SilentSound ==
    ASSUME NEW s, NEW h, NEW acc, NEW rep, NEW ask, Sound(s, acc, rep, ask), s.nav # None
    PROVE  LET t == [s EXCEPT !.nav.http = h]
           IN Sound(t, acc, rep, ask) /\ t.job = s.job /\ Navigating(t, rep, ask)
<1> DEFINE n == [s.nav EXCEPT !.http = h]
           t == [s EXCEPT !.nav.http = h]
<1>1. NavSound(n, rep, ask) /\ n.job = s.nav.job
  BY DEF Sound, NavSound, IsNav, NavFields
<1>2. /\ IsState(t) /\ t.job = s.job /\ t.nav = n /\ t.rpc = s.rpc /\ t.phase = s.phase
  BY DEF Sound, IsState, StateFields
<1> HIDE DEF t, n
<1>3. Sound(t, acc, rep, ask)
  BY <1>1, <1>2 DEF Sound, RpcSound, Correlated
<1>4. Navigating(t, rep, ask)
  BY <1>1, <1>2 DEF Navigating, Sound, Correlated
<1> QED BY <1>2, <1>3, <1>4 DEF t, n

LEMMA TickLandingWorks ==
    ASSUME NEW s, NEW due, NEW acc, NEW rep, NEW ask, Sound(s, acc, rep, ask), s.nav # None,
           Granted(TickLanding(s, due), s.job.url, acc)
    PROVE  /\ Work(TickLanding(s, due), acc, rep, ask)
           /\ TickLanding(s, due).state.job = s.job
<1> DEFINE h == [request |-> s.nav.request, doc |-> None, outcome |-> "nav_error"]
           t == [s EXCEPT !.nav.http = h]
           e == [s EXCEPT !.phase = "error"]
<1>1. s.job # None
  BY DEF Sound, Correlated
<1>2. \/ TickLanding(s, due) = applyLandingVerdict(s)
      \/ TickLanding(s, due) = Do(s, <<>>)
      \/ TickLanding(s, due) = applyLandingVerdict(t) /\ s.nav.commit = None
      \/ TickLanding(s, due) = Do(e, <<>>)
  BY DEF TickLanding
<1>3. CASE TickLanding(s, due) = applyLandingVerdict(s)
  <2>1. Navigating(s, rep, ask)
    BY DEF Navigating, Sound, Correlated
  <2> QED BY <1>3, <2>1, LandingWorks
<1>4. CASE TickLanding(s, due) = Do(s, <<>>)
  BY <1>4, DoFields DEF Work
<1>5. CASE TickLanding(s, due) = applyLandingVerdict(t) /\ s.nav.commit = None
  <2>1. Sound(t, acc, rep, ask) /\ t.job = s.job /\ Navigating(t, rep, ask)
    BY SilentSound
  <2> HIDE DEF t
  <2> QED BY <1>5, <2>1, LandingWorks
<1>6. CASE TickLanding(s, due) = Do(e, <<>>)
  <2>1. Sound(e, acc, rep, ask) /\ e.job = s.job
    BY <1>1, PhaseSound
  <2> HIDE DEF e
  <2> QED BY <1>6, <2>1, DoFields DEF Work
<1> QED BY <1>2, <1>3, <1>4, <1>5, <1>6

LEMMA UnavailableSound ==
    ASSUME NEW s, NEW acc, NEW rep, NEW ask, Sound(s, acc, rep, ask), s.job # None
    PROVE  Sound(Unavailable(s), acc, rep, ask) /\ Unavailable(s).job = s.job
<1> DEFINE t == Unavailable(s)
<1>1. IsState(t) /\ t.job = s.job /\ t.nav = s.nav /\ t.rpc = None /\ t.phase = "error"
  BY DEF Unavailable, Sound, IsState, StateFields
<1>2. Sound(t, acc, rep, ask)
  BY <1>1 DEF Sound, Correlated
<1> QED BY <1>1, <1>2

LEMMA ForgetRpcSound ==
    ASSUME NEW s, NEW acc, NEW rep, NEW ask, Sound(s, acc, rep, ask)
    PROVE  LET t == [s EXCEPT !.rpc = None]
           IN /\ Sound(t, acc, rep, ask) /\ t.job = s.job /\ t.nav = s.nav /\ t.rpc = None
              /\ t.phase = s.phase
<1> DEFINE t == [s EXCEPT !.rpc = None]
<1>1. IsState(t) /\ t.job = s.job /\ t.nav = s.nav /\ t.rpc = None /\ t.phase = s.phase
  BY DEF Sound, IsState, StateFields
<1> HIDE DEF t
<1>2. Sound(t, acc, rep, ask)
  BY <1>1 DEF Sound, Correlated
<1> QED BY <1>1, <1>2 DEF t

LEMMA TickCaptureWorks ==
    ASSUME NEW s, NEW due, NEW acc, NEW rep, NEW ask, Sound(s, acc, rep, ask), s.rpc # None,
           s.rpc.op = "capture"
    PROVE  /\ Work(TickCapture(s, due), acc, rep, ask)
           /\ TickCapture(s, due).state.job = s.job
<1> DEFINE r == [s.rpc EXCEPT !.resends = @ + 1]
           t == [s EXCEPT !.rpc.resends = @ + 1]
<1>1. s.job # None /\ s.job.id \in FetchJobs /\ s.rpc.job = s.job.id
  BY UrlsOfJobs DEF Sound, Correlated
<1>2. \/ TickCapture(s, due) = Do(s, <<>>)
      \/ TickCapture(s, due) = Do(t, <<Save, Send>>)
      \/ TickCapture(s, due) = Do(Unavailable(s), <<>>)
  BY DEF TickCapture
<1>3. CASE TickCapture(s, due) = Do(s, <<>>)
  BY <1>3, DoFields DEF Work
<1>4. CASE TickCapture(s, due) = Do(t, <<Save, Send>>)
  <2>1. IsRpc(r) /\ r.job = s.rpc.job /\ r.op = "capture" /\ r.doc = s.rpc.doc
    BY DEF Sound, RpcSound, IsRpc, RpcFields
  <2>2. IsState(t) /\ t.job = s.job /\ t.nav = s.nav /\ t.rpc = r /\ t.phase = s.phase
    BY DEF Sound, IsState, StateFields
  <2> HIDE DEF t, r
  <2>3. Sound(t, acc, rep, ask)
    BY <2>1, <2>2 DEF Sound, RpcSound, Correlated
  <2>4. MaySend(t, rep, ask)
    BY <1>1, <2>1, <2>2 DEF MaySend
  <2> QED BY <1>4, <2>2, <2>3, <2>4, DoFields DEF Work
<1>5. CASE TickCapture(s, due) = Do(Unavailable(s), <<>>)
  BY <1>1, <1>5, UnavailableSound, DoFields DEF Work
<1> QED BY <1>2, <1>3, <1>4, <1>5

LEMMA TickFormWorks ==
    ASSUME NEW s, NEW due, NEW acc, NEW rep, NEW ask, Sound(s, acc, rep, ask), s.nav # None
    PROVE  /\ Work(TickForm(s, due), acc, rep, ask)
           /\ TickForm(s, due).state.job = s.job
<1> DEFINE t == [s EXCEPT !.rpc = None]
<1>1. s.job # None
  BY DEF Sound, Correlated
<1>2. TickForm(s, due) = GiveUp(t, "failed") \/ TickForm(s, due) = Do(s, <<>>)
  BY DEF TickForm
<1>3. Sound(t, acc, rep, ask) /\ t.job = s.job
  BY ForgetRpcSound
<1> HIDE DEF t
<1>4. CASE TickForm(s, due) = GiveUp(t, "failed")
  <2>1. "failed" # "completed"
    OBVIOUS
  <2> QED BY <1>1, <1>3, <1>4, <2>1, GiveUpWorks
<1>5. CASE TickForm(s, due) = Do(s, <<>>)
  BY <1>5, DoFields DEF Work
<1> QED BY <1>2, <1>4, <1>5

LEMMA TickWorks ==
    ASSUME NEW s, NEW due, NEW acc, NEW rep, NEW ask, Sound(s, acc, rep, ask),
           Granted(TickWork(s, due), s.job.url, acc)
    PROVE  /\ Work(TickWork(s, due), acc, rep, ask)
           /\ TickWork(s, due).state.job = s.job
<1>1. \/ \E a : TickWork(s, due) = navigateNow(s, a)
      \/ TickWork(s, due) = TickLanding(s, due) /\ s.nav # None
      \/ TickWork(s, due) = TickCapture(s, due) /\ s.rpc # None /\ s.rpc.op = "capture"
      \/ TickWork(s, due) = TickForm(s, due) /\ s.nav # None
      \/ TickWork(s, due) = Do(s, <<>>)
  BY DEF TickWork
<1>2. CASE \E a : TickWork(s, due) = navigateNow(s, a)
  BY <1>2, NavigateWorks
<1>3. CASE TickWork(s, due) = TickLanding(s, due) /\ s.nav # None
  BY <1>3, TickLandingWorks
<1>4. CASE TickWork(s, due) = TickCapture(s, due) /\ s.rpc # None /\ s.rpc.op = "capture"
  BY <1>4, TickCaptureWorks
<1>5. CASE TickWork(s, due) = TickForm(s, due) /\ s.nav # None
  BY <1>5, TickFormWorks
<1>6. CASE TickWork(s, due) = Do(s, <<>>)
  BY <1>6, DoFields DEF Work
<1> QED BY <1>1, <1>2, <1>3, <1>4, <1>5, <1>6

\* A state that was given a job, or lost one, in this tick asks no page anything.
LEMMA TickAsksNothing ==
    ASSUME NEW s, NEW due, NEW acc, NEW rep, NEW ask, Sound(s, acc, rep, ask),
           s.rpc = None, s.phase \in {"assigned", "idle"}
    PROVE  TickWork(s, due).state.rpc = None
<1>1. (\E a : TickWork(s, due) = navigateNow(s, a)) \/ TickWork(s, due) = Do(s, <<>>)
  BY DEF TickWork
<1>2. CASE \E a : TickWork(s, due) = navigateNow(s, a)
  BY <1>2, NavigateWorks
<1>3. CASE TickWork(s, due) = Do(s, <<>>)
  BY <1>3, DoFields
<1> QED BY <1>1, <1>2, <1>3

\* A handler that saves first needs no save of its own.
LEMMA WorkLeft ==
    ASSUME NEW d, NEW x, NEW acc, NEW rep, NEW ask, Work(d, acc, rep, ask),
           d.todo = <<Save, x>>
    PROVE  Handled(d, acc, rep, ask)
<1>1. \A y : <<y>> # <<Save, x>>
  OBVIOUS
<1>2. CASE d.todo = <<Save, Open(d.state.job.url)>> /\ d.state.job # None
  <2>1. ASSUME NEW y, y = Open(d.state.job.url)
        PROVE  Fresh(d.state, <<Save, y>>, acc, rep, ask)
    <3>1. IsOpen(y)
      BY <1>2, <2>1, UrlsOfJobs DEF Work, Sound, IsOpen, Open
    <3>2. Len(<<Save, y>>) = 2 /\ <<Save, y>>[2] = y
      OBVIOUS
    <3> QED BY <3>1, <3>2 DEF Fresh
  <2> QED BY <1>2, <2>1 DEF Handled, Work
<1>3. CASE d.todo = <<Save, Send>> /\ MaySend(d.state, rep, ask)
  BY <1>3 DEF Handled, Work, Fresh
<1> QED BY <1>1, <1>2, <1>3 DEF Work

LEMMA SavedLast ==
    ASSUME NEW s, NEW q
    PROVE  ThenSave(Do(s, q)) =
             Do(s, IF Len(q) > 0 /\ q[1] = Save THEN q ELSE Append(q, Save))
<1> DEFINE d == Do(s, q)
<1>1. d.todo = q /\ d.state = s /\ d = [state |-> s, todo |-> q]
  BY DEF Do
<1>2. ThenSave(d) = [d EXCEPT !.todo = IF Len(q) > 0 /\ q[1] = Save THEN q ELSE Append(q, Save)]
  BY <1>1 DEF ThenSave
<1> QED BY <1>1, <1>2 DEF Do

LEMMA WorkIsHandled ==
    ASSUME NEW d, NEW acc, NEW rep, NEW ask, Work(d, acc, rep, ask)
    PROVE  Handled(ThenSave(d), acc, rep, ask) /\ ThenSave(d).state = d.state
<1> DEFINE q == d.todo
           p == IF Len(q) > 0 /\ q[1] = Save THEN q ELSE Append(q, Save)
<1>1. ThenSave(d) = Do(d.state, p)
  BY SavedLast DEF Work
<1>2. CASE q = <<>>
  <2>1. p = <<Save>>
    BY <1>2
  <2> HIDE DEF p
  <2> QED BY <1>1, <2>1, DoFields DEF Handled, Fresh, Work
<1>3. CASE q = <<Save, Open(d.state.job.url)>> /\ d.state.job # None
  <2>1. p = <<Save, Open(d.state.job.url)>>
    BY <1>3
  <2>2. IsOpen(Open(d.state.job.url))
    BY <1>3, UrlsOfJobs DEF Work, Sound, IsOpen, Open
  <2> HIDE DEF p
  <2> QED BY <1>1, <2>1, <2>2, DoFields DEF Handled, Fresh, Work
<1>4. CASE q = <<Save, Send>> /\ MaySend(d.state, rep, ask)
  <2>1. p = <<Save, Send>>
    BY <1>4
  <2> HIDE DEF p
  <2> QED BY <1>1, <1>4, <2>1, DoFields DEF Handled, Fresh, Work
<1>5. CASE \E v, j : v # "completed" /\ q = <<Post(v, j, None)>>
  <2>1. PICK v, j : v # "completed" /\ q = <<Post(v, j, None)>>
    BY <1>5
  <2>2. Post(v, j, None) # Save /\ IsPost(Post(v, j, None)) /\ Post(v, j, None).verdict = v
    BY DEF Post, Save, IsPost
  <2>3. p = Append(<<Post(v, j, None)>>, Save)
    BY <2>1, <2>2
  <2>4. Append(<<Post(v, j, None)>>, Save) = <<Post(v, j, None), Save>>
    BY AppendOne
  <2> HIDE DEF p
  <2>5. ASSUME NEW x, x = Post(v, j, None)
        PROVE  Fresh(d.state, <<x, Save>>, acc, rep, ask)
    <3>1. IsPost(x) /\ x.verdict # "completed"
      BY <2>1, <2>2, <2>5
    <3>2. Len(<<x, Save>>) = 2 /\ <<x, Save>>[1] = x /\ <<x, Save>>[2] = Save
      OBVIOUS
    <3> QED BY <3>1, <3>2 DEF Fresh
  <2>6. Fresh(d.state, p, acc, rep, ask)
    BY <2>3, <2>4, <2>5
  <2> QED BY <1>1, <2>6, DoFields DEF Handled, Work
<1> QED BY <1>2, <1>3, <1>4, <1>5 DEF Work

-----------------------------------------------------------------------------
(* The steps of the handlers.                                               *)

\* A step that takes nothing but events from the way, and nothing from the page.
LEMMA QuietStep ==
    ASSUME Reports, Forms, OneSubmitPerPage, net' \subseteq net,
           UNCHANGED <<requests, loading, inbox, submitted>>,
           slot' \in FetchJobs \cup {None}
    PROVE  /\ Reports' /\ Forms' /\ OneSubmitPerPage'
           /\ Reported \subseteq Reported' /\ Asked' = Asked
<1>1. Reported \subseteq Reported'
  BY DEF Reported
<1>2. Asked' = Asked
  BY DEF Asked
<1>3. Reports'
  BY DEF Reports
<1>4. Forms'
  BY <1>1, <1>2 DEF Forms
<1>5. OneSubmitPerPage'
  BY DEF OneSubmitPerPage
<1> QED BY <1>1, <1>2, <1>3, <1>4, <1>5

\* The pages accepted for the URL of the controller's job stay accepted.
Keeps(acc, acc2) ==
    mem.rpc # None => \A dc : [url |-> mem.job.url, doc |-> dc] \in acc
                         => [url |-> mem.job.url, doc |-> dc] \in acc2

LEMMA HandlerStep ==
    ASSUME ControllerInv, Free, net' \subseteq net,
           UNCHANGED <<requests, loading, inbox, submitted, disk>>,
           slot' \in FetchJobs \cup {None}, Keeps(accepted, accepted'),
           \/ mem' = mem /\ todo' = <<>>
           \/ /\ Sound(mem', accepted', Reported', Asked')
              /\ Fresh(mem', todo', accepted', Reported', Asked')
    PROVE  ControllerInv'
<1>1. disk = mem
  BY DEF ControllerInv, Free, InHand, Fresh, Later
<1>2. /\ Reports' /\ Forms' /\ OneSubmitPerPage'
      /\ Reported \subseteq Reported' /\ Asked' = Asked
  BY QuietStep DEF ControllerInv
<1>3. Sound(mem, accepted', Reported', Asked')
  BY <1>2, SoundStays DEF ControllerInv, Keeps
<1>4. Sound(mem', accepted', Reported', Asked') /\ Sound(disk', accepted', Reported', Asked')
  BY <1>1, <1>3
<1>5. InHand(mem', disk', todo', accepted', Reported', Asked')
  BY <1>1 DEF InHand, Saved
<1> QED BY <1>2, <1>4, <1>5 DEF ControllerInv

LEMMA AcceptKeeps ==
    ASSUME ControllerInv, NEW d, Accept(d)
    PROVE  /\ Keeps(accepted, accepted')
           /\ Granted(d, mem.job.url, accepted')
<1>1. Granted(d, mem.job.url, accepted')
  BY DEF Accept, Granted
<1>2. mem.rpc # None => mem.job.url.job = mem.job.id
  BY DEF ControllerInv, Sound, Correlated
<1>3. \A dc : [url |-> mem.job.url, doc |-> dc].url = mem.job.url
  OBVIOUS
<1>4. Keeps(accepted, accepted')
  BY <1>2, <1>3 DEF Accept, Keeps
<1> QED BY <1>1, <1>4

\* A signal of the browser: the navigation takes it up and the landing rule is evaluated.
LEMMA LandingDoes ==
    ASSUME NEW s
    PROVE  applyLandingVerdict(s).state = ThenSave(applyLandingVerdict(s)).state
<1> DEFINE k == evaluateLanding(s.nav)
           f == funnelDecision(k.outcome, s.nav.attempt)
           w == applyLandingVerdict(s)
<1>1. \A t, a : \E u, q : navigateNow(t, a) = Do(u, q)
  BY DEF navigateNow
<1>2. \A t : \E u, q : prepareFormActionDispatch(t) = Do(u, q)
  BY DEF prepareFormActionDispatch
<1>3. \A t, dc : \E u, q : dispatchCaptureFromDocument(t, dc) = Do(u, q)
  BY DEF dispatchCaptureFromDocument
<1>4. \A t : \E u, q : dispatchCapture(t) = Do(u, q)
  BY <1>3 DEF dispatchCapture
<1>5. \A t, v : \E u, q : GiveUp(t, v) = Do(u, q)
  BY DEF GiveUp
<1>6. \A t : \E u, q : RetryNavigation(t) = Do(u, q)
  BY <1>1 DEF RetryNavigation
<1>7. /\ k.kind \in {"waiting", "landed", "skip", "retry"}
      /\ f \in {"skip", "fail", "retry_navigate"}
  BY LandingKinds, FunnelDecisions
<1>8. \/ w = Do(s, <<>>)
      \/ \E t : w = prepareFormActionDispatch(t)
      \/ \E t : w = dispatchCapture(t)
      \/ \E v : w = GiveUp(s, v)
      \/ w = RetryNavigation(s)
  BY <1>7 DEF applyLandingVerdict
<1>9. \E u, q : w = Do(u, q)
  BY <1>2, <1>4, <1>5, <1>6, <1>8
<1> QED BY <1>9, SavedLast, DoFields

LEMMA SignalStep ==
    ASSUME ControllerInv, NEW m \in net, NEW n, mem.nav # None, Signal(m, n),
           n.job = mem.nav.job, NavSound(n, Reported', Asked')
    PROVE  ControllerInv'
<1> DEFINE s == [mem EXCEPT !.nav = n]
           w == applyLandingVerdict(s)
           d == ThenSave(w)
<1>1. Receive(m, d) /\ Accept(d)
  BY DEF Signal
<1>2. /\ Free /\ mem' = d.state /\ todo' = d.todo /\ net' \subseteq net
      /\ UNCHANGED <<requests, loading, inbox, submitted, disk, slot>>
  BY <1>1 DEF Receive, Run, browser, bridge
<1>3. Reported \subseteq Reported' /\ Asked' = Asked /\ slot' \in FetchJobs \cup {None}
  BY <1>2, QuietStep DEF ControllerInv, Reports
<1>4. Keeps(accepted, accepted') /\ Granted(d, mem.job.url, accepted')
  BY <1>1, AcceptKeeps
<1>5. Sound(mem, accepted', Reported', Asked')
  BY <1>3, <1>4, SoundStays DEF ControllerInv, Keeps
<1>6. IsState(s) /\ s.job = mem.job /\ s.nav = n /\ s.rpc = mem.rpc /\ s.phase = mem.phase
  BY <1>5 DEF Sound, IsState, StateFields
<1> HIDE DEF s
<1>7. Sound(s, accepted', Reported', Asked') /\ Navigating(s, Reported', Asked')
  BY <1>5, <1>6 DEF Sound, RpcSound, Correlated, Navigating
<1>8. d.state = w.state
  BY LandingDoes
<1>9. Granted(w, s.job.url, accepted')
  BY <1>4, <1>6, <1>8 DEF Granted
<1>10. Work(w, accepted', Reported', Asked')
  BY <1>7, <1>9, LandingWorks
<1>11. Handled(d, accepted', Reported', Asked')
  BY <1>10, WorkIsHandled
<1> QED BY <1>2, <1>3, <1>4, <1>11, HandlerStep DEF Handled

LEMMA ReceiveFacts ==
    ASSUME ControllerInv, NEW m \in net, NEW d, Receive(m, d), Keeps(accepted, accepted')
    PROVE  /\ Free /\ mem' = d.state /\ todo' = d.todo /\ net' = net \ {m}
           /\ UNCHANGED <<requests, loading, inbox, submitted, disk, slot>>
           /\ Reported \subseteq Reported' /\ Asked' = Asked
           /\ Sound(mem, accepted', Reported', Asked')
           /\ slot' \in FetchJobs \cup {None}
<1>1. /\ Free /\ mem' = d.state /\ todo' = d.todo /\ net' = net \ {m}
      /\ UNCHANGED <<requests, loading, inbox, submitted, disk, slot>>
  BY DEF Receive, Run, browser, bridge
<1>2. Reported \subseteq Reported' /\ Asked' = Asked /\ slot' \in FetchJobs \cup {None}
  BY <1>1, QuietStep DEF ControllerInv, Reports
<1>3. Sound(mem, accepted', Reported', Asked')
  BY <1>2, SoundStays DEF ControllerInv, Keeps
<1> QED BY <1>1, <1>2, <1>3

LEMMA ReceiveStep ==
    ASSUME ControllerInv, NEW m \in net, NEW d, Receive(m, d), Keeps(accepted, accepted'),
           Handled(d, accepted', Reported', Asked')
    PROVE  ControllerInv'
BY ReceiveFacts, HandlerStep DEF Handled

LEMMA NothingAccepted ==
    ASSUME accepted' = accepted
    PROVE  Keeps(accepted, accepted')
BY DEF Keeps

LEMMA JustSaved ==
    ASSUME NEW s, NEW acc, NEW rep, NEW ask, Sound(s, acc, rep, ask)
    PROVE  Handled(Do(s, <<Save>>), acc, rep, ask)
BY DoFields DEF Handled, Fresh

LEMMA BeforeRequestStep ==
    ASSUME ControllerInv, NEW m \in net, deliverBeforeRequest(m)
    PROVE  ControllerInv'
<1> DEFINE n == [mem.nav EXCEPT !.request = m.request]
           s == [mem EXCEPT !.nav.request = m.request]
           d == Do(s, <<Save>>)
<1>1. Receive(m, d) /\ accepted' = accepted /\ mem.nav # None
  BY DEF deliverBeforeRequest, Observing
<1>2. Sound(mem, accepted', Reported', Asked')
  BY <1>1, ReceiveFacts, NothingAccepted
<1>3. NavSound(n, Reported', Asked') /\ n.job = mem.nav.job
  BY <1>1, <1>2 DEF Sound, NavSound, IsNav, NavFields
<1>4. IsState(s) /\ s.job = mem.job /\ s.nav = n /\ s.rpc = mem.rpc /\ s.phase = mem.phase
  BY <1>2 DEF Sound, IsState, StateFields
<1> HIDE DEF s, n
<1>5. Sound(s, accepted', Reported', Asked')
  BY <1>1, <1>2, <1>3, <1>4 DEF Sound, RpcSound, Correlated
<1>6. Handled(d, accepted', Reported', Asked')
  BY <1>5, JustSaved
<1> QED BY <1>1, <1>6, ReceiveStep, NothingAccepted

LEMMA GivesUp ==
    ASSUME NEW s, NEW v, NEW acc, NEW rep, NEW ask, Sound(s, acc, rep, ask), s.job # None,
           v \in {"skipped", "failed"}
    PROVE  Handled(ThenSave(GiveUp(s, v)), acc, rep, ask)
<1>1. v # "completed"
  OBVIOUS
<1> QED BY <1>1, GiveUpWorks, WorkIsHandled

LEMMA BeforeRedirectStep ==
    ASSUME ControllerInv, NEW m \in net, deliverBeforeRedirect(m)
    PROVE  ControllerInv'
<1> DEFINE d == ThenSave(GiveUp(mem, "skipped"))
<1>1. Receive(m, d) /\ accepted' = accepted /\ mem.nav # None
  BY DEF deliverBeforeRedirect, Observing
<1>2. Sound(mem, accepted', Reported', Asked')
  BY <1>1, ReceiveFacts, NothingAccepted
<1>3. mem.job # None
  BY <1>1, <1>2 DEF Sound, Correlated
<1>4. Handled(d, accepted', Reported', Asked')
  BY <1>2, <1>3, GivesUp
<1> QED BY <1>1, <1>4, ReceiveStep, NothingAccepted

LEMMA SignalFacts ==
    ASSUME ControllerInv, NEW m \in net, NEW n, Signal(m, n)
    PROVE  /\ Reported \subseteq Reported' /\ Asked' = Asked /\ net' = net \ {m}
           /\ UNCHANGED <<requests, loading>>
           /\ mem.nav # None => NavSound(mem.nav, Reported', Asked')
<1> DEFINE d == ThenSave(applyLandingVerdict([mem EXCEPT !.nav = n]))
<1>1. Receive(m, d) /\ Accept(d)
  BY DEF Signal
<1> HIDE DEF d
<1>2. Keeps(accepted, accepted')
  BY <1>1, AcceptKeeps
<1> QED BY <1>1, <1>2, ReceiveFacts DEF Sound

LEMMA CommittedStep ==
    ASSUME ControllerInv, NEW m \in net, deliverCommitted(m)
    PROVE  ControllerInv'
<1> DEFINE c == [doc |-> m.doc, onsite |-> m.onsite]
           n == [mem.nav EXCEPT !.commit = c]
<1>1. Signal(m, n) /\ mem.nav # None /\ m.doc # None
  BY DEF deliverCommitted, Observing, ControllerInv, Reports
<1>2. NavSound(mem.nav, Reported', Asked')
  BY <1>1, SignalFacts
<1>3. NavSound(n, Reported', Asked') /\ n.job = mem.nav.job
  <2>1. c.doc # None
    BY <1>1
  <2> HIDE DEF c
  <2> QED BY <1>2, <2>1 DEF NavSound, IsNav, NavFields
<1> QED BY <1>1, <1>3, SignalStep

LEMMA HttpEventStep ==
    ASSUME ControllerInv, NEW m \in net, deliverHttpEvent(m) \/ deliverError(m)
    PROVE  ControllerInv'
<1>1. PICK h : Signal(m, [mem.nav EXCEPT !.http = h]) /\ mem.nav # None
  BY DEF deliverHttpEvent, deliverError, Observing
<1> DEFINE n == [mem.nav EXCEPT !.http = h]
<1>2. NavSound(mem.nav, Reported', Asked')
  BY <1>1, SignalFacts
<1>3. NavSound(n, Reported', Asked') /\ n.job = mem.nav.job
  BY <1>2 DEF NavSound, IsNav, NavFields
<1> QED BY <1>1, <1>3, SignalStep

\* The report of a page that has not been asked to submit its form: it comes once.
LEMMA PageReadyStep ==
    ASSUME ControllerInv, NEW m \in net, deliverPageReady(m)
    PROVE  ControllerInv'
<1> DEFINE c == [doc |-> m.doc, seen |-> m.seen]
           n == [mem.nav EXCEPT !.ready = c]
<1>1. Signal(m, n) /\ mem.nav # None /\ m.event = "ready"
  BY DEF deliverPageReady
<1>2. /\ NavSound(mem.nav, Reported', Asked') /\ Asked' = Asked /\ net' = net \ {m}
      /\ UNCHANGED <<requests, loading>>
  BY <1>1, SignalFacts
<1>3. m.doc \in Reported'
  BY <1>1, <1>2 DEF ControllerInv, Reports, Reported
<1>4. m.doc \notin Asked'
  BY <1>1, <1>2 DEF ControllerInv, Forms, Reported
<1>5. NavSound(n, Reported', Asked') /\ n.job = mem.nav.job
  <2>1. c.doc = m.doc
    OBVIOUS
  <2> HIDE DEF c
  <2> QED BY <1>2, <1>3, <1>4, <2>1 DEF NavSound, IsNav, NavFields
<1> QED BY <1>1, <1>5, SignalStep

\* The RPC that a content script answers is one of the controller's job.
LEMMA AnswerFacts ==
    ASSUME NEW m, NEW op, Answers(m, op), NEW acc, NEW rep, NEW ask, Sound(mem, acc, rep, ask)
    PROVE  /\ mem.rpc # None /\ mem.rpc.op = op /\ mem.bound /\ mem.job # None
           /\ m.doc = mem.rpc.doc /\ mem.rpc.doc # None /\ IsRpc(mem.rpc)
           /\ mem.rpc.job = mem.job.id /\ mem.job.id \in FetchJobs
           /\ op = "capture" => [url |-> mem.job.url, doc |-> m.doc] \in acc
           /\ op = "prepare" => m.doc \in rep /\ m.doc \notin ask
<1>1. mem.rpc # None /\ mem.rpc.op = op /\ mem.bound /\ mem.job # None /\ m.doc = mem.rpc.doc
  BY DEF Answers
<1>2. mem.job.id \in FetchJobs
  BY <1>1, UrlsOfJobs DEF Sound
<1> QED BY <1>1, <1>2 DEF Sound, RpcSound, Correlated

\* A failed form leaves no RPC behind.
LEMMA FailFormHandled ==
    ASSUME NEW s, NEW acc, NEW rep, NEW ask, Sound(s, acc, rep, ask), s.job # None
    PROVE  Handled(FailForm(s), acc, rep, ask)
<1> DEFINE t == [s EXCEPT !.rpc = None]
<1>1. Sound(t, acc, rep, ask) /\ t.job = s.job
  BY ForgetRpcSound
<1>2. FailForm(s) = ThenSave(GiveUp(t, "failed"))
  BY DEF FailForm
<1> HIDE DEF t
<1> QED BY <1>1, <1>2, GivesUp

LEMMA AskedAgain ==
    ASSUME NEW s, NEW acc, NEW rep, NEW ask, Sound(s, acc, rep, ask), s.rpc # None,
           s.rpc.op = "prepare"
    PROVE  Handled(Do([s EXCEPT !.rpc = [s.rpc EXCEPT !.resends = @ + 1, !.at = Now]],
                      <<Save, Resend>>), acc, rep, ask)
<1> DEFINE r == [s.rpc EXCEPT !.resends = @ + 1, !.at = Now]
           t == [s EXCEPT !.rpc = r]
<1>1. s.job # None /\ s.job.id \in FetchJobs /\ s.rpc.job = s.job.id
  BY UrlsOfJobs DEF Sound, Correlated
<1>2. IsRpc(r) /\ r.job = s.rpc.job /\ r.op = "prepare" /\ r.doc = s.rpc.doc
  BY DEF Sound, RpcSound, IsRpc, RpcFields
<1> HIDE DEF r
<1>3. IsState(t) /\ t.job = s.job /\ t.nav = s.nav /\ t.rpc = r /\ t.phase = s.phase
  BY DEF Sound, IsState, StateFields
<1> HIDE DEF t
<1>4. Sound(t, acc, rep, ask)
  BY <1>2, <1>3 DEF Sound, RpcSound, Correlated
<1>5. MaySend(t, rep, ask)
  BY <1>1, <1>2, <1>3 DEF MaySend
<1>6. Handled(Do(t, <<Save, Resend>>), acc, rep, ask)
  BY <1>4, <1>5, DoFields DEF Handled, Fresh
<1> QED BY <1>6 DEF t, r

\* The form is submitted from a page that has not been asked to submit it.
LEMMA FormOpened ==
    ASSUME NEW s, NEW acc, NEW rep, NEW ask, Sound(s, acc, rep, ask), s.job # None,
           NEW u, NEW x, NEW dc, dc # None, dc \in rep, dc \notin ask
    PROVE  Handled(Do([s EXCEPT !.nav = Navigation(s.job.id, u, x, 1, "form_action", dc),
                                !.rpc = PendingRpc(s, "perform", dc, 0), !.phase = "acting"],
                      <<Save, Send>>), acc, rep, ask)
<1> DEFINE n == Navigation(s.job.id, u, x, 1, "form_action", dc)
           r == PendingRpc(s, "perform", dc, 0)
           t == [s EXCEPT !.nav = n, !.rpc = r, !.phase = "acting"]
<1>1. NavSound(n, rep, ask) /\ n.job = s.job.id /\ n.kind = "form_action"
  BY NavigationSound
<1>2. IsRpc(r) /\ r.job = s.job.id /\ r.op = "perform" /\ r.doc = dc
  BY DEF PendingRpc, IsRpc, RpcFields
<1> HIDE DEF n, r
<1>3. IsState(t) /\ t.job = s.job /\ t.nav = n /\ t.rpc = r /\ t.phase = "acting"
  BY DEF Sound, IsState, StateFields
<1> HIDE DEF t
<1>4. Sound(t, acc, rep, ask)
  BY <1>1, <1>2, <1>3 DEF Sound, RpcSound, Correlated
<1>5. MaySend(t, rep, ask)
  BY <1>1, <1>2, <1>3, UrlsOfJobs DEF MaySend, Sound
<1>6. Handled(Do(t, <<Save, Send>>), acc, rep, ask)
  BY <1>4, <1>5, DoFields DEF Handled, Fresh
<1> QED BY <1>6 DEF t, r, n

LEMMA ActionPreparedStep ==
    ASSUME ControllerInv, NEW m \in net, deliverActionPrepared(m)
    PROVE  ControllerInv'
<1> DEFINE again == [mem.rpc EXCEPT !.resends = @ + 1, !.at = Now]
           form  == Navigation(mem.job.id, Url(mem.job.id, "form"), mem.rpc.at, 1,
                               "form_action", mem.rpc.doc)
           d1 == Do([mem EXCEPT !.rpc = again], <<Save, Resend>>)
           d2 == FailForm(mem)
           d3 == Do([mem EXCEPT !.nav = form, !.rpc = PendingRpc(mem, "perform", mem.rpc.doc, 0),
                                !.phase = "acting"], <<Save, Send>>)
<1>1. Answers(m, "prepare") /\ accepted' = accepted /\ Keeps(accepted, accepted')
  BY NothingAccepted DEF deliverActionPrepared
<1>2. PICK d \in {d1, d2, d3} : Receive(m, d)
  BY DEF deliverActionPrepared
<1>3. Sound(mem, accepted', Reported', Asked')
  BY <1>1, <1>2, ReceiveFacts
<1>4. /\ mem.rpc # None /\ mem.rpc.op = "prepare" /\ mem.job # None /\ mem.rpc.doc # None
      /\ mem.rpc.doc \in Reported' /\ mem.rpc.doc \notin Asked'
  BY <1>1, <1>3, AnswerFacts
<1>5. Handled(d1, accepted', Reported', Asked')
  BY <1>3, <1>4, AskedAgain
<1>6. Handled(d2, accepted', Reported', Asked')
  BY <1>3, <1>4, FailFormHandled
<1>7. Handled(d3, accepted', Reported', Asked')
  BY <1>3, <1>4, FormOpened
<1> HIDE DEF d1, d2, d3
<1> QED BY <1>1, <1>2, <1>5, <1>6, <1>7, ReceiveStep

LEMMA EffectSound ==
    ASSUME NEW s, NEW acc, NEW rep, NEW ask, Sound(s, acc, rep, ask), s.nav # None
    PROVE  LET t == [s EXCEPT !.nav.effect = TRUE, !.rpc = None]
           IN Sound(t, acc, rep, ask) /\ t.job = s.job
<1> DEFINE n == [s.nav EXCEPT !.effect = TRUE]
           t == [s EXCEPT !.nav.effect = TRUE, !.rpc = None]
<1>1. NavSound(n, rep, ask) /\ n.job = s.nav.job
  BY DEF Sound, NavSound, IsNav, NavFields
<1>2. /\ IsState(t) /\ t.job = s.job /\ t.nav = n /\ t.rpc = None /\ t.phase = s.phase
  BY DEF Sound, IsState, StateFields
<1> HIDE DEF t, n
<1>3. Sound(t, acc, rep, ask)
  BY <1>1, <1>2 DEF Sound, Correlated
<1> QED BY <1>2, <1>3 DEF t, n

\* A state is saved, and so is the dispatch of a capture that follows it.
LEMMA ThenCaptured ==
    ASSUME NEW s, NEW acc, NEW rep, NEW ask, Sound(s, acc, rep, ask),
           Granted(dispatchCapture(s), s.job.url, acc)
    PROVE  LET next == dispatchCapture(s)
           IN Handled(Do(s, <<Save, Become(next.state)>> \o next.todo), acc, rep, ask)
<1> DEFINE next == dispatchCapture(s)
           q == <<Save, Become(next.state)>> \o next.todo
<1>1. PICK x : next = dispatchCaptureFromDocument(s, x)
  BY DEF dispatchCapture
<1>2. Work(next, acc, rep, ask)
  BY <1>1, CaptureWorks
<1>3. next = Do(s, <<>>) \/ next.todo = <<Save, Send>>
  BY <1>1, DoFields DEF dispatchCaptureFromDocument
<1> HIDE DEF next
<1>4. CASE next = Do(s, <<>>)
  <2>1. q = <<Save, Become(s)>>
    BY <1>4, DoFields, ConcatNothing
  <2> HIDE DEF q
  <2>2. Fresh(s, q, acc, rep, ask)
    BY <2>1 DEF Fresh
  <2> QED BY <2>2, DoFields DEF Handled, next, q
<1>5. CASE next.todo = <<Save, Send>>
  <2>1. q = <<Save, Become(next.state), Save, Send>>
    BY <1>5, ConcatPairs
  <2>2. MaySend(next.state, rep, ask) /\ Sound(next.state, acc, rep, ask)
    <3>1. \A y : <<y>> # <<Save, Send>>
      OBVIOUS
    <3>2. Open(next.state.job.url) # Send
      BY DEF Open, Send
    <3> QED BY <1>2, <1>5, <3>1, <3>2 DEF Work
  <2>3. ASSUME NEW b, b = Become(next.state)
        PROVE  Fresh(s, <<Save, b, Save, Send>>, acc, rep, ask)
    <3>1. IsBecome(b, acc, rep, ask) /\ b.state = next.state
      BY <2>2, <2>3 DEF IsBecome, Become
    <3>2. LET y == <<Save, b, Save, Send>> IN Len(y) = 4 /\ y[2] = b
      OBVIOUS
    <3> QED BY <2>2, <3>1, <3>2 DEF Fresh
  <2>4. Fresh(s, q, acc, rep, ask)
    BY <2>1, <2>3
  <2> HIDE DEF q
  <2> QED BY <2>4, DoFields DEF Handled, next, q
<1> QED BY <1>3, <1>4, <1>5

LEMMA ActionResultStep ==
    ASSUME ControllerInv, NEW m \in net, deliverActionResult(m)
    PROVE  ControllerInv'
<1> DEFINE shown == [mem EXCEPT !.nav.effect = TRUE, !.rpc = None]
           next  == dispatchCapture(shown)
           d3    == Do(shown, <<Save, Become(next.state)>> \o next.todo)
<1>1. Answers(m, "perform") /\ mem.nav # None
  BY DEF deliverActionResult
<1>2. CASE accepted' = accepted
           /\ (Receive(m, FailForm(mem)) \/ Receive(m, Do(mem, <<Save>>)))
  <2>1. Sound(mem, accepted', Reported', Asked') /\ mem.job # None
    BY <1>1, <1>2, ReceiveFacts, NothingAccepted DEF Answers
  <2> QED BY <1>2, <2>1, ReceiveStep, FailFormHandled, JustSaved, NothingAccepted
<1>3. CASE Receive(m, d3) /\ Accept(next)
  <2>1. Keeps(accepted, accepted') /\ Granted(next, mem.job.url, accepted')
    BY <1>3, AcceptKeeps
  <2>2. Sound(mem, accepted', Reported', Asked')
    BY <1>3, <2>1, ReceiveFacts
  <2>3. Sound(shown, accepted', Reported', Asked') /\ shown.job = mem.job
    BY <1>1, <2>2, EffectSound
  <2> HIDE DEF shown
  <2>4. Handled(d3, accepted', Reported', Asked')
    BY <2>1, <2>3, ThenCaptured
  <2> HIDE DEF d3
  <2> QED BY <1>3, <2>1, <2>4, ReceiveStep
<1> QED BY <1>2, <1>3 DEF deliverActionResult

LEMMA BlankSound ==
    ASSUME NEW s, NEW ph, NEW acc, NEW rep, NEW ask, Sound(s, acc, rep, ask), s.job # None
    PROVE  LET t == [s EXCEPT !.nav = None, !.rpc = None, !.phase = ph]
           IN Sound(t, acc, rep, ask)
<1> DEFINE t == [s EXCEPT !.nav = None, !.rpc = None, !.phase = ph]
<1>1. IsState(t) /\ t.job = s.job /\ t.nav = None /\ t.rpc = None /\ t.phase = ph
  BY DEF Sound, IsState, StateFields
<1> HIDE DEF t
<1>2. Sound(t, acc, rep, ask)
  BY <1>1 DEF Sound, Correlated
<1> QED BY <1>2 DEF t

\* A verdict is posted, and the state that follows it is saved.
LEMMA PostedThenSaved ==
    ASSUME NEW s, NEW u, NEW v, NEW j, NEW dc, NEW acc, NEW rep, NEW ask,
           Sound(s, acc, rep, ask), Sound(u, acc, rep, ask),
           v = "completed" => [url |-> s.job.url, doc |-> dc] \in acc
    PROVE  Handled(Do(s, <<Post(v, j, dc), Become(u), Save>>), acc, rep, ask)
<1>1. ASSUME NEW p, NEW b, p = Post(v, j, dc), b = Become(u)
      PROVE  Fresh(s, <<p, b, Save>>, acc, rep, ask)
  <2>1. IsPost(p) /\ p.verdict = v /\ p.doc = dc
    BY <1>1 DEF IsPost, Post
  <2>2. IsBecome(b, acc, rep, ask)
    BY <1>1 DEF IsBecome, Become
  <2>3. LET y == <<p, b, Save>> IN Len(y) = 3 /\ y[1] = p /\ y[2] = b
    OBVIOUS
  <2> QED BY <2>1, <2>2, <2>3 DEF Fresh
<1>2. Fresh(s, <<Post(v, j, dc), Become(u), Save>>, acc, rep, ask)
  BY <1>1
<1> QED BY <1>2, DoFields DEF Handled

LEMMA CaptureResultStep ==
    ASSUME ControllerInv, NEW m \in net, deliverCaptureResult(m)
    PROVE  ControllerInv'
<1> DEFINE s == [mem EXCEPT !.rpc = None]
           u == [s EXCEPT !.nav = None, !.phase = "idle"]
           d1 == Do(mem, <<Post("completed", mem.job.id, m.doc), Become(u), Save>>)
           d2 == ThenSave(GiveUp(s, "skipped"))
           d3 == ThenSave(RetryNavigation(s))
           d4 == ThenSave(GiveUp(s, "failed"))
<1>1. /\ Answers(m, "capture") /\ accepted' = accepted /\ Keeps(accepted, accepted')
  BY NothingAccepted DEF deliverCaptureResult
<1>2. PICK d : Receive(m, d) /\ (d \in {d1, d2, d4} \/ (d = d3 /\ s.nav # None))
  BY DEF deliverCaptureResult
<1>3. Sound(mem, accepted', Reported', Asked')
  BY <1>1, <1>2, ReceiveFacts
<1>4. mem.job # None /\ [url |-> mem.job.url, doc |-> m.doc] \in accepted'
  BY <1>1, <1>3, AnswerFacts
<1>5. /\ Sound(s, accepted', Reported', Asked') /\ s.job = mem.job /\ s.nav = mem.nav
      /\ s.rpc = None /\ s.phase = mem.phase
  BY <1>3, ForgetRpcSound
<1> HIDE DEF s
<1>6. IsState(u) /\ u.job = s.job /\ u.nav = None /\ u.rpc = None /\ u.phase = "idle"
  BY <1>5 DEF Sound, IsState, StateFields
<1> HIDE DEF u
<1>7. Sound(u, accepted', Reported', Asked')
  BY <1>5, <1>6 DEF Sound, Correlated
<1>8. Handled(d1, accepted', Reported', Asked')
  BY <1>3, <1>4, <1>7, PostedThenSaved
<1>9. Handled(d2, accepted', Reported', Asked') /\ Handled(d4, accepted', Reported', Asked')
  BY <1>4, <1>5, GivesUp
<1>10. s.nav # None => Handled(d3, accepted', Reported', Asked')
  <2>1. s.nav # None => Navigating(s, Reported', Asked')
    BY <1>5 DEF Navigating, Sound, Correlated
  <2> QED BY <1>5, <2>1, RetryWorks, WorkIsHandled
<1> HIDE DEF d1, d2, d3, d4
<1> QED BY <1>1, <1>2, <1>8, <1>9, <1>10, ReceiveStep

LEMMA DeliverStep ==
    ASSUME ControllerInv, NEW m \in net, Deliver(m)
    PROVE  ControllerInv'
BY BeforeRequestStep, BeforeRedirectStep, CommittedStep, HttpEventStep, PageReadyStep,
   ActionPreparedStep, ActionResultStep, CaptureResultStep
   DEF Deliver

-----------------------------------------------------------------------------
(* The tick's steps.                                                        *)

\* What a tick works on: the controller's state, or one of a job it was just given or of none.
Ticked(s) ==
    /\ s.job = mem.job \/ s.rpc = None
    /\ s.job = mem.job \/ s.phase \in {"assigned", "idle"}

LEMMA TickRunsStep ==
    ASSUME ControllerInv, NEW s, NEW due, TickRuns(s, due), Ticked(s),
           slot' \in FetchJobs \cup {None},
           \A acc, rep, ask : Sound(mem, acc, rep, ask) => Sound(s, acc, rep, ask)
    PROVE  ControllerInv'
<1> DEFINE w == TickWork(s, due)
           d == IF w.state = mem /\ w.todo = <<>> THEN w ELSE ThenSave(w)
<1>1. Run(d) /\ Accept(w) /\ UNCHANGED <<browser, net, disturbances>>
  BY DEF TickRuns
<1>2. /\ Free /\ mem' = d.state /\ todo' = d.todo /\ net' \subseteq net
      /\ UNCHANGED <<requests, loading, inbox, submitted, disk>>
  BY <1>1 DEF Run, browser
<1>3. Reported \subseteq Reported' /\ Asked' = Asked
  BY <1>2, QuietStep DEF ControllerInv
<1>4. Keeps(accepted, accepted') /\ Granted(w, mem.job.url, accepted')
  BY <1>1, AcceptKeeps
<1>5. Sound(mem, accepted', Reported', Asked')
  BY <1>3, <1>4, SoundStays DEF ControllerInv, Keeps
<1>6. Sound(s, accepted', Reported', Asked')
  BY <1>5
<1>7. Granted(w, s.job.url, accepted')
  <2>1. CASE s.job = mem.job
    BY <1>4, <2>1
  <2>2. CASE s.job # mem.job
    <3>1. w.state.rpc = None
      BY <1>6, <2>2, TickAsksNothing DEF Ticked
    <3> QED BY <3>1 DEF Granted
  <2> QED BY <2>1, <2>2
<1>8. Work(w, accepted', Reported', Asked')
  BY <1>6, <1>7, TickWorks
<1>9. Handled(ThenSave(w), accepted', Reported', Asked')
  BY <1>8, WorkIsHandled
<1>10. \/ mem' = mem /\ todo' = <<>>
       \/ /\ Sound(mem', accepted', Reported', Asked')
          /\ Fresh(mem', todo', accepted', Reported', Asked')
  <2> HIDE DEF w
  <2> QED BY <1>2, <1>9 DEF Handled
<1> QED BY <1>2, <1>4, <1>10, HandlerStep

LEMMA ListedJob ==
    ASSUME NEW j \in FetchJobs
    PROVE  LET c == [id |-> j, url |-> Url(j, "list")]
           IN c \in CachedJob /\ c.url.job = c.id
BY DEF CachedJob, Url

LEMMA TabCheckedSound ==
    ASSUME NEW s, NEW acc, NEW rep, NEW ask, Sound(s, acc, rep, ask)
    PROVE  /\ Sound(TabChecked(s), acc, rep, ask)
           /\ TabChecked(s).job = s.job /\ TabChecked(s).rpc = s.rpc
<1> DEFINE t == [s EXCEPT !.bound = FALSE,
                          !.phase = IF s.job # None THEN "assigned" ELSE "idle"]
<1>1. CASE TabChecked(s) = s
  BY <1>1
<1>2. CASE TabChecked(s) = t
  <2>1. /\ IsState(t) /\ t.job = s.job /\ t.nav = s.nav /\ t.rpc = s.rpc
        /\ t.phase = IF s.job # None THEN "assigned" ELSE "idle"
    BY DEF Sound, IsState, StateFields
  <2> HIDE DEF t
  <2>2. Sound(t, acc, rep, ask)
    BY <2>1 DEF Sound, RpcSound, Correlated
  <2> QED BY <1>2, <2>1, <2>2
<1> QED BY <1>1, <1>2 DEF TabChecked

LEMMA ReconcileSound ==
    ASSUME NEW s, NEW j \in FetchJobs \cup {None}, NEW acc, NEW rep, NEW ask,
           Sound(s, acc, rep, ask)
    PROVE  /\ Sound(applyReconcile(s, j), acc, rep, ask)
           /\ \/ applyReconcile(s, j) = s
              \/ /\ applyReconcile(s, j).rpc = None
                 /\ applyReconcile(s, j).phase \in {"assigned", "idle"}
<1> DEFINE c == [id |-> j, url |-> Url(j, "list")]
           t == [s EXCEPT !.job = None, !.nav = None, !.rpc = None, !.phase = "idle"]
           u == [s EXCEPT !.job = c, !.nav = None, !.rpc = None, !.phase = "assigned"]
<1>1. \/ applyReconcile(s, j) = s
      \/ applyReconcile(s, j) = t
      \/ applyReconcile(s, j) = u /\ j # None
  BY DEF applyReconcile
<1>2. CASE applyReconcile(s, j) = s
  BY <1>2
<1>3. CASE applyReconcile(s, j) = t
  <2>1. IsState(t) /\ t.job = None /\ t.nav = None /\ t.rpc = None /\ t.phase = "idle"
    BY DEF Sound, IsState, StateFields
  <2> HIDE DEF t
  <2>2. Sound(t, acc, rep, ask)
    BY <2>1 DEF Sound, Correlated
  <2> QED BY <1>3, <2>1, <2>2
<1>4. CASE applyReconcile(s, j) = u /\ j # None
  <2>1. c \in CachedJob /\ c.url.job = c.id /\ c # None
    BY <1>4, ListedJob, NoneAssumption
  <2> HIDE DEF c
  <2>2. IsState(u) /\ u.job = c /\ u.nav = None /\ u.rpc = None /\ u.phase = "assigned"
    BY DEF Sound, IsState, StateFields
  <2> HIDE DEF u
  <2>3. Sound(u, acc, rep, ask)
    BY <2>1, <2>2 DEF Sound, Correlated
  <2> QED BY <1>4, <2>2, <2>3
<1> QED BY <1>1, <1>2, <1>3, <1>4

\* The state a tick reconciles with the bridge, and the one it claims a job for.
LEMMA ReconciledTicked ==
    ASSUME Reports
    PROVE  LET s == applyReconcile(TabChecked(mem), slot)
           IN /\ \A acc, rep, ask : Sound(mem, acc, rep, ask) =>
                      Sound(s, acc, rep, ask) /\ Ticked(s)
<1> DEFINE s == applyReconcile(TabChecked(mem), slot)
<1> SUFFICES ASSUME NEW acc, NEW rep, NEW ask, Sound(mem, acc, rep, ask)
             PROVE  Sound(s, acc, rep, ask) /\ Ticked(s)
  OBVIOUS
<1>1. Sound(TabChecked(mem), acc, rep, ask) /\ TabChecked(mem).job = mem.job
  BY TabCheckedSound
<1>2. slot \in FetchJobs \cup {None}
  BY DEF Reports
<1> QED BY <1>1, <1>2, ReconcileSound DEF Ticked

LEMMA ClaimedTicked ==
    ASSUME NEW s, NEW j \in FetchJobs, NEW acc, NEW rep, NEW ask, Sound(s, acc, rep, ask),
           s.job = None
    PROVE  LET u == [s EXCEPT !.job = [id |-> j, url |-> Url(j, "list")], !.phase = "assigned"]
           IN Sound(u, acc, rep, ask) /\ Ticked(u)
<1> DEFINE c == [id |-> j, url |-> Url(j, "list")]
           u == [s EXCEPT !.job = c, !.phase = "assigned"]
<1>1. c \in CachedJob /\ c.url.job = c.id /\ c # None
  BY ListedJob, NoneAssumption
<1> HIDE DEF c
<1>2. /\ IsState(u) /\ u.job = c /\ u.nav = s.nav /\ u.rpc = s.rpc /\ u.phase = "assigned"
      /\ s.nav = None /\ s.rpc = None
  BY DEF Sound, IsState, StateFields, Correlated
<1> HIDE DEF u
<1>3. Sound(u, acc, rep, ask) /\ Ticked(u)
  BY <1>1, <1>2 DEF Sound, Correlated, Ticked
<1> QED BY <1>3 DEF u, c

LEMMA TicksStep ==
    ASSUME ControllerInv, tick
    PROVE  ControllerInv'
<1> DEFINE s == applyReconcile(TabChecked(mem), slot)
           u(j) == [s EXCEPT !.job = [id |-> j, url |-> Url(j, "list")], !.phase = "assigned"]
<1>1. Reports /\ Sound(mem, accepted, Reported, Asked)
  BY DEF ControllerInv
<1>2. slot \in FetchJobs \cup {None}
  BY <1>1 DEF Reports
<1>3. /\ \A acc, rep, ask : Sound(mem, acc, rep, ask) => Sound(s, acc, rep, ask)
      /\ Ticked(s)
  BY <1>1, ReconciledTicked
<1>4. ASSUME NEW due, TickOffline(due)
      PROVE  ControllerInv'
  <2>1. /\ TickRuns(TabChecked(mem), due) /\ slot' = slot
    BY <1>4 DEF TickOffline, bridge
  <2>2. Ticked(TabChecked(mem))
    BY <1>1, TabCheckedSound DEF Ticked
  <2>3. \A acc, rep, ask : Sound(mem, acc, rep, ask) => Sound(TabChecked(mem), acc, rep, ask)
    BY TabCheckedSound
  <2> QED BY <1>2, <2>1, <2>2, <2>3, TickRunsStep
<1>5. ASSUME NEW due, TickRuns(s, due), slot' \in FetchJobs \cup {None}
      PROVE  ControllerInv'
  <2> HIDE DEF s
  <2> QED BY <1>3, <1>5, TickRunsStep
<1>6. ASSUME NEW due, NEW j \in FetchJobs, slot' = j, MayClaim(s), TickRuns(u(j), due)
      PROVE  ControllerInv'
  <2>1. s.job = None
    BY <1>6 DEF MayClaim
  <2> HIDE DEF s
  <2>2. /\ \A acc, rep, ask : Sound(mem, acc, rep, ask) => Sound(u(j), acc, rep, ask)
        /\ Ticked(u(j))
    BY <1>1, <1>3, <2>1, ClaimedTicked
  <2> HIDE DEF u
  <2> QED BY <1>6, <2>2, TickRunsStep
<1>7. ASSUME NEW due, TickOnline(due)
      PROVE  ControllerInv'
  <2>1. CASE TickRuns(s, due) /\ UNCHANGED bridge
    BY <1>2, <1>5, <2>1 DEF bridge
  <2>2. CASE \E j \in FetchJobs : slot' = j /\ MayClaim(s) /\ TickRuns(u(j), due)
    BY <1>6, <2>2
  <2> QED BY <1>7, <2>1, <2>2 DEF TickOnline
<1>8. CASE TickClaimLost
  <2>1. TickRuns(s, FALSE) /\ slot' \in FetchJobs
    BY <1>8 DEF TickClaimLost
  <2> QED BY <1>5, <2>1
<1> QED BY <1>4, <1>7, <1>8 DEF tick

-----------------------------------------------------------------------------
(* The commands' steps.                                                     *)

LEMMA CommandFacts ==
    ASSUME ControllerInv, NEW d, Run(d), net' \subseteq net, UNCHANGED bridge,
           UNCHANGED <<requests, loading, live, inbox>>, Keeps(accepted, accepted')
    PROVE  /\ Sound(mem, accepted', Reported', Asked')
           /\ mem' = d.state /\ todo' = d.todo
           /\ \/ mem' = mem /\ todo' = <<>>
              \/ Handled(d, accepted', Reported', Asked')
              => ControllerInv'
<1>1. /\ Free /\ mem' = d.state /\ todo' = d.todo
      /\ UNCHANGED <<requests, loading, inbox, submitted, disk, slot>>
  BY DEF Run, bridge
<1>2. Reported \subseteq Reported' /\ Asked' = Asked /\ slot' \in FetchJobs \cup {None}
  BY <1>1, QuietStep DEF ControllerInv, Reports
<1>3. Sound(mem, accepted', Reported', Asked')
  BY <1>2, SoundStays DEF ControllerInv, Keeps
<1> QED BY <1>1, <1>2, <1>3, HandlerStep DEF Handled

LEMMA BoundCommandFacts ==
    ASSUME ControllerInv, NEW d, BoundCommand(d)
    PROVE  /\ Sound(mem, accepted', Reported', Asked')
           /\ Handled(d, accepted', Reported', Asked') => ControllerInv'
           /\ d.state = mem /\ d.todo = <<>> => ControllerInv'
<1>1. /\ Run(d) /\ UNCHANGED <<bridge, browser, net, accepted>>
  BY DEF BoundCommand, Command
<1> QED BY <1>1, CommandFacts, NothingAccepted DEF browser

LEMMA StartStep ==
    ASSUME ControllerInv, start
    PROVE  ControllerInv'
<1> DEFINE ph == IF ~mem.bound THEN "assigned" ELSE mem.phase
           s == [mem EXCEPT !.bound = TRUE, !.auto = TRUE, !.paused = FALSE, !.phase = ph]
           t == [s EXCEPT !.phase = IF s.phase = "assigned" /\ s.job = None THEN "idle" ELSE @]
<1>1. /\ Run(Do(t, <<Save>>)) /\ net' \subseteq net /\ accepted' = accepted
      /\ UNCHANGED bridge /\ UNCHANGED <<requests, loading, live, inbox>>
  BY DEF start
<1>2. Sound(mem, accepted', Reported', Asked')
  BY <1>1, CommandFacts, NothingAccepted
<1>3. IsState(s) /\ s.job = mem.job /\ s.nav = mem.nav /\ s.rpc = mem.rpc /\ s.phase = ph
  BY <1>2 DEF Sound, IsState, StateFields
<1>4. s.job = None => ph \in {"assigned", "idle"}
  BY <1>2, <1>3 DEF Sound, Correlated
<1> HIDE DEF s, ph
<1>5. /\ IsState(t) /\ t.job = mem.job /\ t.nav = mem.nav /\ t.rpc = mem.rpc
      /\ t.phase = IF s.phase = "assigned" /\ s.job = None THEN "idle" ELSE s.phase
  BY <1>3 DEF IsState, StateFields
<1> HIDE DEF t
<1>6. Sound(t, accepted', Reported', Asked')
  BY <1>2, <1>3, <1>4, <1>5 DEF Sound, RpcSound, Correlated
<1> QED BY <1>1, <1>6, CommandFacts, JustSaved, NothingAccepted

LEMMA UnbindStep ==
    ASSUME ControllerInv, unbind
    PROVE  ControllerInv'
<1> DEFINE t == [mem EXCEPT !.bound = FALSE,
                            !.phase = IF mem.job # None THEN "assigned" ELSE "idle"]
<1>1. BoundCommand(Do(t, <<Save>>))
  BY DEF unbind
<1>2. Sound(mem, accepted', Reported', Asked')
  BY <1>1, BoundCommandFacts
<1>3. /\ IsState(t) /\ t.job = mem.job /\ t.nav = mem.nav /\ t.rpc = mem.rpc
      /\ t.phase = IF mem.job # None THEN "assigned" ELSE "idle"
  BY <1>2 DEF Sound, IsState, StateFields
<1> HIDE DEF t
<1>4. Sound(t, accepted', Reported', Asked')
  BY <1>2, <1>3 DEF Sound, RpcSound, Correlated
<1> QED BY <1>1, <1>4, BoundCommandFacts, JustSaved

LEMMA ModeStep ==
    ASSUME ControllerInv, NEW on, setAutoMode(on) \/ setPaused(on)
    PROVE  ControllerInv'
<1>1. PICK t : /\ BoundCommand(Do(t, <<Save>>))
               /\ \/ t = [mem EXCEPT !.auto = on,
                             !.phase = IF on /\ @ = "assigned" /\ mem.job = None
                                       THEN "idle" ELSE @]
                  \/ t = [mem EXCEPT !.paused = on]
  BY DEF setAutoMode, setPaused
<1>2. Sound(mem, accepted', Reported', Asked')
  BY <1>1, BoundCommandFacts
<1>3. /\ IsState(t) /\ t.job = mem.job /\ t.nav = mem.nav /\ t.rpc = mem.rpc
      /\ t.phase \in {mem.phase, "idle"}
  BY <1>1, <1>2 DEF Sound, IsState, StateFields
<1>4. Sound(t, accepted', Reported', Asked')
  BY <1>2, <1>3 DEF Sound, RpcSound, Correlated
<1> QED BY <1>1, <1>4, BoundCommandFacts, JustSaved

LEMMA RetryCaptureStep ==
    ASSUME ControllerInv, retryCapture
    PROVE  ControllerInv'
<1> DEFINE d == dispatchCaptureFromDocument(mem, live)
<1>1. /\ Run(d) /\ Accept(d) /\ UNCHANGED <<bridge, browser, net>>
      /\ mem.job # None /\ mem.bound /\ live # None
  BY DEF retryCapture, Command
<1>2. Keeps(accepted, accepted') /\ Granted(d, mem.job.url, accepted')
  BY <1>1, AcceptKeeps
<1>3. Sound(mem, accepted', Reported', Asked')
  BY <1>1, <1>2, CommandFacts DEF browser
<1>4. Work(d, accepted', Reported', Asked')
  BY <1>2, <1>3, CaptureWorks
<1>5. d.todo = <<Save, Send>>
  BY <1>1, DoFields DEF dispatchCaptureFromDocument
<1> HIDE DEF d
<1>6. Handled(d, accepted', Reported', Asked')
  BY <1>4, <1>5, WorkLeft
<1> QED BY <1>1, <1>2, <1>6, CommandFacts DEF browser

LEMMA ReopenStep ==
    ASSUME ControllerInv, reopenCurrentJob
    PROVE  ControllerInv'
<1> DEFINE s == [mem EXCEPT !.auto = TRUE, !.paused = FALSE, !.rpc = None]
<1>1. PICK a : BoundCommand(navigateNow(s, a)) /\ mem.job # None /\ mem.bound
  BY DEF reopenCurrentJob, BoundCommand, Command
<1>2. Sound(mem, accepted', Reported', Asked')
  BY <1>1, BoundCommandFacts
<1>3. /\ IsState(s) /\ s.job = mem.job /\ s.nav = mem.nav /\ s.rpc = None
      /\ s.phase = mem.phase /\ s.auto /\ ~s.paused /\ s.bound = mem.bound
  BY <1>2 DEF Sound, IsState, StateFields
<1> HIDE DEF s
<1>4. Sound(s, accepted', Reported', Asked')
  BY <1>2, <1>3 DEF Sound, Correlated
<1>5. Work(navigateNow(s, a), accepted', Reported', Asked')
  BY <1>4, NavigateWorks
<1>6. navigateNow(s, a).todo = <<Save, Open(s.job.url)>>
  BY <1>1, <1>3, DoFields DEF navigateNow
<1>7. Handled(navigateNow(s, a), accepted', Reported', Asked')
  BY <1>5, <1>6, WorkLeft
<1> QED BY <1>1, <1>7, BoundCommandFacts

LEMMA GiveUpByHandStep ==
    ASSUME ControllerInv, manualSkip \/ manualFail
    PROVE  ControllerInv'
<1>1. PICK v \in {"skipped", "failed"}, ph \in {"assigned", "error"} :
          /\ mem.job # None
          /\ BoundCommand(Do(mem, <<Post(v, mem.job.id, None),
                Become([mem EXCEPT !.nav = None, !.rpc = None, !.phase = ph]), Save>>))
  BY DEF manualSkip, manualFail
<1> DEFINE u == [mem EXCEPT !.nav = None, !.rpc = None, !.phase = ph]
<1>2. Sound(mem, accepted', Reported', Asked')
  BY <1>1, BoundCommandFacts
<1>3. Sound(u, accepted', Reported', Asked')
  BY <1>1, <1>2, BlankSound
<1> HIDE DEF u
<1>4. v # "completed"
  OBVIOUS
<1>5. Handled(Do(mem, <<Post(v, mem.job.id, None), Become(u), Save>>),
              accepted', Reported', Asked')
  BY <1>2, <1>3, <1>4, PostedThenSaved
<1> QED BY <1>1, <1>5, BoundCommandFacts DEF u

LEMMA OverrideStep ==
    ASSUME ControllerInv, NEW heard, overrideUrl(heard)
    PROVE  ControllerInv'
<1> DEFINE c == [mem.job EXCEPT !.url = IF heard THEN Url(mem.job.id, "moved") ELSE @]
           t == [mem EXCEPT !.job.url = IF heard THEN Url(mem.job.id, "moved") ELSE @,
                            !.nav = None, !.rpc = None, !.phase = "assigned"]
<1>1. BoundCommand(Do(t, <<Save>>)) /\ mem.job # None
  BY DEF overrideUrl
<1>2. Sound(mem, accepted', Reported', Asked')
  BY <1>1, BoundCommandFacts
<1>3. mem.job \in CachedJob /\ mem.job.url.job = mem.job.id
  BY <1>1, <1>2 DEF Sound
<1>4. c \in CachedJob /\ c.id = mem.job.id /\ c.url.job = c.id
  BY <1>3 DEF CachedJob, Url
<1>5. c # None
  BY <1>4, NoneAssumption
<1>6. /\ IsState(t) /\ t.job = c /\ t.nav = None /\ t.rpc = None /\ t.phase = "assigned"
  BY <1>2 DEF Sound, IsState, StateFields
<1> HIDE DEF t, c
<1>7. Sound(t, accepted', Reported', Asked')
  BY <1>4, <1>5, <1>6 DEF Sound, Correlated
<1> QED BY <1>1, <1>7, BoundCommandFacts, JustSaved

LEMMA CommandsStep ==
    ASSUME ControllerInv, Commands
    PROVE  ControllerInv'
BY StartStep, UnbindStep, ModeStep, RetryCaptureStep, ReopenStep, GiveUpByHandStep, OverrideStep
   DEF Commands

-----------------------------------------------------------------------------
(* The awaits.                                                              *)

LEMMA AwaitKinds ==
    /\ Save.await = "save" /\ Send.await = "send" /\ Resend.await = "resend"
    /\ \A s : Become(s).await = "become" /\ Become(s).state = s
BY DEF Save, Send, Resend, Become

LEMMA InHandStays ==
    ASSUME NEW s, NEW dk, NEW q, NEW acc, NEW rep, NEW ask, NEW rep2, NEW ask2,
           InHand(s, dk, q, acc, rep, ask), rep \subseteq rep2, ask2 \subseteq ask
    PROVE  InHand(s, dk, q, acc, rep2, ask2)
<1>1. \A u : MaySend(u, rep, ask) => MaySend(u, rep2, ask2)
  BY DEF MaySend
<1>2. \A b : IsBecome(b, acc, rep, ask) => IsBecome(b, acc, rep2, ask2)
  BY SoundStays DEF IsBecome
<1>3. Saved(s, q, rep, ask) => Saved(s, q, rep2, ask2)
  BY <1>1 DEF Saved
<1>4. Fresh(s, q, acc, rep, ask) => Fresh(s, q, acc, rep2, ask2)
  BY <1>1, <1>2 DEF Fresh
<1>5. Later(s, q, acc, rep, ask) => Later(s, q, acc, rep2, ask2)
  BY <1>1, <1>2 DEF Later
<1> QED BY <1>3, <1>4, <1>5 DEF InHand

\* What the first await of a handler is, and what is left after it.
Onward(s, dk, a, r, acc, rep, ask) ==
    /\ a.await = "save" => Saved(s, r, rep, ask) \/ Later(s, r, acc, rep, ask)
    /\ a.await = "update" => dk = s /\ r = <<>> /\ a.url \in PageUrls
    /\ a.await \in {"send", "resend"} => dk = s /\ r = <<>> /\ MaySend(s, rep, ask)
    /\ a.await = "post" => Fresh(s, r, acc, rep, ask) \/ Later(s, r, acc, rep, ask)
    /\ a.await = "become" =>
         /\ Sound(a.state, acc, rep, ask)
         /\ \/ r = <<>> /\ dk = s /\ a.state = s
            \/ Fresh(a.state, r, acc, rep, ask)

LEMMA SavedOnward ==
    ASSUME NEW s, NEW q, NEW acc, NEW rep, NEW ask, Sound(s, acc, rep, ask),
           Saved(s, q, rep, ask), q # <<>>
    PROVE  Onward(s, s, Head(q), Tail(q), acc, rep, ask)
<1>1. ASSUME NEW a, q = <<a>>
      PROVE  Head(q) = a /\ Tail(q) = <<>>
  BY <1>1
<1>2. CASE q = <<Become(s)>>
  BY <1>1, <1>2, AwaitKinds DEF Onward
<1>3. CASE Len(q) = 1 /\ q = <<q[1]>> /\ IsOpen(q[1])
  BY <1>1, <1>3 DEF Onward, IsOpen
<1>4. CASE q \in {<<Send>>, <<Resend>>} /\ MaySend(s, rep, ask)
  BY <1>1, <1>4, AwaitKinds DEF Onward
<1> QED BY <1>2, <1>3, <1>4 DEF Saved

LEMMA FreshOnward ==
    ASSUME NEW s, NEW dk, NEW q, NEW acc, NEW rep, NEW ask, Sound(s, acc, rep, ask),
           Fresh(s, q, acc, rep, ask)
    PROVE  Onward(s, dk, Head(q), Tail(q), acc, rep, ask) /\ q # <<>>
<1>1. ASSUME NEW a, q = <<a>>
      PROVE  Head(q) = a /\ Tail(q) = <<>> /\ q # <<>>
  BY <1>1
<1>2. ASSUME NEW a, NEW b, q = <<a, b>>
      PROVE  Head(q) = a /\ Tail(q) = <<b>> /\ q # <<>>
  BY <1>2
<1>3. ASSUME NEW a, NEW b, NEW c, q = <<a, b, c>>
      PROVE  Head(q) = a /\ Tail(q) = <<b, c>> /\ q # <<>>
  BY <1>3
<1>4. ASSUME NEW a, NEW b, NEW c, NEW e, q = <<a, b, c, e>>
      PROVE  Head(q) = a /\ Tail(q) = <<b, c, e>> /\ q # <<>>
  BY <1>4
<1>5. ASSUME Head(q) = Save, Saved(s, Tail(q), rep, ask) \/ Later(s, Tail(q), acc, rep, ask)
      PROVE  Onward(s, dk, Head(q), Tail(q), acc, rep, ask)
  BY <1>5, AwaitKinds DEF Onward
<1>6. CASE q = <<Save>>
  <2>1. Head(q) = Save /\ Tail(q) = <<>> /\ q # <<>>
    BY <1>1, <1>6
  <2> QED BY <1>5, <2>1 DEF Saved
<1>7. CASE q = <<Save, Become(s)>>
  <2>1. Head(q) = Save /\ Tail(q) = <<Become(s)>> /\ q # <<>>
    BY <1>2, <1>7
  <2> QED BY <1>5, <2>1 DEF Saved
<1>8. CASE Len(q) = 2 /\ q = <<Save, q[2]>> /\ IsOpen(q[2])
  <2>1. Head(q) = Save /\ Tail(q) = <<q[2]>> /\ q # <<>>
    BY <1>2, <1>8
  <2>2. ASSUME NEW x, x = q[2]
        PROVE  Saved(s, <<x>>, rep, ask)
    BY <1>8, <2>2 DEF Saved
  <2> QED BY <1>5, <2>1, <2>2
<1>9. CASE q \in {<<Save, Send>>, <<Save, Resend>>} /\ MaySend(s, rep, ask)
  <2>1. Head(q) = Save /\ Tail(q) \in {<<Send>>, <<Resend>>} /\ q # <<>>
    BY <1>2, <1>9
  <2> QED BY <1>5, <1>9, <2>1 DEF Saved
<1>10. CASE Len(q) = 2 /\ q = <<q[1], Save>> /\ IsPost(q[1])
  <2>1. Head(q) = q[1] /\ Tail(q) = <<Save>> /\ q # <<>>
    BY <1>2, <1>10
  <2> QED BY <1>10, <2>1 DEF Onward, IsPost, Fresh
<1>11. CASE /\ Len(q) = 3 /\ q = <<q[1], q[2], Save>> /\ IsPost(q[1])
            /\ IsBecome(q[2], acc, rep, ask)
  <2>1. Head(q) = q[1] /\ Tail(q) = <<q[2], Save>> /\ q # <<>>
    BY <1>3, <1>11
  <2>2. ASSUME NEW x, x = q[2]
        PROVE  Later(s, <<x, Save>>, acc, rep, ask)
    <3>1. Len(<<x, Save>>) = 2 /\ <<x, Save>>[1] = x
      OBVIOUS
    <3> QED BY <1>11, <2>2, <3>1 DEF Later
  <2> QED BY <1>11, <2>1, <2>2 DEF Onward, IsPost
<1>12. CASE /\ Len(q) = 4 /\ q = <<Save, q[2], Save, Send>>
            /\ IsBecome(q[2], acc, rep, ask) /\ MaySend(q[2].state, rep, ask)
  <2>1. Head(q) = Save /\ Tail(q) = <<q[2], Save, Send>> /\ q # <<>>
    BY <1>4, <1>12
  <2>2. ASSUME NEW x, x = q[2]
        PROVE  Later(s, <<x, Save, Send>>, acc, rep, ask)
    <3>1. LET y == <<x, Save, Send>> IN Len(y) = 3 /\ y[1] = x
      OBVIOUS
    <3> QED BY <1>12, <2>2, <3>1 DEF Later
  <2> QED BY <1>5, <2>1, <2>2
<1> QED BY <1>6, <1>7, <1>8, <1>9, <1>10, <1>11, <1>12 DEF Fresh

LEMMA LaterOnward ==
    ASSUME NEW s, NEW dk, NEW q, NEW acc, NEW rep, NEW ask, Later(s, q, acc, rep, ask)
    PROVE  Onward(s, dk, Head(q), Tail(q), acc, rep, ask) /\ q # <<>>
<1>1. ASSUME NEW a, NEW b, q = <<a, b>>
      PROVE  Head(q) = a /\ Tail(q) = <<b>> /\ q # <<>>
  BY <1>1
<1>2. ASSUME NEW a, NEW b, NEW c, q = <<a, b, c>>
      PROVE  Head(q) = a /\ Tail(q) = <<b, c>> /\ q # <<>>
  BY <1>2
<1>3. CASE Len(q) = 2 /\ q = <<q[1], Save>> /\ IsBecome(q[1], acc, rep, ask)
  <2>1. Head(q) = q[1] /\ Tail(q) = <<Save>> /\ q # <<>>
    BY <1>1, <1>3
  <2> QED BY <1>3, <2>1 DEF Onward, IsBecome, Fresh
<1>4. CASE /\ Len(q) = 3 /\ q = <<q[1], Save, Send>>
           /\ IsBecome(q[1], acc, rep, ask) /\ MaySend(q[1].state, rep, ask)
  <2>1. Head(q) = q[1] /\ Tail(q) = <<Save, Send>> /\ q # <<>>
    BY <1>2, <1>4
  <2> QED BY <1>4, <2>1 DEF Onward, IsBecome, Fresh
<1> QED BY <1>3, <1>4 DEF Later

LEMMA InHandOnward ==
    ASSUME NEW s, NEW dk, NEW q, NEW acc, NEW rep, NEW ask, Sound(s, acc, rep, ask),
           InHand(s, dk, q, acc, rep, ask), q # <<>>
    PROVE  Onward(s, dk, Head(q), Tail(q), acc, rep, ask)
BY SavedOnward, FreshOnward, LaterOnward DEF InHand

LEMMA AwaitFacts ==
    ASSUME ControllerInv, NEW k, Await(k)
    PROVE  /\ todo # <<>> /\ Head(todo).await = k
           /\ Onward(mem, disk, Head(todo), Tail(todo), accepted, Reported, Asked)
<1>1. todo # <<>> /\ Head(todo).await = k
  BY DEF Await
<1> QED BY <1>1, InHandOnward DEF ControllerInv

\* The controller's state and its pending awaits stay sound while more pages report.
LEMMA RestStep ==
    ASSUME Sound(mem', accepted, Reported, Asked), Sound(disk', accepted, Reported, Asked),
           InHand(mem', disk', todo', accepted, Reported, Asked), accepted' = accepted,
           Reported \subseteq Reported', Asked' \subseteq Asked,
           Reports', Forms', OneSubmitPerPage'
    PROVE  ControllerInv'
<1>1. /\ Sound(mem', accepted', Reported', Asked') /\ Sound(disk', accepted', Reported', Asked')
  BY SoundStays
<1>2. InHand(mem', disk', todo', accepted', Reported', Asked')
  BY InHandStays
<1> QED BY <1>1, <1>2 DEF ControllerInv

LEMMA CalmStep ==
    ASSUME ControllerInv, net' \subseteq net, slot' \in {slot, None},
           UNCHANGED <<requests, loading, inbox, submitted, accepted>>,
           Sound(mem', accepted, Reported, Asked), Sound(disk', accepted, Reported, Asked),
           InHand(mem', disk', todo', accepted, Reported, Asked)
    PROVE  ControllerInv'
<1>1. slot' \in FetchJobs \cup {None}
  BY DEF ControllerInv, Reports
<1>2. /\ Reports' /\ Forms' /\ OneSubmitPerPage' /\ Reported \subseteq Reported'
      /\ Asked' = Asked
  BY <1>1, QuietStep DEF ControllerInv
<1> QED BY <1>2, RestStep

LEMMA PersistStep ==
    ASSUME ControllerInv, persist
    PROVE  ControllerInv'
<1>1. /\ todo' = Tail(todo) /\ mem' = mem /\ disk' = mem /\ net' \subseteq net
      /\ UNCHANGED <<requests, loading, inbox, submitted, slot, accepted>>
  BY DEF persist, browser, history, bridge
<1>2. Saved(mem, todo', Reported, Asked) \/ Later(mem, todo', accepted, Reported, Asked)
  BY <1>1, AwaitFacts DEF persist, Onward
<1>3. InHand(mem', disk', todo', accepted, Reported, Asked)
  BY <1>1, <1>2 DEF InHand
<1> QED BY <1>1, <1>3, CalmStep DEF ControllerInv

LEMMA PostStep ==
    ASSUME ControllerInv, NEW arrives, postVerdict(arrives)
    PROVE  ControllerInv'
<1>1. /\ todo' = Tail(todo) /\ mem' = mem /\ disk' = disk /\ net' \subseteq net
      /\ UNCHANGED <<requests, loading, inbox, submitted, accepted>>
      /\ slot' \in {slot, None}
  BY DEF postVerdict, browser, history, bridge
<1>2. Fresh(mem, todo', accepted, Reported, Asked) \/ Later(mem, todo', accepted, Reported, Asked)
  BY <1>1, AwaitFacts DEF postVerdict, Onward
<1>3. InHand(mem', disk', todo', accepted, Reported, Asked)
  BY <1>1, <1>2 DEF InHand
<1> QED BY <1>1, <1>3, CalmStep DEF ControllerInv

LEMMA ResumeStep ==
    ASSUME ControllerInv, resume
    PROVE  ControllerInv'
<1>1. /\ todo' = Tail(todo) /\ mem' = Head(todo).state /\ disk' = disk /\ net' \subseteq net
      /\ UNCHANGED <<requests, loading, inbox, submitted, slot, accepted>>
  BY DEF resume, browser, history, bridge
<1>2. /\ Sound(mem', accepted, Reported, Asked)
      /\ \/ todo' = <<>> /\ disk = mem /\ mem' = mem
         \/ Fresh(mem', todo', accepted, Reported, Asked)
  BY <1>1, AwaitFacts DEF resume, Onward
<1>3. InHand(mem', disk', todo', accepted, Reported, Asked)
  BY <1>1, <1>2 DEF InHand, Saved
<1> QED BY <1>1, <1>2, <1>3, CalmStep DEF ControllerInv

LEMMA CrashStep ==
    ASSUME ControllerInv, Crash
    PROVE  ControllerInv'
<1>1. /\ todo' = <<>> /\ mem' = disk /\ disk' = disk /\ net' \subseteq net
      /\ UNCHANGED <<requests, loading, inbox, submitted, slot, accepted>>
  BY DEF Crash, browser, history, bridge
<1>2. InHand(mem', disk', todo', accepted, Reported, Asked)
  BY <1>1 DEF InHand, Saved
<1> QED BY <1>1, <1>2, CalmStep DEF ControllerInv

LEMMA TimesOutStep ==
    ASSUME ControllerInv, JobTimesOut
    PROVE  ControllerInv'
<1>1. /\ UNCHANGED <<todo, mem, disk>> /\ net' \subseteq net
      /\ UNCHANGED <<requests, loading, inbox, submitted, accepted>> /\ slot' = None
  BY DEF JobTimesOut, browser, history
<1> QED BY <1>1, CalmStep DEF ControllerInv

\* A form is asked for from a page that was not asked before, with a navigation and an RPC
\* that claim nothing of the page's form.
LEMMA SendStep ==
    ASSUME ControllerInv, sendMessage
    PROVE  ControllerInv'
<1>1. /\ disk = mem /\ Tail(todo) = <<>> /\ MaySend(mem, Reported, Asked)
  <2>1. PICK k \in {"send", "resend"} : Await(k)
    BY DEF sendMessage
  <2> QED BY <2>1, AwaitFacts DEF Onward
<1>2. /\ UNCHANGED <<disk, slot, requests, loading, net, accepted, submitted>>
  BY DEF sendMessage, bridge, history
<1>3. CASE inbox' = inbox /\ mem' = mem /\ todo' = <<>>
  <2>1. InHand(mem', disk', todo', accepted, Reported, Asked)
    BY <1>1, <1>2, <1>3 DEF InHand, Saved
  <2> QED BY <1>2, <1>3, <2>1, CalmStep DEF ControllerInv
<1>4. CASE inbox' = inbox /\ mem' = Unavailable(mem) /\ todo' = <<Save>>
  <2>1. Sound(mem', accepted, Reported, Asked)
    BY <1>1, <1>4, UnavailableSound DEF ControllerInv, MaySend
  <2>2. InHand(mem', disk', todo', accepted, Reported, Asked)
    BY <1>4 DEF InHand, Fresh
  <2> QED BY <1>2, <1>4, <2>1, <2>2, CalmStep DEF ControllerInv
<1>5. CASE inbox' = inbox \cup {mem.rpc} /\ mem' = mem /\ todo' = <<>>
  <2>1. Reported' = Reported /\ Reports'
    BY <1>2 DEF Reported, Reports, ControllerInv
  <2>2. mem.rpc.op # "perform" => Asked' = Asked
    BY <1>2, <1>5 DEF Asked
  <2>3. mem.rpc.op = "perform" => Asked' = Asked \cup {mem.rpc.doc}
    BY <1>2, <1>5 DEF Asked
  <2>4. Forms'
    <3>1. \A r \in inbox' : r.job \in FetchJobs
      BY <1>1, <1>5 DEF ControllerInv, Forms, MaySend
    <3>2. Asked' \subseteq Reported'
      BY <1>1, <2>1, <2>2, <2>3 DEF ControllerInv, Forms, MaySend
    <3>3. \A r, t \in inbox' : r.op = "perform" /\ t.op = "perform" /\ r.doc = t.doc => r = t
      BY <1>1, <1>5 DEF ControllerInv, Forms, MaySend, Asked
    <3> QED BY <3>1, <3>2, <3>3 DEF Forms
  <2>5. OneSubmitPerPage'
    BY <1>1, <1>2, <1>5 DEF ControllerInv, OneSubmitPerPage, MaySend, Asked
  <2>6. Sound(mem, accepted, Reported, Asked')
    <3>1. CASE mem.rpc.op # "perform"
      BY <2>2, <3>1 DEF ControllerInv
    <3>2. CASE mem.rpc.op = "perform"
      <4>1. mem.nav.kind = "form_action"
        BY <1>1, <3>2 DEF MaySend
      <4> QED BY <3>2, <4>1 DEF ControllerInv, Sound, NavSound, RpcSound
    <3> QED BY <3>1, <3>2
  <2>7. InHand(mem', disk', todo', accepted', Reported', Asked')
    BY <1>1, <1>2, <1>5 DEF InHand, Saved
  <2> QED BY <1>1, <1>2, <1>5, <2>1, <2>4, <2>5, <2>6, <2>7 DEF ControllerInv
<1>6. <<Save>> \o Tail(todo) = <<Save>>
  <2>1. <<Save>> \in Seq({Save})
    OBVIOUS
  <2> QED BY <1>1, <2>1, ConcatEmptySeq
<1> QED BY <1>1, <1>3, <1>4, <1>5, <1>6 DEF sendMessage

-----------------------------------------------------------------------------
(* The browser's and the page's steps.                                      *)

\* Whatever a page does, it asks nothing of itself.
LEMMA PageStep ==
    ASSUME ControllerInv, UNCHANGED <<mem, disk, todo, accepted>>,
           Reported \subseteq Reported', Reports',
           inbox' \subseteq inbox, Asked' \subseteq Asked, OneSubmitPerPage'
    PROVE  ControllerInv'
<1>1. Forms'
  BY DEF ControllerInv, Forms
<1> QED BY <1>1, RestStep DEF ControllerInv

LEMMA LessAsked ==
    ASSUME OneSubmitPerPage, inbox' \subseteq inbox, submitted' = submitted
    PROVE  Asked' \subseteq Asked /\ OneSubmitPerPage'
BY DEF Asked, OneSubmitPerPage

LEMMA LoadStep ==
    ASSUME ControllerInv, NEW page, Load(page)
    PROVE  ControllerInv'
<1> DEFINE c == [event |-> "commit", doc |-> loading, onsite |-> TRUE, at |-> clock]
           h == [event |-> "completed", request |-> loading,
                 doc |-> IF DocumentIds THEN loading ELSE None, outcome |-> page.outcome]
           y == [event |-> "ready", doc |-> loading, seen |-> page.seen]
<1>1. /\ UNCHANGED <<mem, disk, todo, accepted, submitted, slot, requests>>
      /\ loading # None /\ loading' = None /\ inbox' = {} /\ net' = net \cup {c, h, y}
  BY DEF Load, Outside, PageActs, bridge
<1>2. /\ c.event = "commit" /\ c.doc = loading /\ h.event = "completed"
      /\ y.event = "ready" /\ y.doc = loading
  OBVIOUS
<1> HIDE DEF c, h, y
<1>3. Reported \subseteq Reported'
  BY <1>1, <1>2 DEF Reported
<1>4. Reports'
  <2>1. \A m \in net' : m.event = "ready" => m = y \/ (m \in net /\ m.doc # y.doc)
    BY <1>1, <1>2 DEF ControllerInv, Reports
  <2>2. /\ \A m \in net' : m.event = "commit" => m.doc # None
        /\ \A m \in net' : m.event = "ready" => m.doc \in 1..Len(requests)
    BY <1>1, <1>2 DEF ControllerInv, Reports
  <2> QED BY <1>1, <2>1, <2>2 DEF ControllerInv, Reports
<1> QED BY <1>1, <1>3, <1>4, LessAsked, PageStep DEF ControllerInv

\* Events that neither report a page nor commit a document.
Minor(S) == \A m \in S : m.event \notin {"ready", "commit"}

\* No step but a load reports a page.
LEMMA NoNewReport ==
    ASSUME Reports, requests' \in Seq(PageUrls), Len(requests) <= Len(requests'),
           loading' \in {loading, None} \/ loading' = Len(requests) + 1,
           loading' # None => loading' \in 1..Len(requests'),
           \A m \in net' : m \in net \/ m.event \notin {"ready", "commit"}
                                \/ (m.event = "commit" /\ m.doc # None),
           slot' = slot
    PROVE  Reports' /\ Reported \subseteq Reported'
<1>1. Len(requests) \in Nat /\ Len(requests') \in Nat
  BY DEF Reports
<1>2. Reported \subseteq Reported'
  BY <1>1 DEF Reported
<1>3. Reports'
  BY <1>1 DEF Reports
<1> QED BY <1>2, <1>3

LEMMA StartRequestFacts ==
    ASSUME Reports, NEW u \in PageUrls, NEW S, Minor(S), StartRequest(u, S), slot' = slot
    PROVE  Reports' /\ Reported \subseteq Reported'
<1> DEFINE q == [event |-> "request", request |-> Len(requests) + 1, url |-> u, at |-> clock]
           f == [event |-> "failed", request |-> loading]
<1>1. q.event = "request" /\ f.event = "failed"
  OBVIOUS
<1>2. requests \in Seq(PageUrls) /\ Len(requests) \in Nat
  BY DEF Reports
<1>3. CASE Len(requests) < MaxRequests
  <2>1. /\ requests' = Append(requests, u) /\ loading' = Len(requests) + 1
        /\ \A m \in net' : m \in net \/ m \in S \/ m \in {q, f}
    BY <1>3 DEF StartRequest
  <2>2. requests' \in Seq(PageUrls) /\ Len(requests') = Len(requests) + 1
    BY <1>2, <2>1
  <2> HIDE DEF q, f
  <2> QED BY <1>1, <1>2, <2>1, <2>2, NoNewReport DEF Minor
<1>4. CASE ~(Len(requests) < MaxRequests)
  <2>1. UNCHANGED <<requests, loading>> /\ net' = net \cup S
    BY <1>4 DEF StartRequest
  <2> QED BY <1>2, <2>1, NoNewReport DEF Minor, Reports
<1> QED BY <1>3, <1>4

LEMMA UpdateStep ==
    ASSUME ControllerInv, updateTabUrl
    PROVE  ControllerInv'
<1> DEFINE u == Head(todo).url
<1>1. /\ disk = mem /\ Tail(todo) = <<>> /\ u \in PageUrls
  BY AwaitFacts DEF updateTabUrl, Onward
<1>2. /\ UNCHANGED <<mem, disk, slot, inbox, accepted, submitted>> /\ todo' = <<>>
      /\ StartRequest(u, {}) \/ UNCHANGED <<requests, loading, net>>
  BY <1>1 DEF updateTabUrl, bridge, history
<1> HIDE DEF u
<1>3. Reports' /\ Reported \subseteq Reported'
  <2>1. CASE StartRequest(u, {})
    BY <1>1, <1>2, <2>1, StartRequestFacts DEF ControllerInv, Minor
  <2>2. CASE UNCHANGED <<requests, loading, net>>
    BY <1>2, <2>2, NoNewReport DEF ControllerInv, Reports
  <2> QED BY <1>2, <2>1, <2>2
<1>4. Asked' \subseteq Asked /\ OneSubmitPerPage'
  BY <1>2, LessAsked DEF ControllerInv
<1>5. Forms'
  BY <1>2, <1>3, <1>4 DEF ControllerInv, Forms
<1>6. InHand(mem', disk', todo', accepted, Reported, Asked)
  BY <1>1, <1>2 DEF InHand, Saved
<1> QED BY <1>2, <1>3, <1>4, <1>5, <1>6, RestStep DEF ControllerInv

LEMMA BrowserStep ==
    ASSUME ControllerInv,
           LoadOffsite \/ LoadFails \/ FollowLink \/ HistoryStateUpdated \/ CloseTab
    PROVE  ControllerInv'
<1>1. /\ UNCHANGED <<mem, disk, todo, accepted, submitted, slot>> /\ inbox' \subseteq inbox
  BY DEF LoadOffsite, LoadFails, FollowLink, HistoryStateUpdated, CloseTab, Outside, PageActs,
         bridge, browser
<1>2. requests \in Seq(PageUrls) /\ Len(requests) \in Nat
  BY DEF ControllerInv, Reports
<1>3. Reports' /\ Reported \subseteq Reported'
  <2>1. CASE LoadOffsite
    <3> DEFINE c == [event |-> "commit", doc |-> loading, onsite |-> FALSE, at |-> clock]
               r == [event |-> "redirect", request |-> loading]
    <3>1. /\ requests' = requests /\ loading # None /\ loading' = None
          /\ net' = net \cup {r, c}
      BY <2>1 DEF LoadOffsite
    <3>2. c.event = "commit" /\ c.doc = loading /\ r.event = "redirect"
      OBVIOUS
    <3> HIDE DEF c, r
    <3> QED BY <1>1, <1>2, <3>1, <3>2, NoNewReport DEF ControllerInv
  <2>2. CASE LoadFails
    <3> DEFINE f == [event |-> "failed", request |-> loading]
    <3>1. requests' = requests /\ loading' = None /\ net' = net \cup {f}
      BY <2>2 DEF LoadFails
    <3>2. f.event = "failed"
      OBVIOUS
    <3> HIDE DEF f
    <3> QED BY <1>1, <1>2, <3>1, <3>2, NoNewReport DEF ControllerInv
  <2>3. CASE FollowLink
    <3>1. Link \in PageUrls
      BY DEF Link, Url, PageUrls
    <3>2. StartRequest(Link, {})
      BY <2>3 DEF FollowLink
    <3> QED BY <1>1, <3>1, <3>2, StartRequestFacts DEF ControllerInv, Minor
  <2>4. CASE HistoryStateUpdated
    <3> DEFINE c == [event |-> "commit", doc |-> live, onsite |-> TRUE, at |-> clock]
    <3>1. /\ UNCHANGED <<requests, loading>> /\ live # None /\ net' = net \cup {c}
      BY <2>4 DEF HistoryStateUpdated, browser
    <3>2. c.event = "commit" /\ c.doc = live
      OBVIOUS
    <3> HIDE DEF c
    <3>3. loading' # None => loading' \in 1..Len(requests')
      BY <3>1 DEF ControllerInv, Reports
    <3> QED BY <1>1, <1>2, <3>1, <3>2, <3>3, NoNewReport DEF ControllerInv
  <2>5. CASE CloseTab
    <3>1. UNCHANGED <<requests, net>> /\ loading' = None
      BY <2>5 DEF CloseTab
    <3> QED BY <1>1, <1>2, <3>1, NoNewReport DEF ControllerInv
  <2> QED BY <2>1, <2>2, <2>3, <2>4, <2>5
<1> QED BY <1>1, <1>3, LessAsked, PageStep DEF ControllerInv

LEMMA AnswersAreMinor ==
    ASSUME NEW r, NEW a, NEW b
    PROVE  Minor({CaptureResult(r, a)}) /\ Minor({ActionPrepared(r, a)})
           /\ Minor({ActionResult(r, a, b)})
BY DEF Minor, CaptureResult, ActionPrepared, ActionResult

LEMMA ReplyStep ==
    ASSUME ControllerInv, NEW r \in inbox, NEW a, handleCapture(r, a) \/ handlePrepare(r, a)
    PROVE  ControllerInv'
<1>1. PICK S : Minor(S) /\ net' = net \cup S
  BY AnswersAreMinor DEF handleCapture, handlePrepare
<1>2. /\ UNCHANGED <<mem, disk, todo, accepted, submitted, slot, requests, loading>>
      /\ inbox' \subseteq inbox
  BY DEF handleCapture, handlePrepare, Outside, PageActs, bridge
<1>3. Reports' /\ Reported \subseteq Reported'
  BY <1>1, <1>2, NoNewReport DEF ControllerInv, Reports, Minor
<1> QED BY <1>2, <1>3, LessAsked, PageStep DEF ControllerInv

\* A page submits its form once: no other message asks it to.
LEMMA PerformStep ==
    ASSUME ControllerInv, NEW r \in inbox, NEW same, NEW navigates,
           handlePerform(r, same, navigates)
    PROVE  ControllerInv'
<1> DEFINE m == ActionResult(r, same, same /\ navigates)
<1>1. /\ UNCHANGED <<mem, disk, todo, accepted, slot>> /\ inbox' = inbox \ {r}
      /\ r.op = "perform" /\ submitted' \in {submitted, submitted \cup {r.doc}}
      /\ StartRequest(Url(r.job, "form"), {m})
           \/ (net' = net \cup {m} /\ UNCHANGED <<requests, loading>>)
  BY DEF handlePerform, PageActs, bridge
<1>2. Minor({m})
  BY AnswersAreMinor
<1> HIDE DEF m
<1>3. Reports' /\ Reported \subseteq Reported'
  <2>1. CASE StartRequest(Url(r.job, "form"), {m})
    <3>1. Url(r.job, "form") \in PageUrls
      BY DEF ControllerInv, Forms, Url, PageUrls
    <3> QED BY <1>1, <1>2, <2>1, <3>1, StartRequestFacts DEF ControllerInv
  <2>2. CASE net' = net \cup {m} /\ UNCHANGED <<requests, loading>>
    BY <1>1, <1>2, <2>2, NoNewReport DEF ControllerInv, Reports, Minor
  <2> QED BY <1>1, <2>1, <2>2
<1>4. Asked' \subseteq Asked
  BY <1>1 DEF Asked
<1>5. OneSubmitPerPage'
  BY <1>1 DEF ControllerInv, OneSubmitPerPage, Forms
<1> QED BY <1>1, <1>3, <1>4, <1>5, PageStep

LEMMA PagesStep ==
    ASSUME ControllerInv, Page
    PROVE  ControllerInv'
BY LoadStep, BrowserStep, ReplyStep, PerformStep DEF Page

LEMMA AwaitedStep ==
    ASSUME ControllerInv, Awaited
    PROVE  ControllerInv'
BY PersistStep, UpdateStep, SendStep, PostStep, ResumeStep DEF Awaited

-----------------------------------------------------------------------------
(* The theorems.                                                            *)

LEMMA ControllerInitInv == ControllerInit => ControllerInv
<1> SUFFICES ASSUME ControllerInit
             PROVE  ControllerInv
  OBVIOUS
<1> DEFINE s == initialControllerState
<1>1. /\ IsState(s) /\ s.job = None /\ s.nav = None /\ s.rpc = None /\ s.phase = "idle"
  BY DEF initialControllerState, IsState, StateFields
<1> HIDE DEF s
<1>2. mem = s /\ disk = s
  BY DEF ControllerInit, s
<1>3. \A acc, rep, ask : Sound(s, acc, rep, ask)
  BY <1>1 DEF Sound, Correlated
<1>4. InHand(mem, disk, todo, accepted, Reported, Asked)
  BY <1>2 DEF ControllerInit, InHand, Saved
<1>5. Reports
  BY DEF ControllerInit, Reports
<1>6. Asked = {}
  BY DEF ControllerInit, Asked
<1>7. Forms /\ OneSubmitPerPage
  BY <1>6 DEF ControllerInit, Forms, OneSubmitPerPage
<1> QED BY <1>2, <1>3, <1>4, <1>5, <1>7 DEF ControllerInv

LEMMA ControllerNextInv == ControllerInv /\ [ControllerNext]_controllerVars => ControllerInv'
<1> SUFFICES ASSUME ControllerInv, [ControllerNext]_controllerVars
             PROVE  ControllerInv'
  OBVIOUS
<1>1. CASE UNCHANGED controllerVars
  <2>1. /\ UNCHANGED <<mem, disk, todo, slot, requests, loading, net, inbox, accepted, submitted>>
    BY <1>1 DEF controllerVars, browser, bridge, history
  <2> QED BY <2>1, CalmStep DEF ControllerInv
<1>2. CASE \E m \in net : Deliver(m)
  BY <1>2, DeliverStep
<1>3. CASE tick
  BY <1>3, TicksStep
<1>4. CASE Commands
  BY <1>4, CommandsStep
<1>5. CASE Awaited
  BY <1>5, AwaitedStep
<1>6. CASE Crash \/ JobTimesOut
  BY <1>6, CrashStep, TimesOutStep
<1>7. CASE Page
  BY <1>7, PagesStep
<1> QED BY <1>1, <1>2, <1>3, <1>4, <1>5, <1>6, <1>7 DEF ControllerNext

LEMMA ControllerIsInvariant == ControllerSpec => []ControllerInv
BY ControllerInitInv, ControllerNextInv, PTL DEF ControllerSpec

\* Neither the running controller nor the saved one holds a navigation, an RPC or a busy phase
\* of a job other than its own, for any jobs, pages and bounds.
THEOREM ControllerNoStaleWork == ControllerSpec => []NoStaleWork
<1>1. ControllerInv => NoStaleWork
  BY DEF ControllerInv, Sound, NoStaleWork
<1> QED BY <1>1, ControllerIsInvariant, PTL

\* The state in storage is the running one whenever no handler holds the mutex.
THEOREM ControllerSavedWhenIdle == ControllerSpec => []SavedWhenIdle
<1>1. ControllerInv => SavedWhenIdle
  <2> SUFFICES ASSUME ControllerInv, todo = <<>>
               PROVE  disk = mem
    BY DEF SavedWhenIdle, Free
  <2> QED BY DEF ControllerInv, InHand, Fresh, Later
<1> QED BY <1>1, ControllerIsInvariant, PTL

\* A page that is about to be posted as a job's result was accepted for the job's URL.
THEOREM ControllerPostedWasAccepted == ControllerSpec => []PostedWasAccepted
<1>1. ControllerInv => PostedWasAccepted
  <2> SUFFICES ASSUME ControllerInv, NEW i \in DOMAIN todo, todo[i].await = "post",
                      todo[i].verdict = "completed"
               PROVE  [url |-> mem.job.url, doc |-> todo[i].doc] \in accepted
    BY DEF PostedWasAccepted
  <2>1. CASE Saved(mem, todo, Reported, Asked)
    BY <2>1, AwaitKinds DEF Saved, IsOpen
  <2>2. CASE Fresh(mem, todo, accepted, Reported, Asked)
    BY <2>2, AwaitKinds DEF Fresh, IsOpen, IsBecome
  <2>3. CASE Later(mem, todo, accepted, Reported, Asked)
    BY <2>3, AwaitKinds DEF Later, IsBecome
  <2> QED BY <2>1, <2>2, <2>3 DEF ControllerInv, InHand
<1> QED BY <1>1, ControllerIsInvariant, PTL

\* No page is asked to submit the form it has submitted.
THEOREM ControllerOneSubmitPerPage == ControllerSpec => []OneSubmitPerPage
<1>1. ControllerInv => OneSubmitPerPage
  BY DEF ControllerInv
<1> QED BY <1>1, ControllerIsInvariant, PTL
=============================================================================
