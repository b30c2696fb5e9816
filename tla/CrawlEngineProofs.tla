------------------------- MODULE CrawlEngineProofs -------------------------
(***************************************************************************)
(* Proofs, for any graph, any manifest and any number of workers and runs, *)
(* of the safety properties of CrawlEngine.                                *)
(*                                                                         *)
(* The argument is one inductive invariant, EngineInv.  Its parts say what *)
(* each program counter implies about the node in hand, that a process     *)
(* that is setting up a run holds nothing, and that what a worker is about *)
(* to record (children created, professors saved) is already stored.       *)
(***************************************************************************)
EXTENDS CrawlEngine, TLAPS

\* Somebody has the node in hand: Held without NoNode.
InHands(n) ==
    \/ n = driver.node \/ n \in dq \/ n \in eq
    \/ \E w \in Deciders : dw[w].node = n
    \/ \E w \in Extractors : ew[w].node = n

\* What the driver's program counter says about the node it has claimed.
DriverShape ==
    /\ driver.pc = "loop" => driver = DriverLoop
    /\ driver.pc # "loop" => driver.node \in Nodes
    /\ driver.pc = "settle" => driver.res # "none"

\* Details go to the extract queue, all other nodes to the decision queue.
QueueShape ==
    /\ \A n \in dq : Kind[n] # "detail"
    /\ \A n \in eq : Kind[n] = "detail"

\* What a decision worker's program counter says about its task.
DeciderShape ==
    \A w \in Deciders :
        /\ dw[w].pc \in {"idle", "exited"} => dw[w].node = NoNode
        /\ dw[w].pc \notin {"idle", "exited"} => dw[w].node \in Nodes /\ Kind[dw[w].node] # "detail"
        /\ dw[w].pc \in {"create", "mark"} => dw[w].verdict \in {"done", "retry", "skipped"}
        /\ dw[w].pc = "mark" => dw[w].children = {}

\* What an extract worker's program counter says about its task.
ExtractorShape ==
    \A w \in Extractors :
        /\ ew[w].pc \in {"idle", "exited"} => ew[w].node = NoNode
        /\ ew[w].pc \notin {"idle", "exited"} => ew[w].node \in Nodes /\ Kind[ew[w].node] = "detail"
        /\ ew[w].pc \in {"finish", "mark"} => ew[w].verdict \in {"done", "retry", "skipped", "failed"}

\* Before the crawl starts, the process has nothing in hand.
SetupIdle ==
    proc \in {"off", "opened", "server", "reset", "seed", "bad", "begin"} =>
        /\ driver = DriverLoop
        /\ dq = {}
        /\ eq = {}
        /\ attempted = {}
        /\ \A w \in Deciders : dw[w] = NoWork
        /\ \A w \in Extractors : ew[w] = NoWork

\* The professors of n are stored, under n or under a node with the same page.
Saved(n) == n \in profs \/ Twins[n] \cap profs # {}

\* An extract worker that will mark its node done has its professors stored.
SavedFirst == \A w \in Extractors : ew[w].verdict = "done" => Saved(ew[w].node)

\* The children a decision asked for exist, or are still to be created by the
\* worker that has the node in hand.  Details are never decided about.
ChildrenKept ==
    /\ \A w \in Deciders : dw[w].pc \in {"create", "mark"} =>
         decided[dw[w].node] \subseteq Present \cup dw[w].children
    /\ \A n \in Nodes : Kind[n] = "detail" => decided[n] = {}

\* A running attempt belongs to the extract worker that will finish it, and what
\* that worker will record as succeeded is stored.
RowsHeld ==
    /\ proc # "off" => \A n \in Nodes : row[n] = "running" =>
         \E w \in Extractors : ew[w].node = n /\ ew[w].pc \in {"extract", "finish"}
    /\ \A w \in Extractors : /\ ew[w].row # "running"
                             /\ ew[w].row = "succeeded" => ew[w].node \in profs

\* How the run ends is known once the summary is built; only a cancelled run that
\* is closing or being recorded is "cancelled".
EndingShape ==
    /\ ending = "cancelled" => proc \in {"closing", "record", "recordUniv"}
    /\ proc \in {"finish", "univ"} => ending \in {"completed", "failed"}
    /\ proc \in {"record", "recordUniv"} => ending \in {"failed", "cancelled"}

\* Every in_progress node of a run that was not cancelled is in somebody's hands, a dead
\* worker's included.
NoneStranded ==
    proc # "off" /\ ending # "cancelled" =>
        \A n \in Nodes : status[n] = "in_progress" => InHands(n)

\* A pending node has used no attempt, and this run has not claimed it.
PendingFresh ==
    /\ \A n \in Nodes : status[n] \in {"absent", "pending"} => attempts[n] = 0
    /\ \A n \in attempted : status[n] \notin {"absent", "pending"}

\* Once the driver loop has returned, nobody works; nor in a run that is
\* recorded as completed.
QuietAfterwards ==
    proc \in {"summary", "finish", "univ"} \/ runStatus = "completed" =>
        /\ dq = {}
        /\ eq = {}
        /\ driver = DriverLoop
        /\ \A w \in Deciders : dw[w].pc \in {"idle", "dead", "exited"}
        /\ \A w \in Extractors : ew[w].pc \in {"idle", "exited"}
        /\ proc \in {"summary", "finish", "univ"} => \A w \in Deciders : dw[w].pc # "exited"
        /\ proc \in {"summary", "finish", "univ"} => \A w \in Extractors : ew[w].pc = "idle"

\* Workers take their sentinels only while the run is closing.
ExitsAtClosing ==
    proc \notin {"closing", "record", "recordUniv"} =>
        /\ \A w \in Deciders : dw[w].pc # "exited"
        /\ \A w \in Extractors : ew[w].pc # "exited"

\* A worker takes its sentinel only when its queue is empty, and nothing is queued any more.
SentinelsLast ==
    /\ (\E w \in Deciders : dw[w].pc = "exited") => dq = {}
    /\ (\E w \in Extractors : ew[w].pc = "exited") => eq = {}

\* Extract workers catch every exception.
ExtractorsLive == \A w \in Extractors : ew[w].pc # "dead"

\* No node in scope is pending once the driver loop has returned.
NonePending ==
    proc \in {"summary", "finish", "univ"} /\ MaxAttempts > 0 =>
        \A n \in Nodes : InScope(n) => status[n] # "pending"

\* From its first record on, the run's scope is the target of the process.
ScopeShape == proc \notin {"off", "opened"} => scope = target

\* A run recorded, or about to be recorded, as completed has no work in scope.
NoneLeft ==
    runStatus = "completed" \/ (proc = "finish" /\ ending = "completed") =>
        \A n \in Nodes : Covered(n) => status[n] \in {"absent", "done", "skipped"}

\* The run is recorded as completed only at its end.
CompletedIsOver ==
    runStatus = "completed" => proc \in {"off", "opened", "univ", "closing", "record", "recordUniv"}

EngineInv ==
    /\ TypeOK
    /\ DriverShape
    /\ QueueShape
    /\ DeciderShape
    /\ ExtractorShape
    /\ SetupIdle
    /\ HeldOnce
    /\ SavedFirst
    /\ DoneDetailSaved
    /\ ChildrenKept
    /\ NoLostChild
    /\ RowsHeld
    /\ RowsAgree
    /\ EndingShape
    /\ NoneStranded
    /\ PendingFresh
    /\ ExitsAtClosing
    /\ SentinelsLast
    /\ ExtractorsLive
    /\ QuietAfterwards
    /\ CompletedIsOver
    /\ NonePending
    /\ ScopeShape
    /\ NoneLeft

-----------------------------------------------------------------------------

\* The types that the proofs of the other parts need.
Typed ==
    /\ status \in [Nodes -> NodeStatus]
    /\ attempts \in [Nodes -> 0..MaxAttempts]
    /\ row \in [Nodes -> RowStatus]
    /\ decided \in [Nodes -> SUBSET Nodes]
    /\ driver \in Driver
    /\ dq \subseteq Nodes
    /\ eq \subseteq Nodes
    /\ dw \in [Deciders -> Worker]
    /\ ew \in [Extractors -> Worker]

USE DEF crawlVars, runVars, setupVars, engineVars

\* The placeholder of an idle driver or worker is not a page.
LEMMA NoNodeIsNoNode == \A n \in Nodes : n # NoNode
BY EngineAssumption

\* The steps in groups, each with the variables that no step of it changes.
Opening == OpenFresh \/ (\E T \in SUBSET Orgs, r \in BOOLEAN : OpenResume(T, r))
SetupControl == StartRun \/ ServerUp \/ ServerFails \/ ResetsDone \/ SeedsDone \/ BeginCrawl
SetupData == (\E o \in Orgs : ResetSubtree(o)) \/ (\E n \in Nodes : LoadSeed(n)) \/ ResetBad
WrapupControl == BuildSummary \/ FinishRun \/ FinishUniversity \/ RecordRun
ProcessEnding == Closed \/ RecordUniversity \/ Cancel \/ Crash

LEMMA Frames ==
  /\ Opening => UNCHANGED <<engineVars, todo, ending>>
  /\ SetupControl => UNCHANGED <<crawlVars, engineVars, target, reset, starts>>
  /\ SetupData => UNCHANGED <<runVars, engineVars, profs, target, reset, ending, starts>>
  /\ DriverStep => UNCHANGED <<runVars, setupVars, owner, profs, row, orgStatus, decided, dw, ew>>
  /\ WrapupControl => UNCHANGED <<crawlVars, engineVars, scope, target, reset, todo, starts>>
  /\ ProcessEnding => UNCHANGED <<crawlVars, runStatus, scope, starts>>
  /\ (\E w \in Deciders : DeciderStep(w)) => UNCHANGED <<runVars, setupVars, attempts, cache,
        profs, row, proc, attempted, driver, eq, ew>>
  /\ (\E w \in Extractors : ExtractorStep(w)) => UNCHANGED <<runVars, setupVars, attempts, owner,
        cache, orgStatus, decided, proc, attempted, driver, dq, dw>>
<1>1. Opening => UNCHANGED <<engineVars, todo, ending>>
  BY DEF Opening, OpenFresh, Wiped, OpenResume
<1>2. SetupControl => UNCHANGED <<crawlVars, engineVars, target, reset, starts>>
  BY DEF SetupControl, StartRun, ServerUp, ServerFails, ResetsDone, SeedsDone, BeginCrawl
<1>3. SetupData => UNCHANGED <<runVars, engineVars, profs, target, reset, ending, starts>>
  BY DEF SetupData, ResetSubtree, LoadSeed, Upsert, ResetBad
<1>4. DriverStep => UNCHANGED <<runVars, setupVars, owner, profs, row, orgStatus, decided, dw,
      ew>>
  BY DEF DriverStep, DClaim, DLookup, DFetched, DDispatch, DSettle, DExit
<1>5. WrapupControl => UNCHANGED <<crawlVars, engineVars, scope, target, reset, todo, starts>>
  BY DEF WrapupControl, BuildSummary, FinishRun, FinishUniversity, RecordRun
<1>6. ProcessEnding => UNCHANGED <<crawlVars, runStatus, scope, starts>>
  BY DEF ProcessEnding, Closed, ProcessEnds, ProcessIdle, RecordUniversity, Cancel, Crash
<1>7. (\E w \in Deciders : DeciderStep(w)) => UNCHANGED <<runVars, setupVars, attempts, cache,
      profs, row, proc, attempted, driver, eq, ew>>
  BY DEF DeciderStep, Take, BeginUnit, Decide, Exclude, DecideRaises, CreateChild, Upsert,
         CloseUnit, MarkDecided, ExitDecider
<1>8. (\E w \in Extractors : ExtractorStep(w)) => UNCHANGED <<runVars, setupVars, attempts, owner,
      cache, orgStatus, decided, proc, attempted, driver, dq, dw>>
  BY DEF ExtractorStep, TakeDetail, CheckTwin, RecordAttempt, ExtractSaved, ExtractFails,
         FinishAttempt, MarkExtracted, ExitExtractor
<1> QED BY <1>1, <1>2, <1>3, <1>4, <1>5, <1>6, <1>7, <1>8

\* The records of an idle worker and of an idle driver are well-typed.
LEMMA NoWorkType == NoWork \in Worker
BY DEF NoWork, Worker, WorkerPC, NodeStatus, RowStatus

\* What the steps of a worker change in its record keeps it a Worker.
LEMMA WorkerUpdate ==
  \A x \in Worker, p \in WorkerPC :
     /\ [x EXCEPT !.pc = p] \in Worker
     /\ \A C \in SUBSET Nodes : [x EXCEPT !.children = C] \in Worker
     /\ \A v \in NodeStatus :
          /\ [x EXCEPT !.pc = p, !.verdict = v] \in Worker
          /\ \A C \in SUBSET Nodes : [x EXCEPT !.pc = p, !.children = C, !.verdict = v] \in Worker
          /\ \A r \in RowStatus : [x EXCEPT !.pc = p, !.verdict = v, !.row = r] \in Worker
BY DEF Worker

\* The driver at the head of its loop is well-typed.
LEMMA DriverLoopType == DriverLoop \in Driver
BY DEF DriverLoop, Driver

\* Every step keeps the types, given what the program counters say.
LEMMA TypeStep == ASSUME TypeOK, DriverShape, DeciderShape, ExtractorShape, QueueShape,
    EndingShape, Next PROVE TypeOK'
<1>0. TypeOK OBVIOUS
<1>1. ASSUME OpenFresh PROVE TypeOK'
  <2>1. /\ status' \in [Nodes -> NodeStatus] /\ attempts' \in [Nodes -> 0..MaxAttempts]
        /\ owner' \in [Nodes -> Orgs \cup {NoOrg}] /\ cache' \in [Nodes -> Results \cup {"none"}]
    BY <1>1, EngineAssumption DEF OpenFresh, Wiped, NodeStatus
  <2>2. /\ profs' \subseteq Nodes /\ row' \in [Nodes -> RowStatus]
        /\ orgStatus' \in [Orgs -> OrgStatus] /\ decided' \in [Nodes -> SUBSET Nodes]
    BY <1>1 DEF OpenFresh, Wiped, RowStatus, OrgStatus
  <2>3. starts' \in 0..MaxStarts
    BY <1>1, <1>0, EngineAssumption DEF OpenFresh, TypeOK
  <2> QED BY <1>1, <1>0, <2>1, <2>2, <2>3 DEF OpenFresh, Proc, RunStatus, UnivStatus, TypeOK
<1>2. ASSUME NEW T \in SUBSET Orgs, NEW r \in BOOLEAN, OpenResume(T, r) PROVE TypeOK'
  BY <1>2, <1>0, EngineAssumption DEF OpenResume, Proc, NodeStatus, OrgStatus, RowStatus, TypeOK
<1>3. CASE StartRun \/ ServerUp \/ ServerFails \/ ResetsDone \/ SeedsDone \/ BeginCrawl
  BY <1>3, <1>0, EngineAssumption DEF StartRun, ServerUp, ServerFails, ResetsDone, SeedsDone,
         BeginCrawl, Proc, RunStatus, UnivStatus, Ending, TypeOK
<1>4. ASSUME NEW o \in Orgs, ResetSubtree(o) PROVE TypeOK'
  <2>1. status' \in [Nodes -> NodeStatus]
    BY <1>4, <1>0 DEF ResetSubtree, NodeStatus, TypeOK
  <2>2. attempts' \in [Nodes -> 0..MaxAttempts]
    BY <1>4, <1>0, EngineAssumption DEF ResetSubtree, TypeOK
  <2>3. owner' \in [Nodes -> Orgs \cup {NoOrg}] /\ cache' \in [Nodes -> Results \cup {"none"}]
    BY <1>4, <1>0 DEF ResetSubtree, TypeOK
  <2>4. row' \in [Nodes -> RowStatus] /\ decided' \in [Nodes -> SUBSET Nodes]
    BY <1>4, <1>0 DEF ResetSubtree, RowStatus, TypeOK
  <2> QED BY <1>4, <1>0, <2>1, <2>2, <2>3, <2>4 DEF ResetSubtree, OrgStatus, TypeOK
<1>5. ASSUME NEW n \in Nodes, LoadSeed(n) PROVE TypeOK'
  BY <1>5, <1>0, EngineAssumption DEF LoadSeed, Upsert, NodeStatus, OrgStatus, TypeOK
<1>6. ASSUME ResetBad PROVE TypeOK'
  BY <1>6, <1>0, EngineAssumption DEF ResetBad, Proc, NodeStatus, TypeOK
<1>7. ASSUME NEW n \in Nodes, DClaim(n) PROVE TypeOK'
  <2>1. driver' \in Driver
    BY <1>7, <1>0, EngineAssumption DEF DClaim, TypeOK, Driver, DriverLoop
  <2>2. attempts' \in [Nodes -> 0..MaxAttempts]
    BY <1>7, <1>0, EngineAssumption DEF DClaim, Claimable, TypeOK
  <2> QED BY <1>7, <1>0, <2>1, <2>2, EngineAssumption DEF DClaim, TypeOK, NodeStatus
<1>8. ASSUME DLookup PROVE TypeOK'
  <2>1. driver' \in Driver
    BY <1>8, <1>0, EngineAssumption DEF DLookup, TypeOK, Driver, DriverShape
  <2> QED BY <1>8, <1>0, <2>1, EngineAssumption DEF DLookup, TypeOK, NodeStatus
<1>9. ASSUME NEW r \in FetchResults, DFetched(r) PROVE TypeOK'
  <2>1. driver' \in Driver
    BY <1>9, <1>0, EngineAssumption DEF DFetched, TypeOK, Driver, DriverShape
  <2> QED BY <1>9, <1>0, <2>1, EngineAssumption DEF DFetched, TypeOK, NodeStatus
<1>10. ASSUME DDispatch PROVE TypeOK'
  <2>1. driver.node \in Nodes /\ driver.res \in Results
    BY <1>10, <1>0 DEF DDispatch, DriverShape, TypeOK, Driver
  <2> QED BY <1>10, <1>0, <2>1, DriverLoopType DEF DDispatch, TypeOK
<1>11. ASSUME DSettle PROVE TypeOK'
  <2>1. driver.node \in Nodes /\ driver.res \in Results
    BY <1>11, <1>0 DEF DSettle, DriverShape, TypeOK, Driver
  <2> QED BY <1>11, <1>0, <2>1, DriverLoopType DEF DSettle, FetchVerdict, Results, NodeStatus,
         TypeOK
<1>12. CASE DExit \/ BuildSummary \/ FinishRun \/ FinishUniversity \/ RecordRun
  BY <1>12, <1>0 DEF DExit, BuildSummary, FinishRun, FinishUniversity, RecordRun, Proc, RunStatus,
         UnivStatus, Ending, EndingShape, TypeOK
<1>13. CASE Closed \/ RecordUniversity \/ Crash
  BY <1>13, <1>0, NoWorkType, DriverLoopType DEF Closed, ProcessEnds, ProcessIdle,
         RecordUniversity, Crash, Proc, UnivStatus, Ending, TypeOK
<1>14. ASSUME NEW w \in Deciders, NEW n \in Nodes, Take(w, n) PROVE TypeOK'
  <2>1. dw' \in [Deciders -> Worker]
    BY <1>14, <1>0 DEF Take, TypeOK, WorkerPC, NoWork, Worker, NodeStatus, RowStatus
  <2> QED BY <1>14, <1>0, <2>1 DEF Take, TypeOK
<1>15. ASSUME NEW w \in Deciders, BeginUnit(w) PROVE TypeOK'
  <2>1. dw' \in [Deciders -> Worker]
    BY <1>15, <1>0, WorkerUpdate DEF BeginUnit, TypeOK, WorkerPC
  <2> QED BY <1>15, <1>0, <2>1 DEF BeginUnit, OrgStatus, TypeOK
<1>16. ASSUME NEW w \in Deciders, Decide(w) PROVE TypeOK'
  <2>1. dw[w].node \in Nodes
    BY <1>16 DEF Decide, DeciderShape
  <2>2. PICK C \in SUBSET Links[dw[w].node] : \E v \in DecisionVerdicts(dw[w].node, C) :
          /\ decided' = [decided EXCEPT ![dw[w].node] = C]
          /\ dw' = [dw EXCEPT ![w] = [@ EXCEPT !.pc = "create", !.children = C, !.verdict = v]]
    BY <1>16 DEF Decide
  <2>3. PICK v \in DecisionVerdicts(dw[w].node, C) :
          dw' = [dw EXCEPT ![w] = [@ EXCEPT !.pc = "create", !.children = C, !.verdict = v]]
    BY <2>2
  <2>4. C \subseteq Nodes /\ v \in NodeStatus
    BY <2>1, <2>3, EngineAssumption DEF DecisionVerdicts, NodeStatus
  <2>5. dw' \in [Deciders -> Worker]
    BY <1>0, <2>3, <2>4, WorkerUpdate DEF TypeOK, WorkerPC
  <2> QED BY <1>16, <1>0, <2>2, <2>4, <2>5 DEF Decide, TypeOK
<1>17. ASSUME NEW w \in Deciders, Exclude(w) PROVE TypeOK'
  <2>1. dw' \in [Deciders -> Worker]
    BY <1>17, <1>0, WorkerUpdate DEF Exclude, TypeOK, WorkerPC, NodeStatus, RowStatus
  <2> QED BY <1>17, <1>0, <2>1 DEF Exclude, TypeOK
<1>18. ASSUME NEW w \in Deciders, DecideRaises(w) PROVE TypeOK'
  <2>1. dw' \in [Deciders -> Worker]
    BY <1>18, <1>0, WorkerUpdate DEF DecideRaises, TypeOK, WorkerPC
  <2> QED BY <1>18, <1>0, <2>1 DEF DecideRaises, TypeOK
<1>19. ASSUME NEW w \in Deciders, NEW c \in Nodes, CreateChild(w, c) PROVE TypeOK'
  <2>1. dw' \in [Deciders -> Worker]
    <3>1. dw[w] \in Worker /\ dw[w].children \ {c} \in SUBSET Nodes
      BY <1>0 DEF TypeOK, Worker
    <3> QED BY <1>19, <1>0, <3>1, WorkerUpdate DEF CreateChild, TypeOK, WorkerPC
  <2>2. status' \in [Nodes -> NodeStatus] /\ orgStatus' \in [Orgs -> OrgStatus]
    BY <1>19, <1>0 DEF CreateChild, Upsert, TypeOK, NodeStatus, OrgStatus
  <2>3. ChildOrg(dw[w].node, c) \in Orgs \cup {NoOrg}
    BY <1>19, <1>0, EngineAssumption DEF CreateChild, ChildOrg, DeciderShape, TypeOK
  <2>4. owner' \in [Nodes -> Orgs \cup {NoOrg}]
    BY <1>19, <1>0, <2>3 DEF CreateChild, Upsert, TypeOK
  <2> QED BY <1>19, <1>0, <2>1, <2>2, <2>4 DEF CreateChild, TypeOK
<1>20. ASSUME NEW w \in Deciders, CloseUnit(w) PROVE TypeOK'
  <2>1. dw' \in [Deciders -> Worker]
    BY <1>20, <1>0, WorkerUpdate DEF CloseUnit, TypeOK, WorkerPC
  <2> QED BY <1>20, <1>0, <2>1 DEF CloseUnit, OrgStatus, TypeOK
<1>21. ASSUME NEW w \in Deciders, MarkDecided(w) PROVE TypeOK'
  <2>1. dw' \in [Deciders -> Worker]
    BY <1>21, <1>0, NoWorkType DEF MarkDecided, TypeOK
  <2>2. dw[w].verdict \in NodeStatus /\ dw[w].node \in Nodes
    BY <1>21, <1>0 DEF MarkDecided, TypeOK, Worker, DeciderShape
  <2> QED BY <1>21, <1>0, <2>1, <2>2 DEF MarkDecided, TypeOK
<1>22. ASSUME NEW w \in Deciders, ExitDecider(w) PROVE TypeOK'
  <2>1. dw' \in [Deciders -> Worker]
    BY <1>22, <1>0, WorkerUpdate DEF ExitDecider, TypeOK, WorkerPC
  <2> QED BY <1>22, <1>0, <2>1 DEF ExitDecider, TypeOK
<1>23. ASSUME NEW w \in Extractors, NEW n \in Nodes, TakeDetail(w, n) PROVE TypeOK'
  <2>1. ew' \in [Extractors -> Worker]
    BY <1>23, <1>0 DEF TakeDetail, TypeOK, WorkerPC, NoWork, Worker, NodeStatus, RowStatus
  <2> QED BY <1>23, <1>0, <2>1 DEF TakeDetail, TypeOK
<1>24. ASSUME NEW w \in Extractors, CheckTwin(w) PROVE TypeOK'
  <2>1. ew' \in [Extractors -> Worker]
    BY <1>24, <1>0, WorkerUpdate DEF CheckTwin, TypeOK, WorkerPC, NodeStatus, RowStatus
  <2> QED BY <1>24, <1>0, <2>1 DEF CheckTwin, TypeOK
<1>25. ASSUME NEW w \in Extractors, RecordAttempt(w) PROVE TypeOK'
  <2>1. ew' \in [Extractors -> Worker]
    BY <1>25, <1>0, WorkerUpdate DEF RecordAttempt, TypeOK, WorkerPC
  <2> QED BY <1>25, <1>0, <2>1 DEF RecordAttempt, RowStatus, TypeOK
<1>26. ASSUME NEW w \in Extractors, ExtractSaved(w) PROVE TypeOK'
  <2>1. ew' \in [Extractors -> Worker]
    BY <1>26, <1>0, WorkerUpdate DEF ExtractSaved, TypeOK, WorkerPC, NodeStatus, RowStatus
  <2>2. ew[w].node \in Nodes
    BY <1>26 DEF ExtractSaved, ExtractorShape
  <2> QED BY <1>26, <1>0, <2>1, <2>2 DEF ExtractSaved, TypeOK
<1>27. ASSUME NEW w \in Extractors, NEW v \in {"skipped", "retry", "failed"}, ExtractFails(w, v)
      PROVE TypeOK'
  <2>1. ew' \in [Extractors -> Worker]
    BY <1>27, <1>0, WorkerUpdate DEF ExtractFails, TypeOK, WorkerPC, NodeStatus, RowStatus
  <2> QED BY <1>27, <1>0, <2>1 DEF ExtractFails, TypeOK
<1>28. ASSUME NEW w \in Extractors, FinishAttempt(w) PROVE TypeOK'
  <2>1. ew' \in [Extractors -> Worker]
    BY <1>28, <1>0, WorkerUpdate DEF FinishAttempt, TypeOK, WorkerPC
  <2>2. ew[w].row \in RowStatus /\ ew[w].node \in Nodes
    BY <1>28, <1>0 DEF FinishAttempt, TypeOK, Worker, ExtractorShape
  <2> QED BY <1>28, <1>0, <2>1, <2>2 DEF FinishAttempt, TypeOK
<1>29. ASSUME NEW w \in Extractors, MarkExtracted(w) PROVE TypeOK'
  <2>1. ew' \in [Extractors -> Worker]
    BY <1>29, <1>0, NoWorkType DEF MarkExtracted, TypeOK
  <2>2. ew[w].verdict \in NodeStatus /\ ew[w].node \in Nodes
    BY <1>29, <1>0 DEF MarkExtracted, TypeOK, Worker, ExtractorShape
  <2> QED BY <1>29, <1>0, <2>1, <2>2 DEF MarkExtracted, TypeOK
<1>30. ASSUME NEW w \in Extractors, ExitExtractor(w) PROVE TypeOK'
  <2>1. ew' \in [Extractors -> Worker]
    BY <1>30, <1>0, WorkerUpdate DEF ExitExtractor, TypeOK, WorkerPC
  <2> QED BY <1>30, <1>0, <2>1 DEF ExitExtractor, TypeOK
<1>31. ASSUME Cancel PROVE TypeOK'
  BY <1>31, <1>0, NoWorkType, DriverLoopType DEF Cancel, ProcessEnds, ProcessIdle, Proc, Ending,
         TypeOK
<1> QED BY <1>1, <1>2, <1>3, <1>4, <1>5, <1>6, <1>7, <1>8, <1>9, <1>10, <1>11, <1>12, <1>13,
  <1>14, <1>15, <1>16, <1>17, <1>18, <1>19, <1>20, <1>21, <1>22, <1>23, <1>24, <1>25, <1>26,
  <1>27, <1>28, <1>29, <1>30, <1>31 DEF Next, Setup, DriverStep, Wrapup, DeciderStep,
  ExtractorStep, Opening, SetupControl, SetupData, WrapupControl, ProcessEnding

\* The driver's steps keep its program counter and its claimed node together.
LEMMA DriverShapeStep == ASSUME TypeOK, DriverShape, Next PROVE DriverShape'
<1>0. Typed
  BY DEF TypeOK, Typed
<1>1. ASSUME UNCHANGED <<driver>> PROVE DriverShape'
  BY <1>1 DEF DriverShape
<1>2. CASE Opening \/ SetupControl \/ SetupData \/ WrapupControl
      \/ (\E w \in Deciders : DeciderStep(w)) \/ (\E w \in Extractors : ExtractorStep(w)) \/ DExit
  BY <1>1, <1>2, Frames DEF DExit
<1> USE <1>0, EngineAssumption DEF Typed, DriverShape, Worker, Driver, NoWork, DriverLoop
<1>3. ASSUME NEW n \in Nodes, DClaim(n) PROVE DriverShape'
  BY <1>3 DEF DClaim, Claimable, InScope
<1>4. ASSUME DLookup PROVE DriverShape'
  BY <1>4 DEF DLookup, Results
<1>5. ASSUME NEW r \in FetchResults, DFetched(r) PROVE DriverShape'
  BY <1>5 DEF DFetched, Results
<1>6. ASSUME DDispatch PROVE DriverShape'
  BY <1>6 DEF DDispatch
<1>7. ASSUME DSettle PROVE DriverShape'
  BY <1>7 DEF DSettle, FetchVerdict, Results
<1>8. CASE ProcessEnding
  BY <1>8 DEF ProcessEnding, Closed, ProcessEnds, ProcessIdle, Joined, RecordUniversity, Cancel,
         Crash
<1> HIDE <1>0, EngineAssumption DEF Typed, DriverShape, Worker, Driver, NoWork, DriverLoop
<1> QED BY <1>2, <1>3, <1>4, <1>5, <1>6, <1>7, <1>8 DEF Next, Setup, DriverStep, Wrapup,
  DeciderStep, ExtractorStep, Opening, SetupControl, SetupData, WrapupControl, ProcessEnding

\* Only the driver fills the queues, by the kind of the page.
LEMMA QueueShapeStep == ASSUME TypeOK, QueueShape, DriverShape, Next PROVE QueueShape'
<1>0. Typed
  BY DEF TypeOK, Typed
<1>1. ASSUME UNCHANGED <<dq, eq>> PROVE QueueShape'
  BY <1>1 DEF QueueShape
<1>2. CASE Opening \/ SetupControl \/ SetupData \/ WrapupControl \/ (\E n \in Nodes : DClaim(n))
      \/ DLookup \/ (\E r \in FetchResults : DFetched(r)) \/ DSettle \/ DExit
      \/ (\E w \in Deciders : BeginUnit(w) \/ Decide(w) \/ Exclude(w) \/ DecideRaises(w)
      \/ CloseUnit(w) \/ MarkDecided(w) \/ ExitDecider(w))
      \/ (\E w \in Deciders, c \in Nodes : CreateChild(w, c))
      \/ (\E w \in Extractors : CheckTwin(w) \/ RecordAttempt(w) \/ ExtractSaved(w)
      \/ FinishAttempt(w) \/ MarkExtracted(w) \/ ExitExtractor(w))
      \/ (\E w \in Extractors, v \in {"skipped", "retry", "failed"} : ExtractFails(w, v))
  BY <1>1, <1>2, Frames DEF DClaim, DLookup, DFetched, DSettle, DExit, BeginUnit, Decide, Exclude,
         DecideRaises, CreateChild, Upsert, CloseUnit, MarkDecided, ExitDecider, CheckTwin,
         RecordAttempt, ExtractSaved, ExtractFails, FinishAttempt, MarkExtracted, ExitExtractor
<1> USE <1>0, EngineAssumption DEF Typed, QueueShape, DriverShape, Worker, Driver, NoWork,
       DriverLoop
<1>3. ASSUME DDispatch PROVE QueueShape'
  BY <1>3 DEF DDispatch
<1>4. CASE ProcessEnding
  BY <1>4 DEF ProcessEnding, Closed, ProcessEnds, ProcessIdle, Joined, RecordUniversity, Cancel,
         Crash
<1>5. ASSUME NEW w \in Deciders, NEW n \in Nodes, Take(w, n) PROVE QueueShape'
  BY <1>5 DEF Take
<1>6. ASSUME NEW w \in Extractors, NEW n \in Nodes, TakeDetail(w, n) PROVE QueueShape'
  BY <1>6 DEF TakeDetail
<1> HIDE <1>0, EngineAssumption DEF Typed, QueueShape, DriverShape, Worker, Driver, NoWork,
       DriverLoop
<1> QED BY <1>2, <1>3, <1>4, <1>5, <1>6 DEF Next, Setup, DriverStep, Wrapup, DeciderStep,
  ExtractorStep, Opening, SetupControl, SetupData, WrapupControl, ProcessEnding

\* A decision worker has a node exactly from taking it to marking it, and
\* marks it with no child left to create.
LEMMA DeciderShapeStep == ASSUME TypeOK, DeciderShape, QueueShape, Next PROVE DeciderShape'
<1>0. Typed
  BY DEF TypeOK, Typed
<1>1. ASSUME UNCHANGED <<dw>> PROVE DeciderShape'
  BY <1>1 DEF DeciderShape
<1>2. CASE Opening \/ SetupControl \/ SetupData \/ DriverStep \/ WrapupControl
      \/ (\E w \in Extractors : ExtractorStep(w))
  BY <1>1, <1>2, Frames
<1> USE <1>0, EngineAssumption DEF Typed, DeciderShape, QueueShape, Worker, Driver, NoWork,
       DriverLoop
<1>3. CASE ProcessEnding
  BY <1>3 DEF ProcessEnding, Closed, ProcessEnds, ProcessIdle, Joined, RecordUniversity, Cancel,
         Crash
<1>4. ASSUME NEW w \in Deciders, NEW n \in Nodes, Take(w, n) PROVE DeciderShape'
  BY <1>4 DEF Take
<1>5. ASSUME NEW w \in Deciders, BeginUnit(w) PROVE DeciderShape'
  BY <1>5 DEF BeginUnit
<1>6. ASSUME NEW w \in Deciders, Decide(w) PROVE DeciderShape'
  BY <1>6 DEF Decide, DecisionVerdicts
<1>7. ASSUME NEW w \in Deciders, Exclude(w) PROVE DeciderShape'
  BY <1>7 DEF Exclude
<1>8. ASSUME NEW w \in Deciders, DecideRaises(w) PROVE DeciderShape'
  BY <1>8 DEF DecideRaises
<1>9. ASSUME NEW w \in Deciders, NEW c \in Nodes, CreateChild(w, c) PROVE DeciderShape'
  BY <1>9 DEF CreateChild, Upsert, ChildOrg
<1>10. ASSUME NEW w \in Deciders, CloseUnit(w) PROVE DeciderShape'
  BY <1>10 DEF CloseUnit
<1>11. ASSUME NEW w \in Deciders, MarkDecided(w) PROVE DeciderShape'
  BY <1>11 DEF MarkDecided
<1>12. ASSUME NEW w \in Deciders, ExitDecider(w) PROVE DeciderShape'
  BY <1>12 DEF ExitDecider
<1> HIDE <1>0, EngineAssumption DEF Typed, DeciderShape, QueueShape, Worker, Driver, NoWork,
       DriverLoop
<1> QED BY <1>2, <1>3, <1>4, <1>5, <1>6, <1>7, <1>8, <1>9, <1>10, <1>11, <1>12 DEF Next, Setup,
  DriverStep, Wrapup, DeciderStep, ExtractorStep, Opening, SetupControl, SetupData, WrapupControl,
  ProcessEnding

\* An extract worker has a node exactly from taking it to marking it.
LEMMA ExtractorShapeStep == ASSUME TypeOK, ExtractorShape, QueueShape, Next PROVE ExtractorShape'
<1>0. Typed
  BY DEF TypeOK, Typed
<1>1. ASSUME UNCHANGED <<ew>> PROVE ExtractorShape'
  BY <1>1 DEF ExtractorShape
<1>2. CASE Opening \/ SetupControl \/ SetupData \/ DriverStep \/ WrapupControl
      \/ (\E w \in Deciders : DeciderStep(w))
  BY <1>1, <1>2, Frames
<1> USE <1>0, EngineAssumption DEF Typed, ExtractorShape, QueueShape, Worker, Driver, NoWork,
       DriverLoop
<1>3. CASE ProcessEnding
  BY <1>3 DEF ProcessEnding, Closed, ProcessEnds, ProcessIdle, Joined, RecordUniversity, Cancel,
         Crash
<1>4. ASSUME NEW w \in Extractors, NEW n \in Nodes, TakeDetail(w, n) PROVE ExtractorShape'
  BY <1>4 DEF TakeDetail
<1>5. ASSUME NEW w \in Extractors, CheckTwin(w) PROVE ExtractorShape'
  BY <1>5 DEF CheckTwin
<1>6. ASSUME NEW w \in Extractors, RecordAttempt(w) PROVE ExtractorShape'
  BY <1>6 DEF RecordAttempt
<1>7. ASSUME NEW w \in Extractors, ExtractSaved(w) PROVE ExtractorShape'
  BY <1>7 DEF ExtractSaved
<1>8. ASSUME NEW w \in Extractors, NEW v \in {"skipped", "retry", "failed"}, ExtractFails(w, v)
      PROVE ExtractorShape'
  BY <1>8 DEF ExtractFails
<1>9. ASSUME NEW w \in Extractors, FinishAttempt(w) PROVE ExtractorShape'
  BY <1>9 DEF FinishAttempt
<1>10. ASSUME NEW w \in Extractors, MarkExtracted(w) PROVE ExtractorShape'
  BY <1>10 DEF MarkExtracted
<1>11. ASSUME NEW w \in Extractors, ExitExtractor(w) PROVE ExtractorShape'
  BY <1>11 DEF ExitExtractor
<1> HIDE <1>0, EngineAssumption DEF Typed, ExtractorShape, QueueShape, Worker, Driver, NoWork,
       DriverLoop
<1> QED BY <1>2, <1>3, <1>4, <1>5, <1>6, <1>7, <1>8, <1>9, <1>10, <1>11 DEF Next, Setup,
  DriverStep, Wrapup, DeciderStep, ExtractorStep, Opening, SetupControl, SetupData, WrapupControl,
  ProcessEnding

\* Nothing is in hand until BeginCrawl: the steps of driver and workers need
\* the crawl, or a node.
LEMMA SetupIdleStep == ASSUME TypeOK, SetupIdle, Next PROVE SetupIdle'
<1>0. Typed
  BY DEF TypeOK, Typed
<1>1. ASSUME UNCHANGED <<attempted, dq, driver, dw, eq, ew, proc, row>> PROVE SetupIdle'
  BY <1>1 DEF SetupIdle
<1>2. CASE (\E n \in Nodes : LoadSeed(n))
  BY <1>1, <1>2 DEF LoadSeed, Upsert
<1>3. ASSUME Closed PROVE SetupIdle'
  BY <1>3, <1>0 DEF Closed, ProcessEnds, ProcessIdle, Joined, Typed, SetupIdle, Live
<1>4. ASSUME RecordUniversity PROVE SetupIdle'
  BY <1>4, <1>0 DEF RecordUniversity, ProcessEnds, ProcessIdle, Typed, SetupIdle, Live
<1>5. ASSUME NEW w \in Deciders, ExitDecider(w) PROVE SetupIdle'
  BY <1>5, <1>0 DEF ExitDecider, Typed, SetupIdle, Live
<1>6. ASSUME NEW w \in Extractors, ExitExtractor(w) PROVE SetupIdle'
  BY <1>6, <1>0 DEF ExitExtractor, Typed, SetupIdle, Live
<1>7. ASSUME Cancel PROVE SetupIdle'
  BY <1>7, <1>0 DEF Cancel, ProcessEnds, ProcessIdle, Typed, SetupIdle, Live
<1>8. ASSUME Crash PROVE SetupIdle'
  BY <1>8, <1>0 DEF Crash, ProcessEnds, ProcessIdle, Typed, SetupIdle, Live
<1> USE <1>0, EngineAssumption DEF Typed, SetupIdle, Live, Worker, Driver, NoWork, DriverLoop
<1>9. ASSUME OpenFresh PROVE SetupIdle'
  BY <1>9 DEF OpenFresh, Wiped
<1>10. ASSUME NEW T \in SUBSET Orgs, NEW r \in BOOLEAN, OpenResume(T, r) PROVE SetupIdle'
  BY <1>10 DEF OpenResume
<1>11. CASE SetupControl
  BY <1>11 DEF SetupControl, StartRun, ServerUp, ServerFails, ResetsDone, SeedsDone, BeginCrawl
<1>12. ASSUME NEW o \in Orgs, ResetSubtree(o) PROVE SetupIdle'
  BY <1>12 DEF ResetSubtree, Deletable, Entrypoints, CacheByUrl, Present
<1>13. ASSUME ResetBad PROVE SetupIdle'
  BY <1>13 DEF ResetBad, BadSnapshots, Present
<1>14. ASSUME NEW n \in Nodes, DClaim(n) PROVE SetupIdle'
  BY <1>14 DEF DClaim, Claimable, InScope
<1>15. ASSUME DLookup PROVE SetupIdle'
  BY <1>15 DEF DLookup, Results
<1>16. ASSUME NEW r \in FetchResults, DFetched(r) PROVE SetupIdle'
  BY <1>16 DEF DFetched, Results
<1>17. ASSUME DDispatch PROVE SetupIdle'
  BY <1>17 DEF DDispatch
<1>18. ASSUME DSettle PROVE SetupIdle'
  BY <1>18 DEF DSettle, FetchVerdict, Results
<1>19. ASSUME DExit PROVE SetupIdle'
  BY <1>19 DEF DExit
<1>20. CASE WrapupControl
  BY <1>20 DEF WrapupControl, BuildSummary, FinishRun, FinishUniversity, RecordRun
<1>21. ASSUME NEW w \in Deciders, NEW n \in Nodes, Take(w, n) PROVE SetupIdle'
  BY <1>21 DEF Take
<1>22. ASSUME NEW w \in Deciders, BeginUnit(w) PROVE SetupIdle'
  BY <1>22 DEF BeginUnit
<1>23. ASSUME NEW w \in Deciders, Decide(w) PROVE SetupIdle'
  BY <1>23 DEF Decide, DecisionVerdicts
<1>24. ASSUME NEW w \in Deciders, Exclude(w) PROVE SetupIdle'
  BY <1>24 DEF Exclude
<1>25. ASSUME NEW w \in Deciders, DecideRaises(w) PROVE SetupIdle'
  BY <1>25 DEF DecideRaises
<1>26. ASSUME NEW w \in Deciders, NEW c \in Nodes, CreateChild(w, c) PROVE SetupIdle'
  BY <1>26 DEF CreateChild, Upsert, ChildOrg
<1>27. ASSUME NEW w \in Deciders, CloseUnit(w) PROVE SetupIdle'
  BY <1>27 DEF CloseUnit
<1>28. ASSUME NEW w \in Deciders, MarkDecided(w) PROVE SetupIdle'
  BY <1>28 DEF MarkDecided
<1>29. ASSUME NEW w \in Extractors, NEW n \in Nodes, TakeDetail(w, n) PROVE SetupIdle'
  BY <1>29 DEF TakeDetail
<1>30. ASSUME NEW w \in Extractors, CheckTwin(w) PROVE SetupIdle'
  BY <1>30 DEF CheckTwin
<1>31. ASSUME NEW w \in Extractors, RecordAttempt(w) PROVE SetupIdle'
  BY <1>31 DEF RecordAttempt
<1>32. ASSUME NEW w \in Extractors, ExtractSaved(w) PROVE SetupIdle'
  BY <1>32 DEF ExtractSaved
<1>33. ASSUME NEW w \in Extractors, NEW v \in {"skipped", "retry", "failed"}, ExtractFails(w, v)
      PROVE SetupIdle'
  BY <1>33 DEF ExtractFails
<1>34. ASSUME NEW w \in Extractors, FinishAttempt(w) PROVE SetupIdle'
  BY <1>34 DEF FinishAttempt
<1>35. ASSUME NEW w \in Extractors, MarkExtracted(w) PROVE SetupIdle'
  BY <1>35 DEF MarkExtracted
<1> HIDE <1>0, EngineAssumption DEF Typed, SetupIdle, Live, Worker, Driver, NoWork, DriverLoop
<1> QED BY <1>2, <1>3, <1>4, <1>5, <1>6, <1>7, <1>8, <1>9, <1>10, <1>11, <1>12, <1>13, <1>14,
  <1>15, <1>16, <1>17, <1>18, <1>19, <1>20, <1>21, <1>22, <1>23, <1>24, <1>25, <1>26, <1>27,
  <1>28, <1>29, <1>30, <1>31, <1>32, <1>33, <1>34, <1>35 DEF Next, Setup, DriverStep, Wrapup,
  DeciderStep, ExtractorStep, Opening, SetupControl, SetupData, WrapupControl, ProcessEnding

\* A claim takes a pending or retried node, which nobody holds; afterwards the
\* node moves from the driver to one queue to one worker, and its row stays
\* in_progress until the last of them lets go of it.
LEMMA HeldOnceStep == ASSUME TypeOK, HeldOnce, SetupIdle, DriverShape, DeciderShape,
    ExtractorShape, Next PROVE HeldOnce'
<1>0. Typed
  BY DEF TypeOK, Typed
<1>1. ASSUME UNCHANGED <<dq, driver, dw, eq, ew, status>> PROVE HeldOnce'
  BY <1>1 DEF HeldOnce, Held
<1>2. CASE SetupControl \/ WrapupControl \/ DExit
  BY <1>1, <1>2, Frames DEF DExit
<1> USE <1>0, EngineAssumption DEF Typed, HeldOnce, SetupIdle, DriverShape, DeciderShape,
       ExtractorShape, Held, Worker, Driver, NoWork, DriverLoop
<1>3. ASSUME OpenFresh PROVE HeldOnce'
  BY <1>3 DEF OpenFresh, Wiped
<1>4. ASSUME NEW T \in SUBSET Orgs, NEW r \in BOOLEAN, OpenResume(T, r) PROVE HeldOnce'
  BY <1>4 DEF OpenResume
<1>5. ASSUME NEW o \in Orgs, ResetSubtree(o) PROVE HeldOnce'
  BY <1>5 DEF ResetSubtree, Deletable, Entrypoints, CacheByUrl, Present
<1>6. ASSUME NEW n \in Nodes, LoadSeed(n) PROVE HeldOnce'
  BY <1>6 DEF LoadSeed, Upsert
<1>7. ASSUME ResetBad PROVE HeldOnce'
  BY <1>7 DEF ResetBad, BadSnapshots, Present
<1>8. ASSUME NEW n \in Nodes, DClaim(n) PROVE HeldOnce'
  BY <1>8 DEF DClaim, Claimable, InScope
<1>9. ASSUME DLookup PROVE HeldOnce'
  BY <1>9 DEF DLookup, Results
<1>10. ASSUME NEW r \in FetchResults, DFetched(r) PROVE HeldOnce'
  BY <1>10 DEF DFetched, Results
<1>11. ASSUME DDispatch PROVE HeldOnce'
  BY <1>11 DEF DDispatch
<1>12. ASSUME DSettle PROVE HeldOnce'
  BY <1>12 DEF DSettle, FetchVerdict, Results
<1>13. CASE ProcessEnding
  BY <1>13 DEF ProcessEnding, Closed, ProcessEnds, ProcessIdle, Joined, RecordUniversity, Cancel,
         Crash
<1>14. ASSUME NEW w \in Deciders, NEW n \in Nodes, Take(w, n) PROVE HeldOnce'
  BY <1>14 DEF Take
<1>15. ASSUME NEW w \in Deciders, BeginUnit(w) PROVE HeldOnce'
  BY <1>15 DEF BeginUnit
<1>16. ASSUME NEW w \in Deciders, Decide(w) PROVE HeldOnce'
  BY <1>16 DEF Decide, DecisionVerdicts
<1>17. ASSUME NEW w \in Deciders, Exclude(w) PROVE HeldOnce'
  BY <1>17 DEF Exclude
<1>18. ASSUME NEW w \in Deciders, DecideRaises(w) PROVE HeldOnce'
  BY <1>18 DEF DecideRaises
<1>19. ASSUME NEW w \in Deciders, NEW c \in Nodes, CreateChild(w, c) PROVE HeldOnce'
  BY <1>19 DEF CreateChild, Upsert, ChildOrg
<1>20. ASSUME NEW w \in Deciders, CloseUnit(w) PROVE HeldOnce'
  BY <1>20 DEF CloseUnit
<1>21. ASSUME NEW w \in Deciders, MarkDecided(w) PROVE HeldOnce'
  BY <1>21 DEF MarkDecided
<1>22. ASSUME NEW w \in Deciders, ExitDecider(w) PROVE HeldOnce'
  BY <1>22 DEF ExitDecider
<1>23. ASSUME NEW w \in Extractors, NEW n \in Nodes, TakeDetail(w, n) PROVE HeldOnce'
  BY <1>23 DEF TakeDetail
<1>24. ASSUME NEW w \in Extractors, CheckTwin(w) PROVE HeldOnce'
  BY <1>24 DEF CheckTwin
<1>25. ASSUME NEW w \in Extractors, RecordAttempt(w) PROVE HeldOnce'
  BY <1>25 DEF RecordAttempt
<1>26. ASSUME NEW w \in Extractors, ExtractSaved(w) PROVE HeldOnce'
  BY <1>26 DEF ExtractSaved
<1>27. ASSUME NEW w \in Extractors, NEW v \in {"skipped", "retry", "failed"}, ExtractFails(w, v)
      PROVE HeldOnce'
  BY <1>27 DEF ExtractFails
<1>28. ASSUME NEW w \in Extractors, FinishAttempt(w) PROVE HeldOnce'
  BY <1>28 DEF FinishAttempt
<1>29. ASSUME NEW w \in Extractors, MarkExtracted(w) PROVE HeldOnce'
  BY <1>29 DEF MarkExtracted
<1>30. ASSUME NEW w \in Extractors, ExitExtractor(w) PROVE HeldOnce'
  BY <1>30 DEF ExitExtractor
<1> HIDE <1>0, EngineAssumption DEF Typed, HeldOnce, SetupIdle, DriverShape, DeciderShape,
       ExtractorShape, Held, Worker, Driver, NoWork, DriverLoop
<1> QED BY <1>2, <1>3, <1>4, <1>5, <1>6, <1>7, <1>8, <1>9, <1>10, <1>11, <1>12, <1>13, <1>14,
  <1>15, <1>16, <1>17, <1>18, <1>19, <1>20, <1>21, <1>22, <1>23, <1>24, <1>25, <1>26, <1>27,
  <1>28, <1>29, <1>30 DEF Next, Setup, DriverStep, Wrapup, DeciderStep, ExtractorStep, Opening,
  SetupControl, SetupData, WrapupControl, ProcessEnding

\* A worker gets the verdict done by saving the professors, or from a done
\* twin.
LEMMA SavedFirstStep == ASSUME TypeOK, SavedFirst, SetupIdle, ExtractorShape, DoneDetailSaved,
    Next PROVE SavedFirst'
<1>0. Typed
  BY DEF TypeOK, Typed
<1>1. ASSUME UNCHANGED <<ew, profs>> PROVE SavedFirst'
  BY <1>1 DEF SavedFirst, Saved
<1>2. CASE SetupControl \/ SetupData \/ DriverStep \/ WrapupControl
      \/ (\E w \in Deciders : DeciderStep(w))
      \/ (\E T \in SUBSET Orgs, r \in BOOLEAN : OpenResume(T, r))
  BY <1>1, <1>2, Frames DEF OpenResume
<1>3. ASSUME NEW w \in Extractors, CheckTwin(w) PROVE SavedFirst'
  <2>1. ew[w].node \in Nodes
    BY <1>3 DEF CheckTwin, ExtractorShape
  <2>2. (\E m \in Twins[ew[w].node] : status[m] = "done") => Saved(ew[w].node)
    BY <2>1, EngineAssumption DEF DoneDetailSaved, Saved
  <2>3. \A v \in Extractors :
          /\ ew'[v].node = ew[v].node
          /\ \/ ew'[v].verdict = ew[v].verdict
             \/ v = w /\ \E m \in Twins[ew[w].node] : status[m] = "done"
    BY <1>3, <1>0 DEF Typed, CheckTwin, Worker
  <2>4. profs' = profs
    BY <1>3 DEF CheckTwin
  <2> QED BY <2>2, <2>3, <2>4 DEF SavedFirst, Saved
<1> USE <1>0, EngineAssumption DEF Typed, SavedFirst, SetupIdle, ExtractorShape, DoneDetailSaved,
       Saved, Worker, Driver, NoWork, DriverLoop
<1>4. ASSUME OpenFresh PROVE SavedFirst'
  BY <1>4 DEF OpenFresh, Wiped
<1>5. CASE ProcessEnding
  BY <1>5 DEF ProcessEnding, Closed, ProcessEnds, ProcessIdle, Joined, RecordUniversity, Cancel,
         Crash
<1>6. ASSUME NEW w \in Extractors, NEW n \in Nodes, TakeDetail(w, n) PROVE SavedFirst'
  BY <1>6 DEF TakeDetail
<1>7. ASSUME NEW w \in Extractors, RecordAttempt(w) PROVE SavedFirst'
  BY <1>7 DEF RecordAttempt
<1>8. ASSUME NEW w \in Extractors, ExtractSaved(w) PROVE SavedFirst'
  BY <1>8 DEF ExtractSaved
<1>9. ASSUME NEW w \in Extractors, NEW v \in {"skipped", "retry", "failed"}, ExtractFails(w, v)
      PROVE SavedFirst'
  BY <1>9 DEF ExtractFails
<1>10. ASSUME NEW w \in Extractors, FinishAttempt(w) PROVE SavedFirst'
  BY <1>10 DEF FinishAttempt
<1>11. ASSUME NEW w \in Extractors, MarkExtracted(w) PROVE SavedFirst'
  BY <1>11 DEF MarkExtracted
<1>12. ASSUME NEW w \in Extractors, ExitExtractor(w) PROVE SavedFirst'
  BY <1>12 DEF ExitExtractor
<1> HIDE <1>0, EngineAssumption DEF Typed, SavedFirst, SetupIdle, ExtractorShape, DoneDetailSaved,
       Saved, Worker, Driver, NoWork, DriverLoop
<1> QED BY <1>2, <1>3, <1>4, <1>5, <1>6, <1>7, <1>8, <1>9, <1>10, <1>11, <1>12 DEF Next, Setup,
  DriverStep, Wrapup, DeciderStep, ExtractorStep, Opening, SetupControl, SetupData, WrapupControl,
  ProcessEnding

\* Only MarkExtracted makes a detail done, and its professors are saved
\* (SavedFirst).
LEMMA DoneDetailSavedStep == ASSUME TypeOK, DoneDetailSaved, SavedFirst, ExtractorShape,
    DeciderShape, DriverShape, Next PROVE DoneDetailSaved'
<1>0. Typed
  BY DEF TypeOK, Typed
<1>1. ASSUME UNCHANGED <<profs, status>> PROVE DoneDetailSaved'
  BY <1>1 DEF DoneDetailSaved, Saved
<1>2. CASE SetupControl \/ WrapupControl \/ ProcessEnding \/ DLookup
      \/ (\E r \in FetchResults : DFetched(r)) \/ DDispatch \/ DExit
      \/ (\E w \in Deciders, n \in Nodes : Take(w, n)) \/ (\E w \in Deciders : BeginUnit(w)
      \/ Decide(w) \/ Exclude(w) \/ DecideRaises(w) \/ CloseUnit(w) \/ ExitDecider(w))
      \/ (\E w \in Extractors, n \in Nodes : TakeDetail(w, n))
      \/ (\E w \in Extractors : CheckTwin(w) \/ RecordAttempt(w) \/ FinishAttempt(w)
      \/ ExitExtractor(w))
      \/ (\E w \in Extractors, v \in {"skipped", "retry", "failed"} : ExtractFails(w, v))
  BY <1>1, <1>2, Frames DEF DLookup, DFetched, DDispatch, DExit, Take, BeginUnit, Decide, Exclude,
         DecideRaises, CloseUnit, ExitDecider, TakeDetail, CheckTwin, RecordAttempt, ExtractFails,
         FinishAttempt, ExitExtractor
<1> USE <1>0, EngineAssumption DEF Typed, DoneDetailSaved, SavedFirst, ExtractorShape,
       DeciderShape, DriverShape, Saved, Worker, Driver, NoWork, DriverLoop
<1>3. ASSUME OpenFresh PROVE DoneDetailSaved'
  BY <1>3 DEF OpenFresh, Wiped
<1>4. ASSUME NEW T \in SUBSET Orgs, NEW r \in BOOLEAN, OpenResume(T, r) PROVE DoneDetailSaved'
  BY <1>4 DEF OpenResume
<1>5. ASSUME NEW o \in Orgs, ResetSubtree(o) PROVE DoneDetailSaved'
  BY <1>5 DEF ResetSubtree, Deletable, Entrypoints, CacheByUrl, Present
<1>6. ASSUME NEW n \in Nodes, LoadSeed(n) PROVE DoneDetailSaved'
  BY <1>6 DEF LoadSeed, Upsert
<1>7. ASSUME ResetBad PROVE DoneDetailSaved'
  BY <1>7 DEF ResetBad, BadSnapshots, Present
<1>8. ASSUME NEW n \in Nodes, DClaim(n) PROVE DoneDetailSaved'
  BY <1>8 DEF DClaim, Claimable, InScope
<1>9. ASSUME DSettle PROVE DoneDetailSaved'
  BY <1>9 DEF DSettle, FetchVerdict, Results
<1>10. ASSUME NEW w \in Deciders, NEW c \in Nodes, CreateChild(w, c) PROVE DoneDetailSaved'
  BY <1>10 DEF CreateChild, Upsert, ChildOrg
<1>11. ASSUME NEW w \in Deciders, MarkDecided(w) PROVE DoneDetailSaved'
  BY <1>11 DEF MarkDecided
<1>12. ASSUME NEW w \in Extractors, ExtractSaved(w) PROVE DoneDetailSaved'
  BY <1>12 DEF ExtractSaved
<1>13. ASSUME NEW w \in Extractors, MarkExtracted(w) PROVE DoneDetailSaved'
  BY <1>13 DEF MarkExtracted
<1> HIDE <1>0, EngineAssumption DEF Typed, DoneDetailSaved, SavedFirst, ExtractorShape,
       DeciderShape, DriverShape, Saved, Worker, Driver, NoWork, DriverLoop
<1> QED BY <1>2, <1>3, <1>4, <1>5, <1>6, <1>7, <1>8, <1>9, <1>10, <1>11, <1>12, <1>13 DEF Next,
  Setup, DriverStep, Wrapup, DeciderStep, ExtractorStep, Opening, SetupControl, SetupData,
  WrapupControl, ProcessEnding

\* A decision puts its children in the worker's hands; each leaves them by
\* being created.
LEMMA ChildrenKeptStep == ASSUME TypeOK, ChildrenKept, SetupIdle, DeciderShape, HeldOnce,
    DriverShape, ExtractorShape, Next PROVE ChildrenKept'
<1>0. Typed
  BY DEF TypeOK, Typed
<1>1. ASSUME UNCHANGED <<decided, dw, status>> PROVE ChildrenKept'
  BY <1>1 DEF ChildrenKept, Held, Present
<1>2. CASE SetupControl \/ WrapupControl \/ DLookup \/ (\E r \in FetchResults : DFetched(r))
      \/ DDispatch \/ DExit \/ (\E w \in Extractors, n \in Nodes : TakeDetail(w, n))
      \/ (\E w \in Extractors : CheckTwin(w) \/ RecordAttempt(w) \/ ExtractSaved(w)
      \/ FinishAttempt(w) \/ ExitExtractor(w))
      \/ (\E w \in Extractors, v \in {"skipped", "retry", "failed"} : ExtractFails(w, v))
  BY <1>1, <1>2, Frames DEF DLookup, DFetched, DDispatch, DExit, TakeDetail, CheckTwin,
         RecordAttempt, ExtractSaved, ExtractFails, FinishAttempt, ExitExtractor
<1>3. ASSUME NEW w \in Deciders, Decide(w) PROVE ChildrenKept'
  <2>1. dw[w].node \in Nodes /\ Kind[dw[w].node] # "detail"
    BY <1>3 DEF Decide, DeciderShape
  <2>2. PICK C \in SUBSET Links[dw[w].node] : \E v \in DecisionVerdicts(dw[w].node, C) :
          /\ decided' = [decided EXCEPT ![dw[w].node] = C]
          /\ dw' = [dw EXCEPT ![w] = [@ EXCEPT !.pc = "create", !.children = C, !.verdict = v]]
    BY <1>3 DEF Decide
  <2>3. /\ \A v \in Deciders : v # w => dw'[v] = dw[v]
        /\ dw'[w].node = dw[w].node /\ dw'[w].children = C
    BY <2>2, <1>0 DEF Typed, Worker
  <2>4. Present' = Present
    BY <1>3 DEF Decide, Present
  <2>5. \A v \in Deciders : dw[v].pc \in {"create", "mark"} /\ v # w => dw[v].node # dw[w].node
    BY <2>1, NoNodeIsNoNode DEF HeldOnce
  <2>6. \A n \in Nodes : decided'[n] = IF n = dw[w].node THEN C ELSE decided[n]
    BY <2>1, <2>2, <1>0 DEF Typed
  <2>7. \A v \in Deciders : dw[v].pc \in {"create", "mark"} => dw[v].node \in Nodes
    BY DEF DeciderShape
  <2> QED BY <2>1, <2>3, <2>4, <2>5, <2>6, <2>7 DEF ChildrenKept
<1>4. ASSUME NEW w \in Deciders, Exclude(w) PROVE ChildrenKept'
  <2>1. dw[w].node \in Nodes /\ Kind[dw[w].node] # "detail"
    BY <1>4 DEF Exclude, DeciderShape
  <2>2. (\A v \in Deciders : v # w => dw'[v] = dw[v]) /\ dw'[w].node = dw[w].node
    BY <1>4, <1>0 DEF Typed, Exclude, Worker
  <2>3. Present' = Present
    BY <1>4 DEF Exclude, Present
  <2>4. \A n \in Nodes : decided'[n] = IF n = dw[w].node THEN {} ELSE decided[n]
    BY <1>4, <2>1, <1>0 DEF Typed, Exclude
  <2>5. \A v \in Deciders : dw[v].pc \in {"create", "mark"} => dw[v].node \in Nodes
    BY DEF DeciderShape
  <2>6. ASSUME NEW v \in Deciders, dw'[v].pc \in {"create", "mark"}
        PROVE  decided'[dw'[v].node] \subseteq Present' \cup dw'[v].children
    <3>1. CASE v = w
      BY <3>1, <2>1, <2>2, <2>4
    <3>2. CASE v # w
      BY <3>2, <2>2, <2>3, <2>4, <2>5, <2>6 DEF ChildrenKept
    <3> QED BY <3>1, <3>2
  <2> QED BY <2>4, <2>6 DEF ChildrenKept
<1>5. ASSUME NEW w \in Deciders, MarkDecided(w) PROVE ChildrenKept'
  <2>1. dw[w].node \in Nodes /\ dw[w].verdict \in {"done", "retry", "skipped"}
    BY <1>5 DEF MarkDecided, DeciderShape
  <2>2. \A m \in Nodes : status'[m] = IF m = dw[w].node THEN dw[w].verdict ELSE status[m]
    BY <1>5, <2>1, <1>0 DEF Typed, MarkDecided
  <2>3. \A v \in Deciders : dw'[v] = IF v = w THEN NoWork ELSE dw[v]
    BY <1>5, <1>0 DEF Typed, MarkDecided
  <2>4. Present \subseteq Present'
    BY <2>1, <2>2 DEF Present
  <2>5. decided' = decided
    BY <1>5 DEF MarkDecided
  <2> QED BY <2>3, <2>4, <2>5 DEF ChildrenKept, NoWork
<1> USE <1>0, EngineAssumption DEF Typed, ChildrenKept, SetupIdle, DeciderShape, HeldOnce,
       DriverShape, ExtractorShape, Held, Present, Worker, Driver, NoWork, DriverLoop
<1>6. ASSUME OpenFresh PROVE ChildrenKept'
  BY <1>6 DEF OpenFresh, Wiped
<1>7. ASSUME NEW T \in SUBSET Orgs, NEW r \in BOOLEAN, OpenResume(T, r) PROVE ChildrenKept'
  BY <1>7 DEF OpenResume
<1>8. ASSUME NEW o \in Orgs, ResetSubtree(o) PROVE ChildrenKept'
  BY <1>8 DEF ResetSubtree, Deletable, Entrypoints, CacheByUrl, Present
<1>9. ASSUME NEW n \in Nodes, LoadSeed(n) PROVE ChildrenKept'
  BY <1>9 DEF LoadSeed, Upsert
<1>10. ASSUME ResetBad PROVE ChildrenKept'
  BY <1>10 DEF ResetBad, BadSnapshots, Present
<1>11. ASSUME NEW n \in Nodes, DClaim(n) PROVE ChildrenKept'
  BY <1>11 DEF DClaim, Claimable, InScope
<1>12. ASSUME DSettle PROVE ChildrenKept'
  BY <1>12 DEF DSettle, FetchVerdict, Results
<1>13. CASE ProcessEnding
  BY <1>13 DEF ProcessEnding, Closed, ProcessEnds, ProcessIdle, Joined, RecordUniversity, Cancel,
         Crash
<1>14. ASSUME NEW w \in Deciders, NEW n \in Nodes, Take(w, n) PROVE ChildrenKept'
  BY <1>14 DEF Take
<1>15. ASSUME NEW w \in Deciders, BeginUnit(w) PROVE ChildrenKept'
  BY <1>15 DEF BeginUnit
<1>16. ASSUME NEW w \in Deciders, DecideRaises(w) PROVE ChildrenKept'
  BY <1>16 DEF DecideRaises
<1>17. ASSUME NEW w \in Deciders, NEW c \in Nodes, CreateChild(w, c) PROVE ChildrenKept'
  BY <1>17 DEF CreateChild, Upsert, ChildOrg
<1>18. ASSUME NEW w \in Deciders, CloseUnit(w) PROVE ChildrenKept'
  BY <1>18 DEF CloseUnit
<1>19. ASSUME NEW w \in Deciders, ExitDecider(w) PROVE ChildrenKept'
  BY <1>19 DEF ExitDecider
<1>20. ASSUME NEW w \in Extractors, MarkExtracted(w) PROVE ChildrenKept'
  BY <1>20 DEF MarkExtracted
<1> HIDE <1>0, EngineAssumption DEF Typed, ChildrenKept, SetupIdle, DeciderShape, HeldOnce,
       DriverShape, ExtractorShape, Held, Present, Worker, Driver, NoWork, DriverLoop
<1> QED BY <1>2, <1>3, <1>4, <1>5, <1>6, <1>7, <1>8, <1>9, <1>10, <1>11, <1>12, <1>13, <1>14,
  <1>15, <1>16, <1>17, <1>18, <1>19, <1>20 DEF Next, Setup, DriverStep, Wrapup, DeciderStep,
  ExtractorStep, Opening, SetupControl, SetupData, WrapupControl, ProcessEnding

\* A node is marked done by a worker that has no child left (ChildrenKept);
\* rows are deleted only by a reset, which takes them out of decided too.
LEMMA NoLostChildStep == ASSUME TypeOK, NoLostChild, ChildrenKept, SetupIdle, DeciderShape,
    HeldOnce, DriverShape, ExtractorShape, Next PROVE NoLostChild'
<1>0. Typed
  BY DEF TypeOK, Typed
<1>1. ASSUME UNCHANGED <<decided, status>> PROVE NoLostChild'
  BY <1>1 DEF NoLostChild, Held, Present
<1>2. CASE SetupControl \/ WrapupControl \/ ProcessEnding \/ DLookup
      \/ (\E r \in FetchResults : DFetched(r)) \/ DDispatch \/ DExit
      \/ (\E w \in Deciders, n \in Nodes : Take(w, n)) \/ (\E w \in Deciders : BeginUnit(w)
      \/ DecideRaises(w) \/ CloseUnit(w) \/ ExitDecider(w))
      \/ (\E w \in Extractors, n \in Nodes : TakeDetail(w, n))
      \/ (\E w \in Extractors : CheckTwin(w) \/ RecordAttempt(w) \/ ExtractSaved(w)
      \/ FinishAttempt(w) \/ ExitExtractor(w))
      \/ (\E w \in Extractors, v \in {"skipped", "retry", "failed"} : ExtractFails(w, v))
  BY <1>1, <1>2, Frames DEF DLookup, DFetched, DDispatch, DExit, Take, BeginUnit, DecideRaises,
         CloseUnit, ExitDecider, TakeDetail, CheckTwin, RecordAttempt, ExtractSaved, ExtractFails,
         FinishAttempt, ExitExtractor
<1>3. ASSUME NEW w \in Deciders, Decide(w) PROVE NoLostChild'
  <2>1. dw[w].node \in Nodes /\ status[dw[w].node] = "in_progress"
    BY <1>3, NoNodeIsNoNode DEF Decide, DeciderShape, HeldOnce, Held
  <2>2. PICK C \in SUBSET Links[dw[w].node] : decided' = [decided EXCEPT ![dw[w].node] = C]
    BY <1>3 DEF Decide
  <2>3. status' = status /\ Present' = Present
    BY <1>3 DEF Decide, Present
  <2>5. \A n \in Nodes : decided'[n] = IF n = dw[w].node THEN C ELSE decided[n]
    BY <2>1, <2>2, <1>0 DEF Typed
  <2> QED BY <2>1, <2>3, <2>5 DEF NoLostChild
<1>4. ASSUME NEW w \in Deciders, MarkDecided(w) PROVE NoLostChild'
  <2>1. dw[w].node \in Nodes /\ dw[w].verdict \in {"done", "retry", "skipped"}
    BY <1>4 DEF MarkDecided, DeciderShape
  <2>2. \A m \in Nodes : status'[m] = IF m = dw[w].node THEN dw[w].verdict ELSE status[m]
    BY <1>4, <2>1, <1>0 DEF Typed, MarkDecided
  <2>3. decided' = decided
    BY <1>4 DEF MarkDecided
  <2>4. Present \subseteq Present'
    BY <2>1, <2>2 DEF Present
  <2>5. decided[dw[w].node] \subseteq Present
    BY <1>4 DEF MarkDecided, DeciderShape, ChildrenKept
  <2> QED BY <2>2, <2>3, <2>4, <2>5 DEF NoLostChild
<1>5. ASSUME NEW w \in Extractors, MarkExtracted(w) PROVE NoLostChild'
  <2>1. ew[w].node \in Nodes /\ ew[w].verdict \in {"done", "retry", "skipped", "failed"}
    BY <1>5 DEF MarkExtracted, ExtractorShape
  <2>2. \A m \in Nodes : status'[m] = IF m = ew[w].node THEN ew[w].verdict ELSE status[m]
    BY <1>5, <2>1, <1>0 DEF Typed, MarkExtracted
  <2>3. decided' = decided
    BY <1>5 DEF MarkExtracted
  <2>4. Present \subseteq Present'
    BY <2>1, <2>2 DEF Present
  <2>5. decided[ew[w].node] = {}
    BY <1>5, <2>1 DEF MarkExtracted, ExtractorShape, ChildrenKept
  <2> QED BY <2>2, <2>3, <2>4, <2>5 DEF NoLostChild
<1> USE <1>0, EngineAssumption DEF Typed, NoLostChild, ChildrenKept, SetupIdle, DeciderShape,
       HeldOnce, DriverShape, ExtractorShape, Held, Present, Worker, Driver, NoWork, DriverLoop
<1>6. ASSUME OpenFresh PROVE NoLostChild'
  BY <1>6 DEF OpenFresh, Wiped
<1>7. ASSUME NEW T \in SUBSET Orgs, NEW r \in BOOLEAN, OpenResume(T, r) PROVE NoLostChild'
  BY <1>7 DEF OpenResume
<1>8. ASSUME NEW o \in Orgs, ResetSubtree(o) PROVE NoLostChild'
  BY <1>8 DEF ResetSubtree, Deletable, Entrypoints, CacheByUrl, Present
<1>9. ASSUME NEW n \in Nodes, LoadSeed(n) PROVE NoLostChild'
  BY <1>9 DEF LoadSeed, Upsert
<1>10. ASSUME ResetBad PROVE NoLostChild'
  BY <1>10 DEF ResetBad, BadSnapshots, Present
<1>11. ASSUME NEW n \in Nodes, DClaim(n) PROVE NoLostChild'
  BY <1>11 DEF DClaim, Claimable, InScope
<1>12. ASSUME DSettle PROVE NoLostChild'
  BY <1>12 DEF DSettle, FetchVerdict, Results
<1>13. ASSUME NEW w \in Deciders, Exclude(w) PROVE NoLostChild'
  BY <1>13 DEF Exclude
<1>14. ASSUME NEW w \in Deciders, NEW c \in Nodes, CreateChild(w, c) PROVE NoLostChild'
  BY <1>14 DEF CreateChild, Upsert, ChildOrg
<1> HIDE <1>0, EngineAssumption DEF Typed, NoLostChild, ChildrenKept, SetupIdle, DeciderShape,
       HeldOnce, DriverShape, ExtractorShape, Held, Present, Worker, Driver, NoWork, DriverLoop
<1> QED BY <1>2, <1>3, <1>4, <1>5, <1>6, <1>7, <1>8, <1>9, <1>10, <1>11, <1>12, <1>13, <1>14 DEF
  Next, Setup, DriverStep, Wrapup, DeciderStep, ExtractorStep, Opening, SetupControl, SetupData,
  WrapupControl, ProcessEnding

\* An attempt runs from RecordAttempt to FinishAttempt of one worker; resuming
\* settles the ones a killed process left.
LEMMA RowsHeldStep == ASSUME TypeOK, RowsHeld, RowsAgree, HeldOnce, ExtractorShape, SetupIdle,
    Next PROVE RowsHeld'
<1>0. Typed
  BY DEF TypeOK, Typed
<1>1. ASSUME UNCHANGED <<ew, proc, profs, row>> PROVE RowsHeld'
  BY <1>1 DEF RowsHeld
<1>2. CASE (\E w \in Deciders : DeciderStep(w)) \/ (\E n \in Nodes : LoadSeed(n))
      \/ (\E n \in Nodes : DClaim(n)) \/ DLookup \/ (\E r \in FetchResults : DFetched(r))
      \/ DDispatch \/ DSettle
  BY <1>1, <1>2, Frames DEF LoadSeed, Upsert, DClaim, DLookup, DFetched, DDispatch, DSettle
<1> USE <1>0, EngineAssumption DEF Typed, RowsHeld, RowsAgree, HeldOnce, ExtractorShape,
       SetupIdle, Worker, Driver, NoWork, DriverLoop
<1>3. ASSUME OpenFresh PROVE RowsHeld'
  BY <1>3 DEF OpenFresh, Wiped
<1>4. ASSUME NEW T \in SUBSET Orgs, NEW r \in BOOLEAN, OpenResume(T, r) PROVE RowsHeld'
  BY <1>4 DEF OpenResume
<1>5. CASE SetupControl
  BY <1>5 DEF SetupControl, StartRun, ServerUp, ServerFails, ResetsDone, SeedsDone, BeginCrawl
<1>6. ASSUME NEW o \in Orgs, ResetSubtree(o) PROVE RowsHeld'
  BY <1>6 DEF ResetSubtree, Deletable, Entrypoints, CacheByUrl, Present
<1>7. ASSUME ResetBad PROVE RowsHeld'
  BY <1>7 DEF ResetBad, BadSnapshots, Present
<1>8. ASSUME DExit PROVE RowsHeld'
  BY <1>8 DEF DExit
<1>9. CASE WrapupControl
  BY <1>9 DEF WrapupControl, BuildSummary, FinishRun, FinishUniversity, RecordRun
<1>10. CASE ProcessEnding
  BY <1>10 DEF ProcessEnding, Closed, ProcessEnds, ProcessIdle, Joined, RecordUniversity, Cancel,
         Crash
<1>11. ASSUME NEW w \in Extractors, NEW n \in Nodes, TakeDetail(w, n) PROVE RowsHeld'
  BY <1>11 DEF TakeDetail
<1>12. ASSUME NEW w \in Extractors, CheckTwin(w) PROVE RowsHeld'
  BY <1>12 DEF CheckTwin
<1>13. ASSUME NEW w \in Extractors, RecordAttempt(w) PROVE RowsHeld'
  BY <1>13 DEF RecordAttempt
<1>14. ASSUME NEW w \in Extractors, ExtractSaved(w) PROVE RowsHeld'
  BY <1>14 DEF ExtractSaved
<1>15. ASSUME NEW w \in Extractors, NEW v \in {"skipped", "retry", "failed"}, ExtractFails(w, v)
      PROVE RowsHeld'
  BY <1>15 DEF ExtractFails
<1>16. ASSUME NEW w \in Extractors, FinishAttempt(w) PROVE RowsHeld'
  BY <1>16 DEF FinishAttempt
<1>17. ASSUME NEW w \in Extractors, MarkExtracted(w) PROVE RowsHeld'
  BY <1>17 DEF MarkExtracted
<1>18. ASSUME NEW w \in Extractors, ExitExtractor(w) PROVE RowsHeld'
  BY <1>18 DEF ExitExtractor
<1> HIDE <1>0, EngineAssumption DEF Typed, RowsHeld, RowsAgree, HeldOnce, ExtractorShape,
       SetupIdle, Worker, Driver, NoWork, DriverLoop
<1> QED BY <1>2, <1>3, <1>4, <1>5, <1>6, <1>7, <1>8, <1>9, <1>10, <1>11, <1>12, <1>13, <1>14,
  <1>15, <1>16, <1>17, <1>18 DEF Next, Setup, DriverStep, Wrapup, DeciderStep, ExtractorStep,
  Opening, SetupControl, SetupData, WrapupControl, ProcessEnding

\* The node of a running attempt is in its worker's hands, hence in progress.
LEMMA RowsAgreeStep == ASSUME TypeOK, RowsAgree, RowsHeld, HeldOnce, ExtractorShape, DriverShape,
    DeciderShape, SetupIdle, Next PROVE RowsAgree'
<1>0. Typed
  BY DEF TypeOK, Typed
<1>1. ASSUME UNCHANGED <<profs, row, status>> PROVE RowsAgree'
  BY <1>1 DEF RowsAgree, Held
<1>2. CASE SetupControl \/ WrapupControl \/ ProcessEnding \/ DLookup
      \/ (\E r \in FetchResults : DFetched(r)) \/ DDispatch \/ DExit
      \/ (\E w \in Deciders, n \in Nodes : Take(w, n)) \/ (\E w \in Deciders : BeginUnit(w)
      \/ Decide(w) \/ Exclude(w) \/ DecideRaises(w) \/ CloseUnit(w) \/ ExitDecider(w))
      \/ (\E w \in Extractors, n \in Nodes : TakeDetail(w, n))
      \/ (\E w \in Extractors : CheckTwin(w) \/ ExitExtractor(w))
      \/ (\E w \in Extractors, v \in {"skipped", "retry", "failed"} : ExtractFails(w, v))
  BY <1>1, <1>2, Frames DEF DLookup, DFetched, DDispatch, DExit, Take, BeginUnit, Decide, Exclude,
         DecideRaises, CloseUnit, ExitDecider, TakeDetail, CheckTwin, ExtractFails, ExitExtractor
<1>3. ASSUME NEW w \in Extractors, MarkExtracted(w) PROVE RowsAgree'
  <2>1. ew[w].node \in Nodes /\ ew[w].verdict \in {"done", "retry", "skipped", "failed"}
    BY <1>3 DEF MarkExtracted, ExtractorShape
  <2>2. \A m \in Nodes : status'[m] = IF m = ew[w].node THEN ew[w].verdict ELSE status[m]
    BY <1>3, <2>1, <1>0 DEF Typed, MarkExtracted
  <2>3. row' = row /\ profs' = profs
    BY <1>3 DEF MarkExtracted
  <2>4. row[ew[w].node] # "running"
    BY <1>3, <2>1, NoNodeIsNoNode DEF MarkExtracted, Live, RowsHeld, HeldOnce
  <2> QED BY <2>2, <2>3, <2>4 DEF RowsAgree
<1> USE <1>0, EngineAssumption DEF Typed, RowsAgree, RowsHeld, HeldOnce, ExtractorShape,
       DriverShape, DeciderShape, SetupIdle, Held, Worker, Driver, NoWork, DriverLoop
<1>4. ASSUME OpenFresh PROVE RowsAgree'
  BY <1>4 DEF OpenFresh, Wiped
<1>5. ASSUME NEW T \in SUBSET Orgs, NEW r \in BOOLEAN, OpenResume(T, r) PROVE RowsAgree'
  BY <1>5 DEF OpenResume
<1>6. ASSUME NEW o \in Orgs, ResetSubtree(o) PROVE RowsAgree'
  BY <1>6 DEF ResetSubtree, Deletable, Entrypoints, CacheByUrl, Present
<1>7. ASSUME NEW n \in Nodes, LoadSeed(n) PROVE RowsAgree'
  BY <1>7 DEF LoadSeed, Upsert
<1>8. ASSUME ResetBad PROVE RowsAgree'
  BY <1>8 DEF ResetBad, BadSnapshots, Present
<1>9. ASSUME NEW n \in Nodes, DClaim(n) PROVE RowsAgree'
  BY <1>9 DEF DClaim, Claimable, InScope
<1>10. ASSUME DSettle PROVE RowsAgree'
  BY <1>10 DEF DSettle, FetchVerdict, Results
<1>11. ASSUME NEW w \in Deciders, NEW c \in Nodes, CreateChild(w, c) PROVE RowsAgree'
  BY <1>11 DEF CreateChild, Upsert, ChildOrg
<1>12. ASSUME NEW w \in Deciders, MarkDecided(w) PROVE RowsAgree'
  BY <1>12 DEF MarkDecided
<1>13. ASSUME NEW w \in Extractors, RecordAttempt(w) PROVE RowsAgree'
  BY <1>13 DEF RecordAttempt
<1>14. ASSUME NEW w \in Extractors, ExtractSaved(w) PROVE RowsAgree'
  BY <1>14 DEF ExtractSaved
<1>15. ASSUME NEW w \in Extractors, FinishAttempt(w) PROVE RowsAgree'
  BY <1>15 DEF FinishAttempt
<1> HIDE <1>0, EngineAssumption DEF Typed, RowsAgree, RowsHeld, HeldOnce, ExtractorShape,
       DriverShape, DeciderShape, SetupIdle, Held, Worker, Driver, NoWork, DriverLoop
<1> QED BY <1>2, <1>3, <1>4, <1>5, <1>6, <1>7, <1>8, <1>9, <1>10, <1>11, <1>12, <1>13, <1>14,
  <1>15 DEF Next, Setup, DriverStep, Wrapup, DeciderStep, ExtractorStep, Opening, SetupControl,
  SetupData, WrapupControl, ProcessEnding

\* The summary, a failure or a cancellation set the ending before it is
\* recorded.
LEMMA EndingShapeStep == ASSUME TypeOK, EndingShape, Next PROVE EndingShape'
<1>0. Typed
  BY DEF TypeOK, Typed
<1>1. ASSUME UNCHANGED <<ending, proc>> PROVE EndingShape'
  BY <1>1 DEF EndingShape
<1>2. CASE (\E w \in Deciders : DeciderStep(w)) \/ (\E w \in Extractors : ExtractorStep(w))
      \/ (\E o \in Orgs : ResetSubtree(o)) \/ (\E n \in Nodes : LoadSeed(n))
      \/ (\E n \in Nodes : DClaim(n)) \/ DLookup \/ (\E r \in FetchResults : DFetched(r))
      \/ DDispatch \/ DSettle
  BY <1>1, <1>2, Frames DEF ResetSubtree, LoadSeed, Upsert, DClaim, DLookup, DFetched, DDispatch,
         DSettle
<1> USE <1>0, EngineAssumption DEF Typed, EndingShape, Worker, Driver, NoWork, DriverLoop
<1>3. ASSUME OpenFresh PROVE EndingShape'
  BY <1>3 DEF OpenFresh, Wiped
<1>4. ASSUME NEW T \in SUBSET Orgs, NEW r \in BOOLEAN, OpenResume(T, r) PROVE EndingShape'
  BY <1>4 DEF OpenResume
<1>5. CASE SetupControl
  BY <1>5 DEF SetupControl, StartRun, ServerUp, ServerFails, ResetsDone, SeedsDone, BeginCrawl
<1>6. ASSUME ResetBad PROVE EndingShape'
  BY <1>6 DEF ResetBad, BadSnapshots, Present
<1>7. ASSUME DExit PROVE EndingShape'
  BY <1>7 DEF DExit
<1>8. CASE WrapupControl
  BY <1>8 DEF WrapupControl, BuildSummary, FinishRun, FinishUniversity, RecordRun
<1>9. CASE ProcessEnding
  BY <1>9 DEF ProcessEnding, Closed, ProcessEnds, ProcessIdle, Joined, RecordUniversity, Cancel,
         Crash
<1> HIDE <1>0, EngineAssumption DEF Typed, EndingShape, Worker, Driver, NoWork, DriverLoop
<1> QED BY <1>2, <1>3, <1>4, <1>5, <1>6, <1>7, <1>8, <1>9 DEF Next, Setup, DriverStep, Wrapup,
  DeciderStep, ExtractorStep, Opening, SetupControl, SetupData, WrapupControl, ProcessEnding

\* A node in progress changes hands in one step, or is marked.
LEMMA NoneStrandedStep == ASSUME TypeOK, NoneStranded, EndingShape, SetupIdle, DeciderShape,
    ExtractorShape, DriverShape, Next PROVE NoneStranded'
<1>0. Typed
  BY DEF TypeOK, Typed
\* A step in which nobody drops or passes on a node, and no node is claimed.
<1>1. ASSUME UNCHANGED <<proc, ending, dq, eq>>, driver'.node = driver.node,
             \A w \in Deciders : dw'[w].node = dw[w].node,
             \A w \in Extractors : ew'[w].node = ew[w].node,
             \A n \in Nodes : status'[n] = "in_progress" => status[n] = "in_progress"
      PROVE  NoneStranded'
  BY <1>1 DEF NoneStranded, InHands
<1>2. ASSUME NEW o \in Orgs, ResetSubtree(o) PROVE NoneStranded'
  BY <1>2, <1>1, <1>0, EngineAssumption DEF ResetSubtree, Deletable, Entrypoints, CacheByUrl,
         Present, Typed
<1>3. ASSUME NEW n \in Nodes, LoadSeed(n) PROVE NoneStranded'
  BY <1>3, <1>1, <1>0, EngineAssumption DEF LoadSeed, Upsert, Typed
<1>4. ASSUME ResetBad PROVE NoneStranded'
  <2>1. \A n \in Nodes : status'[n] = "in_progress" => status[n] = "in_progress"
    BY <1>4 DEF ResetBad
  <2> QED BY <1>4, <2>1 DEF ResetBad, NoneStranded, InHands
<1>5. ASSUME DLookup PROVE NoneStranded'
  BY <1>5, <1>1, <1>0, EngineAssumption DEF DLookup, Results, Typed, Driver
<1>6. ASSUME NEW r \in FetchResults, DFetched(r) PROVE NoneStranded'
  BY <1>6, <1>1, <1>0, EngineAssumption DEF DFetched, Results, Typed, Driver
<1>7. ASSUME DDispatch PROVE NoneStranded'
  <2>1. driver.node \in Nodes
    BY <1>7 DEF DDispatch, DriverShape
  <2>2. dq \cup eq \cup {driver.node} \subseteq dq' \cup eq'
    BY <1>7 DEF DDispatch
  <2>3. UNCHANGED <<proc, ending, status, dw, ew>>
    BY <1>7 DEF DDispatch
  <2> QED BY <2>2, <2>3 DEF NoneStranded, InHands
<1>8. ASSUME DSettle PROVE NoneStranded'
  <2>1. driver.node \in Nodes /\ driver.res \in Results
    BY <1>8, <1>0 DEF Typed, DSettle, DriverShape, Driver
  <2>2. FetchVerdict(driver.res) # "in_progress"
    BY <1>8, <2>1 DEF DSettle, FetchVerdict, Results
  <2>3. \A m \in Nodes : status'[m] = IF m = driver.node THEN FetchVerdict(driver.res) ELSE status[m]
    BY <1>8, <1>0 DEF Typed, DSettle
  <2>4. UNCHANGED <<proc, ending, dq, eq, dw, ew>>
    BY <1>8 DEF DSettle
  <2> QED BY <2>1, <2>2, <2>3, <2>4 DEF NoneStranded, InHands
<1>9. ASSUME NEW w \in Deciders, NEW n \in Nodes, Take(w, n) PROVE NoneStranded'
  <2>1. dw[w].node = NoNode
    BY <1>9 DEF Take, DeciderShape
  <2>2. dq' = dq \ {n} /\ dw'[w].node = n
    BY <1>9, <1>0 DEF Typed, Take, NoWork, Worker
  <2>3. UNCHANGED <<proc, ending, status, driver, eq, ew>>
    BY <1>9 DEF Take
  <2>4. \A v \in Deciders : v # w => dw'[v] = dw[v]
    BY <1>9, <1>0 DEF Typed, Take
  <2> QED BY <2>1, <2>2, <2>3, <2>4, NoNodeIsNoNode DEF NoneStranded, InHands
<1>10. ASSUME NEW w \in Deciders, BeginUnit(w) PROVE NoneStranded'
  BY <1>10, <1>1, <1>0, EngineAssumption DEF BeginUnit, Typed, DeciderShape, NoWork, Worker
<1>11. ASSUME NEW w \in Deciders, Decide(w) PROVE NoneStranded'
  BY <1>11, <1>1, <1>0, EngineAssumption DEF Decide, DecisionVerdicts, Typed, DeciderShape,
         NoWork, Worker
<1>12. ASSUME NEW w \in Deciders, Exclude(w) PROVE NoneStranded'
  BY <1>12, <1>1, <1>0, EngineAssumption DEF Exclude, Typed, DeciderShape, NoWork, Worker
<1>13. ASSUME NEW w \in Deciders, DecideRaises(w) PROVE NoneStranded'
  BY <1>13, <1>1, <1>0, EngineAssumption DEF DecideRaises, Typed, DeciderShape, NoWork, Worker
<1>14. ASSUME NEW w \in Deciders, NEW c \in Nodes, CreateChild(w, c) PROVE NoneStranded'
  BY <1>14, <1>1, <1>0, EngineAssumption DEF CreateChild, Upsert, ChildOrg, Typed, DeciderShape,
         NoWork, Worker
<1>15. ASSUME NEW w \in Deciders, CloseUnit(w) PROVE NoneStranded'
  BY <1>15, <1>1, <1>0, EngineAssumption DEF CloseUnit, Typed, DeciderShape, NoWork, Worker
<1>16. ASSUME NEW w \in Deciders, MarkDecided(w) PROVE NoneStranded'
  <2>1. dw[w].node \in Nodes /\ dw[w].verdict \in {"done", "retry", "skipped"}
    BY <1>16 DEF MarkDecided, DeciderShape
  <2>2. \A m \in Nodes : status'[m] = IF m = dw[w].node THEN dw[w].verdict ELSE status[m]
    BY <1>16, <2>1, <1>0 DEF Typed, MarkDecided
  <2>3. UNCHANGED <<proc, ending, driver, dq, eq, ew>>
    BY <1>16 DEF MarkDecided
  <2>4. \A v \in Deciders : v # w => dw'[v] = dw[v]
    BY <1>16, <1>0 DEF Typed, MarkDecided
  <2> QED BY <2>1, <2>2, <2>3, <2>4 DEF NoneStranded, InHands
<1>17. ASSUME NEW w \in Deciders, ExitDecider(w) PROVE NoneStranded'
  BY <1>17, <1>1, <1>0, EngineAssumption DEF ExitDecider, Typed, DeciderShape, NoWork, Worker
<1>18. ASSUME NEW w \in Extractors, NEW n \in Nodes, TakeDetail(w, n) PROVE NoneStranded'
  <2>1. ew[w].node = NoNode
    BY <1>18 DEF TakeDetail, ExtractorShape
  <2>2. eq' = eq \ {n} /\ ew'[w].node = n
    BY <1>18, <1>0 DEF Typed, TakeDetail, NoWork, Worker
  <2>3. UNCHANGED <<proc, ending, status, driver, dq, dw>>
    BY <1>18 DEF TakeDetail
  <2>4. \A v \in Extractors : v # w => ew'[v] = ew[v]
    BY <1>18, <1>0 DEF Typed, TakeDetail
  <2> QED BY <2>1, <2>2, <2>3, <2>4, NoNodeIsNoNode DEF NoneStranded, InHands
<1>19. ASSUME NEW w \in Extractors, CheckTwin(w) PROVE NoneStranded'
  BY <1>19, <1>1, <1>0, EngineAssumption DEF CheckTwin, Typed, ExtractorShape, NoWork, Worker
<1>20. ASSUME NEW w \in Extractors, RecordAttempt(w) PROVE NoneStranded'
  BY <1>20, <1>1, <1>0, EngineAssumption DEF RecordAttempt, Typed, ExtractorShape, NoWork, Worker
<1>21. ASSUME NEW w \in Extractors, ExtractSaved(w) PROVE NoneStranded'
  BY <1>21, <1>1, <1>0, EngineAssumption DEF ExtractSaved, Typed, ExtractorShape, NoWork, Worker
<1>22. ASSUME NEW w \in Extractors, NEW v \in {"skipped", "retry", "failed"}, ExtractFails(w, v)
      PROVE NoneStranded'
  BY <1>22, <1>1, <1>0, EngineAssumption DEF ExtractFails, Typed, ExtractorShape, NoWork, Worker
<1>23. ASSUME NEW w \in Extractors, FinishAttempt(w) PROVE NoneStranded'
  BY <1>23, <1>1, <1>0, EngineAssumption DEF FinishAttempt, Typed, ExtractorShape, NoWork, Worker
<1>24. ASSUME NEW w \in Extractors, MarkExtracted(w) PROVE NoneStranded'
  <2>1. ew[w].node \in Nodes /\ ew[w].verdict \in {"done", "retry", "skipped", "failed"}
    BY <1>24 DEF MarkExtracted, ExtractorShape
  <2>2. \A m \in Nodes : status'[m] = IF m = ew[w].node THEN ew[w].verdict ELSE status[m]
    BY <1>24, <2>1, <1>0 DEF Typed, MarkExtracted
  <2>3. UNCHANGED <<proc, ending, driver, dq, eq, dw>>
    BY <1>24 DEF MarkExtracted
  <2>4. \A v \in Extractors : v # w => ew'[v] = ew[v]
    BY <1>24, <1>0 DEF Typed, MarkExtracted
  <2> QED BY <2>1, <2>2, <2>3, <2>4 DEF NoneStranded, InHands
<1>25. ASSUME NEW w \in Extractors, ExitExtractor(w) PROVE NoneStranded'
  BY <1>25, <1>1, <1>0, EngineAssumption DEF ExitExtractor, Typed, ExtractorShape, NoWork, Worker
<1> USE <1>0, EngineAssumption DEF Typed, NoneStranded, EndingShape, DriverShape, InHands, Driver,
       DriverLoop
<1>26. ASSUME OpenFresh PROVE NoneStranded'
  BY <1>26 DEF OpenFresh, Wiped
<1>27. ASSUME NEW T \in SUBSET Orgs, NEW r \in BOOLEAN, OpenResume(T, r) PROVE NoneStranded'
  BY <1>27 DEF OpenResume
<1>28. CASE StartRun \/ ServerUp \/ ResetsDone \/ SeedsDone \/ BeginCrawl
  BY <1>28 DEF StartRun, ServerUp, ResetsDone, SeedsDone, BeginCrawl
<1>29. ASSUME ServerFails PROVE NoneStranded'
  BY <1>29 DEF ServerFails
<1>30. ASSUME NEW n \in Nodes, DClaim(n) PROVE NoneStranded'
  BY <1>30 DEF DClaim, Claimable, InScope
<1>31. ASSUME DExit PROVE NoneStranded'
  BY <1>31 DEF DExit
<1>32. ASSUME BuildSummary PROVE NoneStranded'
  BY <1>32 DEF BuildSummary
<1>33. CASE FinishRun \/ FinishUniversity
  BY <1>33 DEF FinishRun, FinishUniversity
<1>34. CASE ProcessEnding
  BY <1>34 DEF ProcessEnding, Closed, ProcessEnds, ProcessIdle, Joined, RecordUniversity, Cancel,
         Crash
<1>35. ASSUME RecordRun PROVE NoneStranded'
  BY <1>35 DEF RecordRun
<1> HIDE <1>0, EngineAssumption DEF Typed, NoneStranded, EndingShape, DriverShape, InHands,
       Driver, DriverLoop
<1> QED BY <1>2, <1>3, <1>4, <1>5, <1>6, <1>7, <1>8, <1>9, <1>10, <1>11, <1>12, <1>13, <1>14,
  <1>15, <1>16, <1>17, <1>18, <1>19, <1>20, <1>21, <1>22, <1>23, <1>24, <1>25, <1>26, <1>27,
  <1>28, <1>29, <1>30, <1>31, <1>32, <1>33, <1>34, <1>35 DEF Next, Setup, DriverStep, Wrapup,
  DeciderStep, ExtractorStep, Opening, SetupControl, SetupData, WrapupControl, ProcessEnding

\* Only a claim counts an attempt, and it takes the node out of pending for
\* the run.
LEMMA PendingFreshStep == ASSUME TypeOK, PendingFresh, SetupIdle, DeciderShape, ExtractorShape,
    DriverShape, HeldOnce, Next PROVE PendingFresh'
<1>0. Typed
  BY DEF TypeOK, Typed
<1>1. ASSUME UNCHANGED <<attempted, attempts, status>> PROVE PendingFresh'
  BY <1>1 DEF PendingFresh, Held
<1>2. CASE SetupControl \/ WrapupControl \/ DLookup \/ (\E r \in FetchResults : DFetched(r))
      \/ DDispatch \/ DExit \/ (\E w \in Deciders, n \in Nodes : Take(w, n))
      \/ (\E w \in Deciders : BeginUnit(w) \/ Decide(w) \/ Exclude(w) \/ DecideRaises(w)
      \/ CloseUnit(w) \/ ExitDecider(w)) \/ (\E w \in Extractors, n \in Nodes : TakeDetail(w, n))
      \/ (\E w \in Extractors : CheckTwin(w) \/ RecordAttempt(w) \/ ExtractSaved(w)
      \/ FinishAttempt(w) \/ ExitExtractor(w))
      \/ (\E w \in Extractors, v \in {"skipped", "retry", "failed"} : ExtractFails(w, v))
  BY <1>1, <1>2, Frames DEF DLookup, DFetched, DDispatch, DExit, Take, BeginUnit, Decide, Exclude,
         DecideRaises, CloseUnit, ExitDecider, TakeDetail, CheckTwin, RecordAttempt, ExtractSaved,
         ExtractFails, FinishAttempt, ExitExtractor
<1>3. ASSUME NEW w \in Deciders, MarkDecided(w) PROVE PendingFresh'
  <2>1. dw[w].node \in Nodes /\ dw[w].verdict \in {"done", "retry", "skipped"}
    BY <1>3 DEF MarkDecided, DeciderShape
  <2>2. \A m \in Nodes : status'[m] = IF m = dw[w].node THEN dw[w].verdict ELSE status[m]
    BY <1>3, <2>1, <1>0 DEF Typed, MarkDecided
  <2>3. attempted' = attempted /\ attempts' = attempts
    BY <1>3 DEF MarkDecided
  <2>4. attempted \subseteq Nodes
    BY DEF TypeOK
  <2> QED BY <2>1, <2>2, <2>3, <2>4 DEF PendingFresh
<1>4. ASSUME NEW w \in Extractors, MarkExtracted(w) PROVE PendingFresh'
  <2>1. ew[w].node \in Nodes /\ ew[w].verdict \in {"done", "retry", "skipped", "failed"}
    BY <1>4 DEF MarkExtracted, ExtractorShape
  <2>2. \A m \in Nodes : status'[m] = IF m = ew[w].node THEN ew[w].verdict ELSE status[m]
    BY <1>4, <2>1, <1>0 DEF Typed, MarkExtracted
  <2>3. attempted' = attempted /\ attempts' = attempts
    BY <1>4 DEF MarkExtracted
  <2>4. attempted \subseteq Nodes
    BY DEF TypeOK
  <2> QED BY <2>1, <2>2, <2>3, <2>4 DEF PendingFresh
<1> USE <1>0, EngineAssumption DEF Typed, PendingFresh, SetupIdle, DeciderShape, ExtractorShape,
       DriverShape, HeldOnce, Held, Worker, Driver, NoWork, DriverLoop
<1>5. ASSUME OpenFresh PROVE PendingFresh'
  BY <1>5 DEF OpenFresh, Wiped
<1>6. ASSUME NEW T \in SUBSET Orgs, NEW r \in BOOLEAN, OpenResume(T, r) PROVE PendingFresh'
  BY <1>6 DEF OpenResume
<1>7. ASSUME NEW o \in Orgs, ResetSubtree(o) PROVE PendingFresh'
  BY <1>7 DEF ResetSubtree, Deletable, Entrypoints, CacheByUrl, Present
<1>8. ASSUME NEW n \in Nodes, LoadSeed(n) PROVE PendingFresh'
  BY <1>8 DEF LoadSeed, Upsert
<1>9. ASSUME ResetBad PROVE PendingFresh'
  BY <1>9 DEF ResetBad, BadSnapshots, Present
<1>10. ASSUME NEW n \in Nodes, DClaim(n) PROVE PendingFresh'
  BY <1>10 DEF DClaim, Claimable, InScope
<1>11. ASSUME DSettle PROVE PendingFresh'
  BY <1>11 DEF DSettle, FetchVerdict, Results
<1>12. CASE ProcessEnding
  BY <1>12 DEF ProcessEnding, Closed, ProcessEnds, ProcessIdle, Joined, RecordUniversity, Cancel,
         Crash
<1>13. ASSUME NEW w \in Deciders, NEW c \in Nodes, CreateChild(w, c) PROVE PendingFresh'
  BY <1>13 DEF CreateChild, Upsert, ChildOrg
<1> HIDE <1>0, EngineAssumption DEF Typed, PendingFresh, SetupIdle, DeciderShape, ExtractorShape,
       DriverShape, HeldOnce, Held, Worker, Driver, NoWork, DriverLoop
<1> QED BY <1>2, <1>3, <1>4, <1>5, <1>6, <1>7, <1>8, <1>9, <1>10, <1>11, <1>12, <1>13 DEF Next,
  Setup, DriverStep, Wrapup, DeciderStep, ExtractorStep, Opening, SetupControl, SetupData,
  WrapupControl, ProcessEnding

\* Sentinels are consumed only while the run is closing.
LEMMA ExitsAtClosingStep == ASSUME TypeOK, ExitsAtClosing, SetupIdle, Next PROVE ExitsAtClosing'
<1>0. Typed
  BY DEF TypeOK, Typed
<1>1. ASSUME UNCHANGED <<dw, ew, proc>> PROVE ExitsAtClosing'
  BY <1>1 DEF ExitsAtClosing
<1>2. CASE (\E o \in Orgs : ResetSubtree(o)) \/ (\E n \in Nodes : LoadSeed(n))
      \/ (\E n \in Nodes : DClaim(n)) \/ DLookup \/ (\E r \in FetchResults : DFetched(r))
      \/ DDispatch \/ DSettle
  BY <1>1, <1>2 DEF ResetSubtree, LoadSeed, Upsert, DClaim, DLookup, DFetched, DDispatch, DSettle
<1> USE <1>0, EngineAssumption DEF Typed, ExitsAtClosing, SetupIdle, Live, Worker, Driver, NoWork,
       DriverLoop
<1>3. ASSUME OpenFresh PROVE ExitsAtClosing'
  BY <1>3 DEF OpenFresh, Wiped
<1>4. ASSUME NEW T \in SUBSET Orgs, NEW r \in BOOLEAN, OpenResume(T, r) PROVE ExitsAtClosing'
  BY <1>4 DEF OpenResume
<1>5. CASE SetupControl
  BY <1>5 DEF SetupControl, StartRun, ServerUp, ServerFails, ResetsDone, SeedsDone, BeginCrawl
<1>6. ASSUME ResetBad PROVE ExitsAtClosing'
  BY <1>6 DEF ResetBad, BadSnapshots, Present
<1>7. ASSUME DExit PROVE ExitsAtClosing'
  BY <1>7 DEF DExit
<1>8. CASE WrapupControl
  BY <1>8 DEF WrapupControl, BuildSummary, FinishRun, FinishUniversity, RecordRun
<1>9. CASE ProcessEnding
  BY <1>9 DEF ProcessEnding, Closed, ProcessEnds, ProcessIdle, Joined, RecordUniversity, Cancel,
         Crash
<1>10. ASSUME NEW w \in Deciders, NEW n \in Nodes, Take(w, n) PROVE ExitsAtClosing'
  BY <1>10 DEF Take
<1>11. ASSUME NEW w \in Deciders, BeginUnit(w) PROVE ExitsAtClosing'
  BY <1>11 DEF BeginUnit
<1>12. ASSUME NEW w \in Deciders, Decide(w) PROVE ExitsAtClosing'
  BY <1>12 DEF Decide, DecisionVerdicts
<1>13. ASSUME NEW w \in Deciders, Exclude(w) PROVE ExitsAtClosing'
  BY <1>13 DEF Exclude
<1>14. ASSUME NEW w \in Deciders, DecideRaises(w) PROVE ExitsAtClosing'
  BY <1>14 DEF DecideRaises
<1>15. ASSUME NEW w \in Deciders, NEW c \in Nodes, CreateChild(w, c) PROVE ExitsAtClosing'
  BY <1>15 DEF CreateChild, Upsert, ChildOrg
<1>16. ASSUME NEW w \in Deciders, CloseUnit(w) PROVE ExitsAtClosing'
  BY <1>16 DEF CloseUnit
<1>17. ASSUME NEW w \in Deciders, MarkDecided(w) PROVE ExitsAtClosing'
  BY <1>17 DEF MarkDecided
<1>18. ASSUME NEW w \in Deciders, ExitDecider(w) PROVE ExitsAtClosing'
  BY <1>18 DEF ExitDecider
<1>19. ASSUME NEW w \in Extractors, NEW n \in Nodes, TakeDetail(w, n) PROVE ExitsAtClosing'
  BY <1>19 DEF TakeDetail
<1>20. ASSUME NEW w \in Extractors, CheckTwin(w) PROVE ExitsAtClosing'
  BY <1>20 DEF CheckTwin
<1>21. ASSUME NEW w \in Extractors, RecordAttempt(w) PROVE ExitsAtClosing'
  BY <1>21 DEF RecordAttempt
<1>22. ASSUME NEW w \in Extractors, ExtractSaved(w) PROVE ExitsAtClosing'
  BY <1>22 DEF ExtractSaved
<1>23. ASSUME NEW w \in Extractors, NEW v \in {"skipped", "retry", "failed"}, ExtractFails(w, v)
      PROVE ExitsAtClosing'
  BY <1>23 DEF ExtractFails
<1>24. ASSUME NEW w \in Extractors, FinishAttempt(w) PROVE ExitsAtClosing'
  BY <1>24 DEF FinishAttempt
<1>25. ASSUME NEW w \in Extractors, MarkExtracted(w) PROVE ExitsAtClosing'
  BY <1>25 DEF MarkExtracted
<1>26. ASSUME NEW w \in Extractors, ExitExtractor(w) PROVE ExitsAtClosing'
  BY <1>26 DEF ExitExtractor
<1> HIDE <1>0, EngineAssumption DEF Typed, ExitsAtClosing, SetupIdle, Live, Worker, Driver,
       NoWork, DriverLoop
<1> QED BY <1>2, <1>3, <1>4, <1>5, <1>6, <1>7, <1>8, <1>9, <1>10, <1>11, <1>12, <1>13, <1>14,
  <1>15, <1>16, <1>17, <1>18, <1>19, <1>20, <1>21, <1>22, <1>23, <1>24, <1>25, <1>26 DEF Next,
  Setup, DriverStep, Wrapup, DeciderStep, ExtractorStep, Opening, SetupControl, SetupData,
  WrapupControl, ProcessEnding

\* A sentinel is taken from behind the last task, and only the driver loop, which is over by
\* then, adds tasks.
LEMMA SentinelsLastStep == ASSUME TypeOK, SentinelsLast, ExitsAtClosing, SetupIdle, Next
    PROVE SentinelsLast'
<1>0. Typed
  BY DEF TypeOK, Typed
\* A step that adds no task and in which no worker takes its sentinel.
<1>1. ASSUME dq' \subseteq dq, eq' \subseteq eq,
             \A w \in Deciders : dw'[w].pc = "exited" => dw[w].pc = "exited",
             \A w \in Extractors : ew'[w].pc = "exited" => ew[w].pc = "exited"
      PROVE  SentinelsLast'
  BY <1>1 DEF SentinelsLast
<1>2. CASE Opening \/ SetupControl \/ SetupData \/ WrapupControl \/ DLookup \/ DSettle \/ DExit
      \/ (\E n \in Nodes : DClaim(n)) \/ (\E r \in FetchResults : DFetched(r))
  <2>1. UNCHANGED <<dq, eq, dw, ew>>
    BY <1>2, Frames DEF DClaim, DLookup, DFetched, DSettle, DExit
  <2> QED BY <1>1, <2>1
<1>3. ASSUME DDispatch PROVE SentinelsLast'
  BY <1>3 DEF DDispatch, ExitsAtClosing, SentinelsLast
<1>4. CASE ProcessEnding
  <2>1. UNCHANGED <<dq, eq, dw, ew>> \/ ProcessIdle
    BY <1>4 DEF ProcessEnding, Closed, ProcessEnds, RecordUniversity, Cancel, Crash
  <2>2. CASE ProcessIdle
    BY <2>2 DEF ProcessIdle, SentinelsLast
  <2> QED BY <1>1, <2>1, <2>2
<1>5. ASSUME NEW w \in Deciders, DeciderStep(w), ~ ExitDecider(w) PROVE SentinelsLast'
  <2> DEFINE Kept == /\ UNCHANGED <<eq, ew>> /\ dq' \subseteq dq
                     /\ \A v \in Deciders : dw'[v].pc = "exited" => dw[v].pc = "exited"
  <2>1. ASSUME NEW n \in Nodes, Take(w, n) PROVE Kept
    BY <2>1, <1>0 DEF Take, Typed, Worker, NoWork
  <2>2. ASSUME BeginUnit(w) PROVE Kept
    BY <2>2, <1>0 DEF BeginUnit, Typed, Worker, NoWork
  <2>3. ASSUME Decide(w) PROVE Kept
    BY <2>3, <1>0 DEF Decide, Typed, Worker, NoWork
  <2>4. ASSUME Exclude(w) PROVE Kept
    BY <2>4, <1>0 DEF Exclude, Typed, Worker, NoWork
  <2>5. ASSUME DecideRaises(w) PROVE Kept
    BY <2>5, <1>0 DEF DecideRaises, Typed, Worker, NoWork
  <2>6. ASSUME NEW c \in Nodes, CreateChild(w, c) PROVE Kept
    BY <2>6, <1>0 DEF CreateChild, Typed, Worker, NoWork
  <2>7. ASSUME CloseUnit(w) PROVE Kept
    BY <2>7, <1>0 DEF CloseUnit, Typed, Worker, NoWork
  <2>8. ASSUME MarkDecided(w) PROVE Kept
    BY <2>8, <1>0 DEF MarkDecided, Typed, Worker, NoWork
  <2>9. Kept
    BY <1>5, <2>1, <2>2, <2>3, <2>4, <2>5, <2>6, <2>7, <2>8 DEF DeciderStep
  <2> QED BY <1>1, <2>9
<1>6. ASSUME NEW w \in Deciders, ExitDecider(w) PROVE SentinelsLast'
  BY <1>6 DEF ExitDecider, SentinelsLast
<1>7. ASSUME NEW w \in Extractors, ExtractorStep(w), ~ ExitExtractor(w) PROVE SentinelsLast'
  <2> DEFINE Kept == /\ UNCHANGED <<dq, dw>> /\ eq' \subseteq eq
                     /\ \A v \in Extractors : ew'[v].pc = "exited" => ew[v].pc = "exited"
  <2>1. ASSUME NEW n \in Nodes, TakeDetail(w, n) PROVE Kept
    BY <2>1, <1>0 DEF TakeDetail, Typed, Worker, NoWork
  <2>2. ASSUME CheckTwin(w) PROVE Kept
    BY <2>2, <1>0 DEF CheckTwin, Typed, Worker, NoWork
  <2>3. ASSUME RecordAttempt(w) PROVE Kept
    BY <2>3, <1>0 DEF RecordAttempt, Typed, Worker, NoWork
  <2>4. ASSUME ExtractSaved(w) PROVE Kept
    BY <2>4, <1>0 DEF ExtractSaved, Typed, Worker, NoWork
  <2>5. ASSUME NEW v \in {"skipped", "retry", "failed"}, ExtractFails(w, v) PROVE Kept
    BY <2>5, <1>0 DEF ExtractFails, Typed, Worker, NoWork
  <2>6. ASSUME FinishAttempt(w) PROVE Kept
    BY <2>6, <1>0 DEF FinishAttempt, Typed, Worker, NoWork
  <2>7. ASSUME MarkExtracted(w) PROVE Kept
    BY <2>7, <1>0 DEF MarkExtracted, Typed, Worker, NoWork
  <2>8. Kept
    BY <1>7, <2>1, <2>2, <2>3, <2>4, <2>5, <2>6, <2>7 DEF ExtractorStep
  <2> QED BY <1>1, <2>8
<1>8. ASSUME NEW w \in Extractors, ExitExtractor(w) PROVE SentinelsLast'
  BY <1>8 DEF ExitExtractor, SentinelsLast
<1> QED BY <1>2, <1>3, <1>4, <1>5, <1>6, <1>7, <1>8 DEF Next, Setup, DriverStep, Wrapup, Opening,
       SetupControl, SetupData, WrapupControl, ProcessEnding

\* No step of an extract worker kills it.
LEMMA ExtractorsLiveStep == ASSUME TypeOK, ExtractorsLive, Next PROVE ExtractorsLive'
<1>0. Typed
  BY DEF TypeOK, Typed
<1>1. ASSUME UNCHANGED <<ew>> PROVE ExtractorsLive'
  BY <1>1 DEF ExtractorsLive
<1>2. CASE Opening \/ SetupControl \/ SetupData \/ DriverStep \/ WrapupControl
      \/ (\E w \in Deciders : DeciderStep(w))
  BY <1>1, <1>2, Frames
<1> USE <1>0, EngineAssumption DEF Typed, ExtractorsLive, Worker, Driver, NoWork, DriverLoop
<1>3. CASE ProcessEnding
  BY <1>3 DEF ProcessEnding, Closed, ProcessEnds, ProcessIdle, Joined, RecordUniversity, Cancel,
         Crash
<1>4. ASSUME NEW w \in Extractors, NEW n \in Nodes, TakeDetail(w, n) PROVE ExtractorsLive'
  BY <1>4 DEF TakeDetail
<1>5. ASSUME NEW w \in Extractors, CheckTwin(w) PROVE ExtractorsLive'
  BY <1>5 DEF CheckTwin
<1>6. ASSUME NEW w \in Extractors, RecordAttempt(w) PROVE ExtractorsLive'
  BY <1>6 DEF RecordAttempt
<1>7. ASSUME NEW w \in Extractors, ExtractSaved(w) PROVE ExtractorsLive'
  BY <1>7 DEF ExtractSaved
<1>8. ASSUME NEW w \in Extractors, NEW v \in {"skipped", "retry", "failed"}, ExtractFails(w, v)
      PROVE ExtractorsLive'
  BY <1>8 DEF ExtractFails
<1>9. ASSUME NEW w \in Extractors, FinishAttempt(w) PROVE ExtractorsLive'
  BY <1>9 DEF FinishAttempt
<1>10. ASSUME NEW w \in Extractors, MarkExtracted(w) PROVE ExtractorsLive'
  BY <1>10 DEF MarkExtracted
<1>11. ASSUME NEW w \in Extractors, ExitExtractor(w) PROVE ExtractorsLive'
  BY <1>11 DEF ExitExtractor
<1> HIDE <1>0, EngineAssumption DEF Typed, ExtractorsLive, Worker, Driver, NoWork, DriverLoop
<1> QED BY <1>2, <1>3, <1>4, <1>5, <1>6, <1>7, <1>8, <1>9, <1>10, <1>11 DEF Next, Setup,
  DriverStep, Wrapup, DeciderStep, ExtractorStep, Opening, SetupControl, SetupData, WrapupControl,
  ProcessEnding

\* Only FinishRun records completed, and StartRun records the next run.
LEMMA CompletedIsOverStep == ASSUME TypeOK, CompletedIsOver, EndingShape, Next PROVE
    CompletedIsOver'
<1>0. Typed
  BY DEF TypeOK, Typed
<1>1. ASSUME UNCHANGED <<proc, runStatus>> PROVE CompletedIsOver'
  BY <1>1 DEF CompletedIsOver
<1>2. CASE (\E w \in Deciders : DeciderStep(w)) \/ (\E w \in Extractors : ExtractorStep(w))
      \/ (\E o \in Orgs : ResetSubtree(o)) \/ (\E n \in Nodes : LoadSeed(n))
      \/ (\E n \in Nodes : DClaim(n)) \/ DLookup \/ (\E r \in FetchResults : DFetched(r))
      \/ DDispatch \/ DSettle
  BY <1>1, <1>2, Frames DEF ResetSubtree, LoadSeed, Upsert, DClaim, DLookup, DFetched, DDispatch,
         DSettle
<1> USE <1>0, EngineAssumption DEF Typed, CompletedIsOver, EndingShape, Worker, Driver, NoWork,
       DriverLoop
<1>3. ASSUME OpenFresh PROVE CompletedIsOver'
  BY <1>3 DEF OpenFresh, Wiped
<1>4. ASSUME NEW T \in SUBSET Orgs, NEW r \in BOOLEAN, OpenResume(T, r) PROVE CompletedIsOver'
  BY <1>4 DEF OpenResume
<1>5. CASE SetupControl
  BY <1>5 DEF SetupControl, StartRun, ServerUp, ServerFails, ResetsDone, SeedsDone, BeginCrawl
<1>6. ASSUME ResetBad PROVE CompletedIsOver'
  BY <1>6 DEF ResetBad, BadSnapshots, Present
<1>7. ASSUME DExit PROVE CompletedIsOver'
  BY <1>7 DEF DExit
<1>8. CASE WrapupControl
  BY <1>8 DEF WrapupControl, BuildSummary, FinishRun, FinishUniversity, RecordRun
<1>9. CASE ProcessEnding
  BY <1>9 DEF ProcessEnding, Closed, ProcessEnds, ProcessIdle, Joined, RecordUniversity, Cancel,
         Crash
<1> HIDE <1>0, EngineAssumption DEF Typed, CompletedIsOver, EndingShape, Worker, Driver, NoWork,
       DriverLoop
<1> QED BY <1>2, <1>3, <1>4, <1>5, <1>6, <1>7, <1>8, <1>9 DEF Next, Setup, DriverStep, Wrapup,
  DeciderStep, ExtractorStep, Opening, SetupControl, SetupData, WrapupControl, ProcessEnding

\* The exit test of the driver loop finds nobody at work, and idle workers
\* with empty queues stay idle.
LEMMA QuietAfterwardsStep == ASSUME TypeOK, QuietAfterwards, EndingShape, ExitsAtClosing,
    ExtractorsLive, CompletedIsOver, SetupIdle, DriverShape, Next PROVE QuietAfterwards'
<1>0. Typed
  BY DEF TypeOK, Typed
<1>1. ASSUME UNCHANGED <<dq, driver, dw, eq, ew, proc, runStatus>> PROVE QuietAfterwards'
  BY <1>1 DEF QuietAfterwards
<1>2. CASE (\E o \in Orgs : ResetSubtree(o)) \/ (\E n \in Nodes : LoadSeed(n))
  BY <1>1, <1>2 DEF ResetSubtree, LoadSeed, Upsert
<1>3. ASSUME DExit PROVE QuietAfterwards'
  <2>1. /\ \A w \in Deciders : dw[w].pc \in {"idle", "dead", "exited"}
        /\ \A w \in Extractors : ew[w].pc \in {"idle", "dead", "exited"}
    BY <1>3, <1>0 DEF Typed, DExit, InFlight
  <2>2. dq = {} /\ eq = {} /\ driver = DriverLoop
    BY <1>3 DEF DExit, DriverShape
  <2> QED BY <1>3, <2>1, <2>2 DEF DExit, QuietAfterwards, ExitsAtClosing, ExtractorsLive
<1> USE <1>0, EngineAssumption DEF Typed, QuietAfterwards, EndingShape, ExitsAtClosing,
       ExtractorsLive, CompletedIsOver, SetupIdle, DriverShape, InFlight, Worker, Driver, NoWork,
       DriverLoop
<1>4. ASSUME OpenFresh PROVE QuietAfterwards'
  BY <1>4 DEF OpenFresh, Wiped
<1>5. ASSUME NEW T \in SUBSET Orgs, NEW r \in BOOLEAN, OpenResume(T, r) PROVE QuietAfterwards'
  BY <1>5 DEF OpenResume
<1>6. CASE SetupControl
  BY <1>6 DEF SetupControl, StartRun, ServerUp, ServerFails, ResetsDone, SeedsDone, BeginCrawl
<1>7. ASSUME ResetBad PROVE QuietAfterwards'
  BY <1>7 DEF ResetBad, BadSnapshots, Present
<1>8. ASSUME NEW n \in Nodes, DClaim(n) PROVE QuietAfterwards'
  BY <1>8 DEF DClaim, Claimable, InScope
<1>9. ASSUME DLookup PROVE QuietAfterwards'
  BY <1>9 DEF DLookup, Results
<1>10. ASSUME NEW r \in FetchResults, DFetched(r) PROVE QuietAfterwards'
  BY <1>10 DEF DFetched, Results
<1>11. ASSUME DDispatch PROVE QuietAfterwards'
  BY <1>11 DEF DDispatch
<1>12. ASSUME DSettle PROVE QuietAfterwards'
  BY <1>12 DEF DSettle, FetchVerdict, Results
<1>13. CASE BuildSummary \/ FinishRun \/ FinishUniversity
  BY <1>13 DEF BuildSummary, FinishRun, FinishUniversity
<1>14. CASE ProcessEnding
  BY <1>14 DEF ProcessEnding, Closed, ProcessEnds, ProcessIdle, Joined, RecordUniversity, Cancel,
         Crash
<1>15. ASSUME RecordRun PROVE QuietAfterwards'
  BY <1>15 DEF RecordRun
<1>16. ASSUME NEW w \in Deciders, NEW n \in Nodes, Take(w, n) PROVE QuietAfterwards'
  BY <1>16 DEF Take
<1>17. ASSUME NEW w \in Deciders, BeginUnit(w) PROVE QuietAfterwards'
  BY <1>17 DEF BeginUnit
<1>18. ASSUME NEW w \in Deciders, Decide(w) PROVE QuietAfterwards'
  BY <1>18 DEF Decide, DecisionVerdicts
<1>19. ASSUME NEW w \in Deciders, Exclude(w) PROVE QuietAfterwards'
  BY <1>19 DEF Exclude
<1>20. ASSUME NEW w \in Deciders, DecideRaises(w) PROVE QuietAfterwards'
  BY <1>20 DEF DecideRaises
<1>21. ASSUME NEW w \in Deciders, NEW c \in Nodes, CreateChild(w, c) PROVE QuietAfterwards'
  BY <1>21 DEF CreateChild, Upsert, ChildOrg
<1>22. ASSUME NEW w \in Deciders, CloseUnit(w) PROVE QuietAfterwards'
  BY <1>22 DEF CloseUnit
<1>23. ASSUME NEW w \in Deciders, MarkDecided(w) PROVE QuietAfterwards'
  BY <1>23 DEF MarkDecided
<1>24. ASSUME NEW w \in Deciders, ExitDecider(w) PROVE QuietAfterwards'
  BY <1>24 DEF ExitDecider
<1>25. ASSUME NEW w \in Extractors, NEW n \in Nodes, TakeDetail(w, n) PROVE QuietAfterwards'
  BY <1>25 DEF TakeDetail
<1>26. ASSUME NEW w \in Extractors, CheckTwin(w) PROVE QuietAfterwards'
  BY <1>26 DEF CheckTwin
<1>27. ASSUME NEW w \in Extractors, RecordAttempt(w) PROVE QuietAfterwards'
  BY <1>27 DEF RecordAttempt
<1>28. ASSUME NEW w \in Extractors, ExtractSaved(w) PROVE QuietAfterwards'
  BY <1>28 DEF ExtractSaved
<1>29. ASSUME NEW w \in Extractors, NEW v \in {"skipped", "retry", "failed"}, ExtractFails(w, v)
      PROVE QuietAfterwards'
  BY <1>29 DEF ExtractFails
<1>30. ASSUME NEW w \in Extractors, FinishAttempt(w) PROVE QuietAfterwards'
  BY <1>30 DEF FinishAttempt
<1>31. ASSUME NEW w \in Extractors, MarkExtracted(w) PROVE QuietAfterwards'
  BY <1>31 DEF MarkExtracted
<1>32. ASSUME NEW w \in Extractors, ExitExtractor(w) PROVE QuietAfterwards'
  BY <1>32 DEF ExitExtractor
<1> HIDE <1>0, EngineAssumption DEF Typed, QuietAfterwards, EndingShape, ExitsAtClosing,
       ExtractorsLive, CompletedIsOver, SetupIdle, DriverShape, InFlight, Worker, Driver, NoWork,
       DriverLoop
<1> QED BY <1>2, <1>3, <1>4, <1>5, <1>6, <1>7, <1>8, <1>9, <1>10, <1>11, <1>12, <1>13, <1>14,
  <1>15, <1>16, <1>17, <1>18, <1>19, <1>20, <1>21, <1>22, <1>23, <1>24, <1>25, <1>26, <1>27,
  <1>28, <1>29, <1>30, <1>31, <1>32 DEF Next, Setup, DriverStep, Wrapup, DeciderStep,
  ExtractorStep, Opening, SetupControl, SetupData, WrapupControl, ProcessEnding

\* A pending node in scope is claimable (PendingFresh), so the driver loop
\* does not return before it.
LEMMA NonePendingStep == ASSUME TypeOK, NonePending, PendingFresh, QuietAfterwards, SetupIdle,
    Next PROVE NonePending'
<1>0. Typed
  BY DEF TypeOK, Typed
<1>1. ASSUME UNCHANGED <<owner, proc, status, target>> PROVE NonePending'
  BY <1>1 DEF NonePending, InScope
<1>2. CASE DLookup \/ (\E r \in FetchResults : DFetched(r)) \/ DDispatch
      \/ (\E w \in Deciders, n \in Nodes : Take(w, n)) \/ (\E w \in Deciders : BeginUnit(w)
      \/ Decide(w) \/ Exclude(w) \/ DecideRaises(w) \/ CloseUnit(w) \/ ExitDecider(w))
      \/ (\E w \in Extractors, n \in Nodes : TakeDetail(w, n))
      \/ (\E w \in Extractors : CheckTwin(w) \/ RecordAttempt(w) \/ ExtractSaved(w)
      \/ FinishAttempt(w) \/ ExitExtractor(w))
      \/ (\E w \in Extractors, v \in {"skipped", "retry", "failed"} : ExtractFails(w, v))
  BY <1>1, <1>2 DEF DLookup, DFetched, DDispatch, Take, BeginUnit, Decide, Exclude, DecideRaises,
         CloseUnit, ExitDecider, TakeDetail, CheckTwin, RecordAttempt, ExtractSaved, ExtractFails,
         FinishAttempt, ExitExtractor
<1> USE <1>0, EngineAssumption DEF Typed, NonePending, PendingFresh, QuietAfterwards, SetupIdle,
       InScope, Claimable, Worker, Driver, NoWork, DriverLoop
<1>3. ASSUME OpenFresh PROVE NonePending'
  BY <1>3 DEF OpenFresh, Wiped
<1>4. ASSUME NEW T \in SUBSET Orgs, NEW r \in BOOLEAN, OpenResume(T, r) PROVE NonePending'
  BY <1>4 DEF OpenResume
<1>5. CASE SetupControl
  BY <1>5 DEF SetupControl, StartRun, ServerUp, ServerFails, ResetsDone, SeedsDone, BeginCrawl
<1>6. ASSUME NEW o \in Orgs, ResetSubtree(o) PROVE NonePending'
  BY <1>6 DEF ResetSubtree, Deletable, Entrypoints, CacheByUrl, Present
<1>7. ASSUME NEW n \in Nodes, LoadSeed(n) PROVE NonePending'
  BY <1>7 DEF LoadSeed, Upsert
<1>8. ASSUME ResetBad PROVE NonePending'
  BY <1>8 DEF ResetBad, BadSnapshots, Present
<1>9. ASSUME NEW n \in Nodes, DClaim(n) PROVE NonePending'
  BY <1>9 DEF DClaim, Claimable, InScope
<1>10. ASSUME DSettle PROVE NonePending'
  BY <1>10 DEF DSettle, FetchVerdict, Results
<1>11. ASSUME DExit PROVE NonePending'
  BY <1>11 DEF DExit
<1>12. CASE WrapupControl
  BY <1>12 DEF WrapupControl, BuildSummary, FinishRun, FinishUniversity, RecordRun
<1>13. CASE ProcessEnding
  BY <1>13 DEF ProcessEnding, Closed, ProcessEnds, ProcessIdle, Joined, RecordUniversity, Cancel,
         Crash
<1>14. ASSUME NEW w \in Deciders, NEW c \in Nodes, CreateChild(w, c) PROVE NonePending'
  BY <1>14 DEF CreateChild, Upsert, ChildOrg
<1>15. ASSUME NEW w \in Deciders, MarkDecided(w) PROVE NonePending'
  BY <1>15 DEF MarkDecided
<1>16. ASSUME NEW w \in Extractors, MarkExtracted(w) PROVE NonePending'
  BY <1>16 DEF MarkExtracted
<1> HIDE <1>0, EngineAssumption DEF Typed, NonePending, PendingFresh, QuietAfterwards, SetupIdle,
       InScope, Claimable, Worker, Driver, NoWork, DriverLoop
<1> QED BY <1>2, <1>3, <1>4, <1>5, <1>6, <1>7, <1>8, <1>9, <1>10, <1>11, <1>12, <1>13, <1>14,
  <1>15, <1>16 DEF Next, Setup, DriverStep, Wrapup, DeciderStep, ExtractorStep, Opening,
  SetupControl, SetupData, WrapupControl, ProcessEnding

\* StartRun records the target, which only the end of the process changes.
LEMMA ScopeShapeStep == ASSUME TypeOK, ScopeShape, Next PROVE ScopeShape'
<1>0. Typed
  BY DEF TypeOK, Typed
<1>1. ASSUME UNCHANGED <<proc, scope, target>> PROVE ScopeShape'
  BY <1>1 DEF ScopeShape
<1>2. CASE (\E w \in Deciders : DeciderStep(w)) \/ (\E w \in Extractors : ExtractorStep(w))
      \/ (\E o \in Orgs : ResetSubtree(o)) \/ (\E n \in Nodes : LoadSeed(n))
      \/ (\E n \in Nodes : DClaim(n)) \/ DLookup \/ (\E r \in FetchResults : DFetched(r))
      \/ DDispatch \/ DSettle
  BY <1>1, <1>2, Frames DEF ResetSubtree, LoadSeed, Upsert, DClaim, DLookup, DFetched, DDispatch,
         DSettle
<1> USE <1>0, EngineAssumption DEF Typed, ScopeShape, Worker, Driver, NoWork, DriverLoop
<1>3. ASSUME OpenFresh PROVE ScopeShape'
  BY <1>3 DEF OpenFresh, Wiped
<1>4. ASSUME NEW T \in SUBSET Orgs, NEW r \in BOOLEAN, OpenResume(T, r) PROVE ScopeShape'
  BY <1>4 DEF OpenResume
<1>5. CASE SetupControl
  BY <1>5 DEF SetupControl, StartRun, ServerUp, ServerFails, ResetsDone, SeedsDone, BeginCrawl
<1>6. ASSUME ResetBad PROVE ScopeShape'
  BY <1>6 DEF ResetBad, BadSnapshots, Present
<1>7. ASSUME DExit PROVE ScopeShape'
  BY <1>7 DEF DExit
<1>8. CASE WrapupControl
  BY <1>8 DEF WrapupControl, BuildSummary, FinishRun, FinishUniversity, RecordRun
<1>9. CASE ProcessEnding
  BY <1>9 DEF ProcessEnding, Closed, ProcessEnds, ProcessIdle, Joined, RecordUniversity, Cancel,
         Crash
<1> HIDE <1>0, EngineAssumption DEF Typed, ScopeShape, Worker, Driver, NoWork, DriverLoop
<1> QED BY <1>2, <1>3, <1>4, <1>5, <1>6, <1>7, <1>8, <1>9 DEF Next, Setup, DriverStep, Wrapup,
  DeciderStep, ExtractorStep, Opening, SetupControl, SetupData, WrapupControl, ProcessEnding

\* The summary is completed only when nothing in scope blocks it; afterwards
\* nobody works, and a resume changes only nodes left in progress.
LEMMA NoneLeftStep == ASSUME TypeOK, NoneLeft, ScopeShape, EndingShape, QuietAfterwards,
    CompletedIsOver, SetupIdle, Next PROVE NoneLeft'
<1>0. Typed
  BY DEF TypeOK, Typed
<1>1. ASSUME UNCHANGED <<ending, owner, proc, runStatus, scope, status>> PROVE NoneLeft'
  BY <1>1 DEF NoneLeft, InScope, Covered
<1>2. CASE DLookup \/ (\E r \in FetchResults : DFetched(r)) \/ DDispatch
      \/ (\E w \in Deciders, n \in Nodes : Take(w, n)) \/ (\E w \in Deciders : BeginUnit(w)
      \/ Decide(w) \/ Exclude(w) \/ DecideRaises(w) \/ CloseUnit(w) \/ ExitDecider(w))
      \/ (\E w \in Extractors, n \in Nodes : TakeDetail(w, n))
      \/ (\E w \in Extractors : CheckTwin(w) \/ RecordAttempt(w) \/ ExtractSaved(w)
      \/ FinishAttempt(w) \/ ExitExtractor(w))
      \/ (\E w \in Extractors, v \in {"skipped", "retry", "failed"} : ExtractFails(w, v))
  BY <1>1, <1>2 DEF DLookup, DFetched, DDispatch, Take, BeginUnit, Decide, Exclude, DecideRaises,
         CloseUnit, ExitDecider, TakeDetail, CheckTwin, RecordAttempt, ExtractSaved, ExtractFails,
         FinishAttempt, ExitExtractor
<1>3. ASSUME BuildSummary PROVE NoneLeft'
  <2>1. ending' = "completed" => Blocking = {}
    BY <1>3 DEF BuildSummary
  <2>2. \A n \in Nodes : Covered(n) => InScope(n)
    BY <1>3 DEF BuildSummary, ScopeShape, Covered, InScope
  <2>3. Blocking = {} => \A n \in Nodes : InScope(n) => status[n] \in {"absent", "done", "skipped"}
    BY <1>0 DEF Typed, Blocking, NodeStatus
  <2>4. \A n \in Nodes : Covered(n)' <=> Covered(n)
    BY <1>3 DEF BuildSummary, Covered
  <2>5. status' = status /\ runStatus' = runStatus
    BY <1>3 DEF BuildSummary
  <2> QED BY <1>3, <2>1, <2>2, <2>3, <2>4, <2>5 DEF NoneLeft
<1> USE <1>0, EngineAssumption DEF Typed, NoneLeft, ScopeShape, EndingShape, QuietAfterwards,
       CompletedIsOver, SetupIdle, InScope, Covered, Blocking, Worker, Driver, NoWork, DriverLoop
<1>4. ASSUME OpenFresh PROVE NoneLeft'
  BY <1>4 DEF OpenFresh, Wiped
<1>5. ASSUME NEW T \in SUBSET Orgs, NEW r \in BOOLEAN, OpenResume(T, r) PROVE NoneLeft'
  BY <1>5 DEF OpenResume
<1>6. CASE SetupControl
  BY <1>6 DEF SetupControl, StartRun, ServerUp, ServerFails, ResetsDone, SeedsDone, BeginCrawl
<1>7. ASSUME NEW o \in Orgs, ResetSubtree(o) PROVE NoneLeft'
  BY <1>7 DEF ResetSubtree, Deletable, Entrypoints, CacheByUrl, Present
<1>8. ASSUME NEW n \in Nodes, LoadSeed(n) PROVE NoneLeft'
  BY <1>8 DEF LoadSeed, Upsert
<1>9. ASSUME ResetBad PROVE NoneLeft'
  BY <1>9 DEF ResetBad, BadSnapshots, Present
<1>10. ASSUME NEW n \in Nodes, DClaim(n) PROVE NoneLeft'
  BY <1>10 DEF DClaim, Claimable, InScope
<1>11. ASSUME DSettle PROVE NoneLeft'
  BY <1>11 DEF DSettle, FetchVerdict, Results
<1>12. ASSUME DExit PROVE NoneLeft'
  BY <1>12 DEF DExit
<1>13. CASE FinishRun \/ FinishUniversity \/ RecordRun
  BY <1>13 DEF FinishRun, FinishUniversity, RecordRun
<1>14. CASE ProcessEnding
  BY <1>14 DEF ProcessEnding, Closed, ProcessEnds, ProcessIdle, Joined, RecordUniversity, Cancel,
         Crash
<1>15. ASSUME NEW w \in Deciders, NEW c \in Nodes, CreateChild(w, c) PROVE NoneLeft'
  BY <1>15 DEF CreateChild, Upsert, ChildOrg
<1>16. ASSUME NEW w \in Deciders, MarkDecided(w) PROVE NoneLeft'
  BY <1>16 DEF MarkDecided
<1>17. ASSUME NEW w \in Extractors, MarkExtracted(w) PROVE NoneLeft'
  BY <1>17 DEF MarkExtracted
<1> HIDE <1>0, EngineAssumption DEF Typed, NoneLeft, ScopeShape, EndingShape, QuietAfterwards,
       CompletedIsOver, SetupIdle, InScope, Covered, Blocking, Worker, Driver, NoWork, DriverLoop
<1> QED BY <1>2, <1>3, <1>4, <1>5, <1>6, <1>7, <1>8, <1>9, <1>10, <1>11, <1>12, <1>13, <1>14,
  <1>15, <1>16, <1>17 DEF Next, Setup, DriverStep, Wrapup, DeciderStep, ExtractorStep, Opening,
  SetupControl, SetupData, WrapupControl, ProcessEnding

-----------------------------------------------------------------------------

\* The initial state satisfies the invariant.
LEMMA InitInv == Init => EngineInv
<1> SUFFICES ASSUME Init PROVE EngineInv
  OBVIOUS
<1>1. TypeOK
  <2>1. /\ status \in [Nodes -> NodeStatus] /\ attempts \in [Nodes -> 0..MaxAttempts]
        /\ owner \in [Nodes -> Orgs \cup {NoOrg}] /\ cache \in [Nodes -> Results \cup {"none"}]
    BY EngineAssumption DEF Init, NodeStatus
  <2>2. /\ profs \subseteq Nodes /\ row \in [Nodes -> RowStatus]
        /\ orgStatus \in [Orgs -> OrgStatus] /\ decided \in [Nodes -> SUBSET Nodes]
    BY DEF Init, RowStatus, OrgStatus
  <2>3. dw \in [Deciders -> Worker] /\ ew \in [Extractors -> Worker] /\ driver \in Driver
    BY NoWorkType, DriverLoopType DEF Init
  <2>4. starts \in 0..MaxStarts
    BY EngineAssumption DEF Init
  <2> QED BY <2>1, <2>2, <2>3, <2>4 DEF Init, TypeOK, RunStatus, UnivStatus, Proc, Ending
<1>2. DriverShape /\ QueueShape /\ DeciderShape /\ ExtractorShape /\ SetupIdle
  BY DEF Init, DriverShape, QueueShape, DeciderShape, ExtractorShape, SetupIdle, NoWork, DriverLoop
<1>3. HeldOnce
  BY DEF Init, HeldOnce, Held, NoWork, DriverLoop
<1>4. SavedFirst /\ DoneDetailSaved /\ ChildrenKept /\ NoLostChild
  BY DEF Init, SavedFirst, DoneDetailSaved, ChildrenKept, NoLostChild, NoWork
<1>5. RowsHeld /\ RowsAgree
  BY DEF Init, RowsHeld, RowsAgree, NoWork
<1>6. EndingShape /\ NoneStranded /\ PendingFresh /\ ExitsAtClosing /\ SentinelsLast /\
      ExtractorsLive
  BY DEF Init, EndingShape, NoneStranded, PendingFresh, ExitsAtClosing, SentinelsLast,
         ExtractorsLive, NoWork
<1>7. QuietAfterwards /\ CompletedIsOver /\ NonePending /\ ScopeShape /\ NoneLeft
  BY DEF Init, QuietAfterwards, CompletedIsOver, NonePending, ScopeShape, NoneLeft
<1> QED BY <1>1, <1>2, <1>3, <1>4, <1>5, <1>6, <1>7 DEF EngineInv

\* A stuttering step keeps the invariant.
LEMMA StutterInv == EngineInv /\ UNCHANGED vars => EngineInv'
<1> SUFFICES ASSUME EngineInv, UNCHANGED vars PROVE EngineInv'
  OBVIOUS
<1>1. UNCHANGED <<status, attempts, owner, cache, profs, row, orgStatus, decided, runStatus,
                  univStatus, scope, proc, target, reset, todo, ending, starts, attempted, driver,
                  dq, eq, dw, ew>>
  BY DEF vars
<1>2. (TypeOK)'
  BY <1>1 DEF EngineInv, TypeOK
<1>3. (DriverShape /\ QueueShape /\ DeciderShape /\ ExtractorShape /\ SetupIdle)'
  BY <1>1 DEF EngineInv, DriverShape, QueueShape, DeciderShape, ExtractorShape, SetupIdle
<1>4. (HeldOnce)'
  BY <1>1 DEF EngineInv, HeldOnce, Held
<1>5. (SavedFirst /\ DoneDetailSaved /\ ChildrenKept /\ NoLostChild)'
  BY <1>1 DEF EngineInv, SavedFirst, DoneDetailSaved, ChildrenKept, NoLostChild, Saved, Present
<1>6. (RowsHeld /\ RowsAgree)'
  BY <1>1 DEF EngineInv, RowsHeld, RowsAgree
<1>7. (EndingShape /\ NoneStranded /\ PendingFresh /\ ExitsAtClosing /\ SentinelsLast /\
       ExtractorsLive)'
  BY <1>1 DEF EngineInv, EndingShape, NoneStranded, PendingFresh, ExitsAtClosing, SentinelsLast,
         ExtractorsLive, InHands
<1>8. (QuietAfterwards /\ CompletedIsOver /\ NonePending /\ ScopeShape /\ NoneLeft)'
  BY <1>1 DEF EngineInv, QuietAfterwards, CompletedIsOver, NonePending, ScopeShape, NoneLeft,
         InScope, Covered
<1> QED BY <1>2, <1>3, <1>4, <1>5, <1>6, <1>7, <1>8 DEF EngineInv

\* EngineInv is inductive: each part is kept by every step of the engine.
THEOREM Invariance == Spec => []EngineInv
<1>1. ASSUME EngineInv, Next PROVE EngineInv'
  <2>0. TypeOK /\ DriverShape /\ QueueShape /\ DeciderShape /\ ExtractorShape /\ SetupIdle /\ HeldOnce /\
        SavedFirst /\ DoneDetailSaved /\ ChildrenKept /\ NoLostChild /\ RowsHeld /\ RowsAgree /\
        EndingShape /\ NoneStranded /\ PendingFresh /\ ExitsAtClosing /\ SentinelsLast /\
        ExtractorsLive /\ QuietAfterwards /\ CompletedIsOver /\ NonePending /\ ScopeShape /\ NoneLeft
    BY <1>1 DEF EngineInv
  <2>1. TypeOK'
    BY <1>1, <2>0, TypeStep
  <2>2. DriverShape'
    BY <1>1, <2>0, DriverShapeStep
  <2>3. QueueShape'
    BY <1>1, <2>0, QueueShapeStep
  <2>4. DeciderShape'
    BY <1>1, <2>0, DeciderShapeStep
  <2>5. ExtractorShape'
    BY <1>1, <2>0, ExtractorShapeStep
  <2>6. SetupIdle'
    BY <1>1, <2>0, SetupIdleStep
  <2>7. HeldOnce'
    BY <1>1, <2>0, HeldOnceStep
  <2>8. SavedFirst'
    BY <1>1, <2>0, SavedFirstStep
  <2>9. DoneDetailSaved'
    BY <1>1, <2>0, DoneDetailSavedStep
  <2>10. ChildrenKept'
    BY <1>1, <2>0, ChildrenKeptStep
  <2>11. NoLostChild'
    BY <1>1, <2>0, NoLostChildStep
  <2>12. RowsHeld'
    BY <1>1, <2>0, RowsHeldStep
  <2>13. RowsAgree'
    BY <1>1, <2>0, RowsAgreeStep
  <2>14. EndingShape'
    BY <1>1, <2>0, EndingShapeStep
  <2>15. NoneStranded'
    BY <1>1, <2>0, NoneStrandedStep
  <2>16. PendingFresh'
    BY <1>1, <2>0, PendingFreshStep
  <2>17. ExitsAtClosing'
    BY <1>1, <2>0, ExitsAtClosingStep
  <2>18. ExtractorsLive'
    BY <1>1, <2>0, ExtractorsLiveStep
  <2>19. CompletedIsOver'
    BY <1>1, <2>0, CompletedIsOverStep
  <2>20. QuietAfterwards'
    BY <1>1, <2>0, QuietAfterwardsStep
  <2>21. NonePending'
    BY <1>1, <2>0, NonePendingStep
  <2>22. ScopeShape'
    BY <1>1, <2>0, ScopeShapeStep
  <2>23. NoneLeft'
    BY <1>1, <2>0, NoneLeftStep
  <2>24. SentinelsLast'
    BY <1>1, <2>0, SentinelsLastStep
  <2> QED BY <2>1, <2>2, <2>3, <2>4, <2>5, <2>6, <2>7, <2>8, <2>9, <2>10, <2>11, <2>12, <2>13,
         <2>14, <2>15, <2>16, <2>17, <2>18, <2>19, <2>20, <2>21, <2>22, <2>23, <2>24 DEF EngineInv
<1> QED BY InitInv, StutterInv, <1>1, PTL DEF Spec

\* The database columns, the process and its workers keep their types; in
\* particular no node is claimed more than MaxAttempts times.
THEOREM TypeCorrect == Spec => []TypeOK
<1>1. EngineInv => TypeOK
  BY DEF EngineInv
<1> QED BY Invariance, <1>1, PTL

\* No page is ever decided or extracted by two workers, or queued twice, and
\* every page in somebody's hands is in_progress in the database.
THEOREM HeldOnceAlways == Spec => []HeldOnce
<1>1. EngineInv => HeldOnce
  BY DEF EngineInv
<1> QED BY Invariance, <1>1, PTL

\* A crash at any moment, followed by any resumes, loses no child that a finished
\* decision asked for.
THEOREM NoLostChildAlways == Spec => []NoLostChild
<1>1. EngineInv => NoLostChild
  BY DEF EngineInv
<1> QED BY Invariance, <1>1, PTL

\* A detail page is never done without its professors stored.
THEOREM DoneDetailSavedAlways == Spec => []DoneDetailSaved
<1>1. EngineInv => DoneDetailSaved
  BY DEF EngineInv
<1> QED BY Invariance, <1>1, PTL

\* The extraction log never contradicts the graph or the professors table.
THEOREM RowsAgreeAlways == Spec => []RowsAgree
<1>1. EngineInv => RowsAgree
  BY DEF EngineInv
<1> QED BY Invariance, <1>1, PTL

\* A run that was not cancelled will still settle every in_progress node, but for those that
\* a raised decision has left with its dead worker, or in a queue that no worker reads.
THEOREM NothingStrandedAlways == Spec => []NothingStranded
<1>1. EngineInv => NothingStranded
  <2> SUFFICES ASSUME EngineInv, proc # "off", ending # "cancelled",
                      NEW n \in Nodes, status[n] = "in_progress"
               PROVE  n \in Attended \cup LeftByRaise
    BY DEF NothingStranded
  <2>1. InHands(n)
    BY DEF EngineInv, NoneStranded
  <2>2. CASE n = driver.node
    BY <2>2 DEF Attended
  <2>3. CASE n \in dq
    <3>1. \A w \in Deciders : dw[w].pc # "exited"
      BY <2>3 DEF EngineInv, SentinelsLast
    <3>2. CASE \A w \in Deciders : dw[w].pc = "dead"
      BY <2>3, <3>2 DEF LeftByRaise
    <3>3. CASE \E w \in Deciders : dw[w].pc # "dead"
      BY <2>3, <3>1, <3>3 DEF Attended
    <3> QED BY <3>2, <3>3
  <2>4. CASE n \in eq
    <3>1. PICK w \in Extractors : ew[w].pc \notin {"dead", "exited"}
      BY <2>4, WorkersAssumption DEF EngineInv, SentinelsLast, ExtractorsLive
    <3> QED BY <2>4, <3>1 DEF Attended
  <2>5. ASSUME NEW w \in Deciders, dw[w].node = n PROVE n \in Attended \cup LeftByRaise
    BY <2>5 DEF Attended, LeftByRaise
  <2>6. ASSUME NEW w \in Extractors, ew[w].node = n PROVE n \in Attended
    BY <2>6 DEF EngineInv, ExtractorsLive, Attended
  <2> QED BY <2>1, <2>2, <2>3, <2>4, <2>5, <2>6 DEF InHands
<1> QED BY Invariance, <1>1, PTL

\* When the driver loop returns, nobody works and nothing in scope is pending.
THEOREM QuietAtExitAlways == Spec => []QuietAtExit
<1>1. EngineInv => QuietAtExit
  BY DEF EngineInv, QuietAfterwards, NonePending, QuietAtExit
<1> QED BY Invariance, <1>1, PTL

\* What a run recorded as completed covers is done, with everything below it.
THEOREM CompletedIsCompleteAlways == Spec => []CompletedIsComplete
<1>1. EngineInv => CompletedIsComplete
  <2> SUFFICES ASSUME EngineInv, runStatus = "completed", NEW n \in Nodes, Covered(n)
               PROVE  /\ status[n] \in {"absent", "done", "skipped"}
                      /\ status[n] = "done" =>
                           \A c \in decided[n] : Covered(c) => status[c] \in {"done", "skipped"}
    BY DEF CompletedIsComplete
  <2>1. \A m \in Nodes : Covered(m) => status[m] \in {"absent", "done", "skipped"}
    BY DEF EngineInv, NoneLeft
  <2>2. status[n] = "done" => \A c \in decided[n] : c \in Nodes /\ status[c] # "absent"
    BY DEF EngineInv, NoLostChild, Present
  <2> QED BY <2>1, <2>2
<1> QED BY Invariance, <1>1, PTL

\* A node that was done, failed or skipped is reopened only by a new database or
\* by a reset: a worker marks only the node in its hands, which is in progress,
\* and discovering a node again keeps its status.
THEOREM SettledStaysAlways == Spec => SettledStays
<1> DEFINE Reopens(n) == status[n] \in {"done", "failed", "skipped"} /\ status'[n] # status[n]
           Allowed == proc \in {"off", "reset", "bad"} /\ (proc = "off" => OpenFresh)
<1>1. ASSUME EngineInv, Next, NEW n \in Nodes, Reopens(n) PROVE Allowed
  <2>0. /\ status \in [Nodes -> NodeStatus]
        /\ HeldOnce /\ DriverShape /\ DeciderShape /\ ExtractorShape
    BY <1>1 DEF EngineInv, TypeOK
  <2>1. CASE SetupControl \/ WrapupControl \/ ProcessEnding \/ DLookup
        \/ (\E r \in FetchResults : DFetched(r)) \/ DDispatch \/ DExit
        \/ (\E w \in Deciders, m \in Nodes : Take(w, m)) \/ (\E w \in Deciders : BeginUnit(w)
        \/ Decide(w) \/ Exclude(w) \/ DecideRaises(w) \/ CloseUnit(w) \/ ExitDecider(w))
        \/ (\E w \in Extractors, m \in Nodes : TakeDetail(w, m))
        \/ (\E w \in Extractors : CheckTwin(w) \/ RecordAttempt(w) \/ ExtractSaved(w)
        \/ FinishAttempt(w) \/ ExitExtractor(w))
        \/ (\E w \in Extractors, v \in {"skipped", "retry", "failed"} : ExtractFails(w, v))
    BY <1>1, <2>1, Frames DEF DLookup, DFetched, DDispatch, DExit, Take, BeginUnit, Decide,
           Exclude, DecideRaises, CloseUnit, ExitDecider, TakeDetail, CheckTwin, RecordAttempt,
           ExtractSaved, ExtractFails, FinishAttempt, ExitExtractor
  <2>2. CASE OpenFresh
    BY <2>2 DEF OpenFresh
  <2>3. CASE \E T \in SUBSET Orgs, r \in BOOLEAN : OpenResume(T, r)
    BY <1>1, <2>3, <2>0 DEF OpenResume
  <2>4. CASE \E o \in Orgs : ResetSubtree(o)
    BY <1>1, <2>4, <2>0 DEF ResetSubtree
  <2>5. CASE \E m \in Nodes : LoadSeed(m)
    BY <1>1, <2>5, <2>0 DEF LoadSeed, Upsert
  <2>6. CASE ResetBad
    BY <1>1, <2>6, <2>0 DEF ResetBad
  <2>7. CASE \E m \in Nodes : DClaim(m)
    BY <1>1, <2>7, <2>0 DEF DClaim, Claimable
  <2>8. CASE DSettle
    BY <1>1, <2>8, <2>0, NoNodeIsNoNode DEF DSettle, HeldOnce, Held, DriverShape
  <2>9. CASE \E w \in Deciders, c \in Nodes : CreateChild(w, c)
    BY <1>1, <2>9, <2>0 DEF CreateChild, Upsert
  <2>10. CASE \E w \in Deciders : MarkDecided(w)
    BY <1>1, <2>10, <2>0, NoNodeIsNoNode DEF MarkDecided, HeldOnce, Held, DeciderShape
  <2>11. CASE \E w \in Extractors : MarkExtracted(w)
    BY <1>1, <2>11, <2>0, NoNodeIsNoNode DEF MarkExtracted, HeldOnce, Held, ExtractorShape
  <2> QED BY <1>1, <2>1, <2>2, <2>3, <2>4, <2>5, <2>6, <2>7, <2>8, <2>9, <2>10, <2>11 DEF Next,
      Setup, DriverStep, Wrapup, DeciderStep, ExtractorStep, SetupControl, WrapupControl,
      ProcessEnding
<1>2. EngineInv /\ [Next]_vars => [\A n \in Nodes : Reopens(n) => Allowed]_vars
  BY <1>1
<1> QED BY Invariance, <1>2, PTL DEF Spec, SettledStays
=============================================================================
