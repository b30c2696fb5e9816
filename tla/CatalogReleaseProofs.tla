------------------------ MODULE CatalogReleaseProofs ------------------------
(***************************************************************************)
(* Proofs, for any set of builds, any number of batches and any number of  *)
(* failures, of the safety properties of CatalogRelease.                   *)
(*                                                                         *)
(* The argument is one inductive invariant, ReleaseInv.  It says where the *)
(* process with the lock can stand (JobPlaces) and what it has made sure   *)
(* of by then: the status and the run of its build (WorkIsMarked) and the  *)
(* batch it is uploading (UploadInOrder).  What the catalog promises of a  *)
(* completed vector run (UploadsCurrent) is what a passed validation turns *)
(* into ReleasedVectors; what it promises of a promotion (SafePromotion)   *)
(* keeps a repair from erasing the record of one.  A second invariant on   *)
(* top of it follows the topic relations from the links through the        *)
(* export (TopicsExported) to Neo4j (ReleasedTopics).                      *)
(***************************************************************************)
EXTENDS CatalogRelease, TLAPS

\* The steps each stage of a command goes through.
JobPlaces ==
    \/ job.stage = "idle" /\ job.pc = "idle"
    \/ job.stage = "ingest" /\ job.pc \in {"prepare", "snapshot", "ingest"}
    \/ job.stage = "curation" /\ job.pc \in {"prepare", "work"}
    \/ job.stage = "graph" /\ job.pc \in {"prepare", "freeze", "startWrite", "neo"}
    \/ job.stage = "topic" /\ job.pc \in {"prepare", "link", "freeze", "neo"}
    \/ /\ job.stage = "vector"
       /\ job.pc \in {"prepare", "store", "upsert", "mark", "freeze", "neo"}
    \/ job.stage = "ensure" /\ job.pc \in {"prepare", "freeze"}
    \/ job.stage = "repair" /\ job.pc \in {"reset", "freeze", "unprune"}
    \/ job.stage = "validate" /\ job.pc = "checks"
    \/ job.stage = "promote" /\ job.pc \in {"setNeo4j", "switchAlias", "readback"}

\* A stage past its prepare transaction has marked its run as RUNNING, and its build has
\* a status from which nothing can be validated or promoted; a validation and a promotion
\* hold the status they started from.
Working == {"SNAPSHOTTING", "INGESTING", "CURATING", "EMBEDDING", "WRITING_GRAPH",
            "WRITING_VECTOR", "FAILED"}

WorkIsMarked ==
    \A b \in Builds : job.build = b =>
        /\ job.stage \in Stages /\ job.pc # "prepare" => run[b][job.stage] = "RUNNING"
        /\ job.stage \in Stages \cup {"ingest"} /\ job.pc # "prepare" => status[b] \in Working
        /\ job.stage = "validate" => status[b] = "VALIDATING"
        /\ job.stage = "promote" => /\ status[b] = "READY" /\ promo[b] = "RUNNING"

\* The batch that is being uploaded is the one after the checkpoint, and its profile was
\* made from the links; the professor nodes are exported when no batch is left.
UploadInOrder ==
    \A b \in Builds : job.build = b /\ job.stage = "vector" =>
        /\ job.pc \in {"upsert", "mark"} =>
             uploaded[b] < Rows(b) /\ profile[b][uploaded[b] + 1] = links[b]
        /\ job.pc = "mark" => points[b][uploaded[b] + 1] = profile[b][uploaded[b] + 1]
        /\ job.pc \in {"freeze", "neo"} => uploaded[b] >= Rows(b)

\* There are no profiles before curation; once the topics are complete those up to the
\* checkpoint were made from the links, and a completed vector run has left none out.
UploadsCurrent ==
    \A b \in Builds :
        /\ run[b]["curation"] # "COMPLETED" =>
             uploaded[b] = 0 /\ \A k \in Batches : profile[b][k] = "missing"
        /\ run[b]["topic"] = "COMPLETED" => \A k \in 1..uploaded[b] : profile[b][k] = links[b]
        /\ run[b]["vector"] = "COMPLETED" =>
             uploaded[b] = NumBatches \/ \A k \in Batches : profile[b][k] = "missing"

\* Links are never taken away, and those of a build that was validated or promoted are
\* compatible: a repair, which would erase the record of a promotion, finds nothing.
SafePromotion ==
    \A b \in Builds :
        /\ links[b] # "missing"
        /\ (status[b] \in {"READY", "ACTIVE"} \/ promo[b] # "none") => links[b] # "bad"

\* What ReleasedIsCurrent says of the professors: their profiles, nodes and points.
ReleasedVectors ==
    \A b \in Released :
        /\ verdict[b] = "PASSED"
        /\ \A s \in Stages : run[b][s] = "COMPLETED"
        /\ neo[b].present = Parts
        /\ \A k \in Batches :
              links[b] = profile[b][k] /\ links[b] = neo[b].prof[k] /\ links[b] = points[b][k]

\* A partition with a checkpoint has rows.
DoneHasRows == \A b \in Builds : "topic" \in neoDone[b] => export[b].topic # "none"

ReleaseInv ==
    /\ TypeOK /\ JobPlaces /\ WorkIsMarked /\ UploadInOrder /\ UploadsCurrent
    /\ SafePromotion /\ DoneHasRows
    /\ CheckpointsTruthful /\ ReleasedVectors /\ DivergenceRecorded

\* The topic relations of the export.  A topic stage that has linked, or is complete, has
\* links, and what it exports of the relations is not empty; and an export that has them
\* was made from the links of now, unless a repair was killed, or stands, before RepairReset.
TopicsExported ==
    \A b \in Builds :
        /\ run[b]["topic"] = "COMPLETED" \/ At(b, "topic", "freeze") \/ At(b, "topic", "neo") =>
             links[b] # "none"
        /\ \/ run[b]["topic"] = "COMPLETED" /\ "topic" \in export[b].present
           \/ At(b, "topic", "freeze") /\ "topic" \notin job.left
           \/ At(b, "topic", "neo")
           => export[b].topic # "none"
        /\ b \notin torn /\ ~At(b, "repair", "reset") => export[b].topic \in {"none", links[b]}

\* What ReleasedIsCurrent says of the topic relations in Neo4j.
ReleasedTopics == \A b \in Released : b \notin torn => neo[b].topic = links[b]

TopicInv == TopicsExported /\ ReleasedTopics

-----------------------------------------------------------------------------
\* What a command that begins, goes on with its next stage or ends leaves in job.
LEMMA JobTypes ==
  ASSUME TypeOK, NEW b \in Builds
  PROVE  /\ NoJob \in Job
         /\ \A stage, st : Return(b, stage, st) \in Job
         /\ Begin(b, "topic", "prepare", TRUE) \in Job
<1>1. NoJob \in Job
  BY DEF NoJob, Job
<1>2. ASSUME NEW stage \in Stages
      PROVE  Begin(b, stage, "prepare", TRUE) \in Job
  BY <1>2 DEF Begin, Job, Stages
<1>3. ASSUME NEW stage, NEW st
      PROVE  NextStage(stage, st) \in Stages \cup {"idle"}
  BY DEF NextStage, Stages
<1> QED
  BY <1>1, <1>2, <1>3 DEF Return, Stages

\* A run that is marked as RUNNING keeps the type of the run table.
LEMMA RunTypes ==
  ASSUME TypeOK, NEW b \in Builds
  PROVE  /\ run \in [Builds -> [Stages -> RunStatus]]
         /\ [run EXCEPT ![b]["curation"] = "RUNNING"] \in [Builds -> [Stages -> RunStatus]]
         /\ [run EXCEPT ![b]["graph"] = "RUNNING"] \in [Builds -> [Stages -> RunStatus]]
         /\ [run EXCEPT ![b]["topic"] = "RUNNING"] \in [Builds -> [Stages -> RunStatus]]
         /\ [run EXCEPT ![b]["vector"] = "RUNNING"] \in [Builds -> [Stages -> RunStatus]]
  BY DEF TypeOK, RunStatus

\* Moving to another step of a stage keeps the type of job.
LEMMA GotoTypes ==
  ASSUME TypeOK
  PROVE  /\ \A pc \in {"prepare", "snapshot", "ingest", "work", "link", "store", "upsert",
                       "mark", "startWrite", "unprune"} : Goto(pc) \in Job
         /\ \A pc \in {"freeze", "neo"}, parts \in SUBSET Parts : GotoFor(pc, parts) \in Job
  BY DEF TypeOK, Goto, GotoFor, Job

\* Every step keeps the types; the checkpoint of an upload stays within the batches
\* because a batch in flight is one of those left (UploadInOrder).
LEMMA TypeStep ==
  ASSUME TypeOK, UploadInOrder, Next
  PROVE  TypeOK'
<1>1. ASSUME NEW b \in Builds, IngestBegin(b)
      PROVE  TypeOK'
  <2>1. job' \in Job
    BY <1>1, JobTypes, GotoTypes DEF IngestBegin
  <2>2. status' \in [Builds -> Status]
    BY ZenonT(60), <1>1 DEF IngestBegin, TypeOK, Status
  <2> QED
    BY <1>1, <2>1, <2>2 DEF IngestBegin, TypeOK, runVars, dataVars, graphVars, servedVars
<1>2. ASSUME NEW b \in Builds, SnapshotsTaken(b)
      PROVE  TypeOK'
  BY ZenonT(60), <1>2, ReleaseAssumption DEF
       SnapshotsTaken, Goto, At, runVars, dataVars, graphVars, servedVars, TypeOK, Job, Graph,
       Status, RunStatus, Versions, Stages, Batches, Intent
<1>3. ASSUME NEW b \in Builds, IngestDone(b)
      PROVE  TypeOK'
  BY <1>3, ReleaseAssumption DEF
       IngestDone, Return, NextStage, Begin, At, NoJob, runVars, dataVars, graphVars, servedVars,
       TypeOK, Job, Graph, Status, RunStatus, Versions, Stages, Batches, Intent
<1>4. ASSUME NEW b \in Builds, CurationPrepare(b)
      PROVE  TypeOK'
  <2>1. job' \in Job
    BY <1>4, JobTypes, GotoTypes DEF CurationPrepare, Refuse
  <2>2. status' \in [Builds -> Status]
    BY <1>4 DEF CurationPrepare, Refuse, TypeOK, Status
  <2>3. run' \in {run, [run EXCEPT ![b]["curation"] = "RUNNING"]}
    BY <1>4 DEF CurationPrepare, Refuse
  <2>4. run' \in [Builds -> [Stages -> RunStatus]]
    BY <2>3, RunTypes
  <2> QED
    BY <1>4, <2>1, <2>2, <2>4 DEF
         CurationPrepare, TypeOK, runVars, dataVars, graphVars, servedVars
<1>5. ASSUME NEW b \in Builds, CurationFinish(b)
      PROVE  TypeOK'
  BY <1>5, ReleaseAssumption DEF
       CurationFinish, Return, NextStage, Begin, At, NoJob, runVars, dataVars, graphVars,
       servedVars, TypeOK, Job, Graph, Status, RunStatus, Versions, Stages, Batches, Intent
<1>6. ASSUME NEW b \in Builds, GraphPrepare(b)
      PROVE  TypeOK'
  <2>1. job' \in Job
    BY <1>6, JobTypes, GotoTypes DEF GraphPrepare, Refuse
  <2>2. status' \in [Builds -> Status]
    BY <1>6 DEF GraphPrepare, Refuse, TypeOK, Status
  <2>3. run' \in {run, [run EXCEPT ![b]["graph"] = "RUNNING"]}
    BY <1>6 DEF GraphPrepare, Refuse
  <2>4. run' \in [Builds -> [Stages -> RunStatus]]
    BY <2>3, RunTypes
  <2> QED
    BY <1>6, <2>1, <2>2, <2>4 DEF GraphPrepare, TypeOK, runVars, dataVars, graphVars, servedVars
<1>7. ASSUME NEW b \in Builds, StartGraphWrite(b)
      PROVE  TypeOK'
  BY <1>7, ReleaseAssumption DEF
       StartGraphWrite, GotoFor, At, Parts, runVars, dataVars, graphVars, servedVars, TypeOK, Job,
       Graph, Status, RunStatus, Versions, Stages, Batches, Intent
<1>8. ASSUME NEW b \in Builds, GraphFinish(b)
      PROVE  TypeOK'
  BY <1>8, ReleaseAssumption DEF
       GraphFinish, Return, NextStage, Begin, At, NoJob, runVars, dataVars, graphVars, servedVars,
       TypeOK, Job, Graph, Status, RunStatus, Versions, Stages, Batches, Intent
<1>9. ASSUME NEW b \in Builds, TopicPrepare(b)
      PROVE  TypeOK'
  <2>0. job' \in {NoJob, Return(b, "topic", "WRITING_VECTOR"), Goto("link")}
    BY <1>9 DEF TopicPrepare, Refuse
  <2>1. job' \in Job
    BY <2>0, JobTypes, GotoTypes
  <2>2. status' \in [Builds -> Status]
    BY ZenonT(60), <1>9 DEF TopicPrepare, Refuse, TypeOK, Status
  <2>3. run' \in {run, [run EXCEPT ![b]["topic"] = "RUNNING"]}
    BY <1>9 DEF TopicPrepare, Refuse
  <2>4. run' \in [Builds -> [Stages -> RunStatus]]
    BY <2>3, RunTypes
  <2> QED
    BY <1>9, <2>1, <2>2, <2>4 DEF TopicPrepare, TypeOK, runVars, dataVars, graphVars, servedVars
<1>10. ASSUME NEW b \in Builds, TopicLink(b)
      PROVE  TypeOK'
  BY <1>10, ReleaseAssumption DEF
       TopicLink, GotoFor, At, Parts, runVars, dataVars, graphVars, servedVars, TypeOK, Job,
       Graph, Status, RunStatus, Versions, Stages, Batches, Intent
<1>11. ASSUME NEW b \in Builds, TopicFinish(b)
      PROVE  TypeOK'
  <2>1. job' \in Job
    BY <1>11, JobTypes DEF TopicFinish
  <2>2. status' \in [Builds -> Status] /\ run' \in [Builds -> [Stages -> RunStatus]]
    BY <1>11 DEF TopicFinish, TypeOK, Status, RunStatus, Stages
  <2>3. uploaded' \in [Builds -> 0..NumBatches]
    BY <1>11, ReleaseAssumption DEF TopicFinish, TypeOK
  <2> QED
    BY <1>11, <2>1, <2>2, <2>3 DEF TopicFinish, TypeOK, runVars, dataVars, graphVars, servedVars
<1>12. ASSUME NEW b \in Builds, VectorPrepare(b)
      PROVE  TypeOK'
  <2>1. job' \in Job
    BY <1>12, JobTypes, GotoTypes DEF VectorPrepare, Refuse
  <2>2. status' \in [Builds -> Status]
    BY ZenonT(60), <1>12 DEF VectorPrepare, Refuse, TypeOK, Status
  <2>3. run' \in {run, [run EXCEPT ![b]["vector"] = "RUNNING"]}
    BY <1>12 DEF VectorPrepare, Refuse
  <2>4. run' \in [Builds -> [Stages -> RunStatus]]
    BY <2>3, RunTypes
  <2> QED
    BY <1>12, <2>1, <2>2, <2>4 DEF VectorPrepare, TypeOK, runVars, dataVars, graphVars, servedVars
<1>13. ASSUME NEW b \in Builds, VectorStore(b)
      PROVE  TypeOK'
  BY <1>13, ReleaseAssumption DEF
       VectorStore, Goto, At, Rows, runVars, dataVars, graphVars, servedVars, TypeOK, Job, Graph,
       Status, RunStatus, Versions, Stages, Batches, Intent
<1>14. ASSUME NEW b \in Builds, VectorUpsert(b)
      PROVE  TypeOK'
  <2>1. uploaded[b] + 1 \in Batches
    BY <1>14, ReleaseAssumption DEF VectorUpsert, UploadInOrder, At, Rows, TypeOK, Batches
  <2>2. job' \in Job
    BY <1>14, GotoTypes DEF VectorUpsert
  <2>3. points' \in [Builds -> [Batches -> Versions]]
    BY <1>14, <2>1 DEF VectorUpsert, TypeOK
  <2> QED
    BY <1>14, <2>2, <2>3 DEF VectorUpsert, TypeOK, runVars, dataVars, graphVars, servedVars
<1>15. ASSUME NEW b \in Builds, VectorMark(b)
      PROVE  TypeOK'
  <2>1. uploaded[b] + 1 \in Batches
    BY <1>15, ReleaseAssumption DEF VectorMark, UploadInOrder, At, Rows, TypeOK, Batches
  <2>2. job' \in Job
    BY <1>15, GotoTypes DEF VectorMark
  <2>3. uploaded' \in [Builds -> 0..NumBatches]
    BY <1>15, <2>1, ReleaseAssumption DEF VectorMark, TypeOK, Batches
  <2> QED
    BY <1>15, <2>2, <2>3 DEF VectorMark, TypeOK, runVars, dataVars, graphVars, servedVars
<1>16. ASSUME NEW b \in Builds, VectorReset(b)
      PROVE  TypeOK'
  BY ZenonT(60), <1>16, ReleaseAssumption DEF
       VectorReset, GotoFor, At, Without, NoProfiles, Parts, Rows, runVars, dataVars, graphVars,
       servedVars, TypeOK, Job, Graph, Status, RunStatus, Versions, Stages, Batches, Intent
<1>17. ASSUME NEW b \in Builds, VectorFinish(b)
      PROVE  TypeOK'
  BY <1>17, ReleaseAssumption DEF
       VectorFinish, At, NoJob, Rows, runVars, dataVars, graphVars, servedVars, TypeOK, Job,
       Graph, Status, RunStatus, Versions, Stages, Batches, Intent
<1>18. ASSUME NEW b \in Builds, NEW p \in Parts, FreezePart(b, p)
      PROVE  TypeOK'
  <2>1. Frozen(b, p) \in Graph
    BY DEF Frozen, TypeOK, Graph, Parts
  <2>2. job' \in Job
    BY <1>18, GotoTypes DEF FreezePart, NextPart, TypeOK, Job
  <2> QED
    BY <1>18, <2>1, <2>2 DEF FreezePart, TypeOK, runVars, dataVars, graphVars, servedVars
<1>19. ASSUME NEW b \in Builds, FreezeDone(b)
      PROVE  TypeOK'
  <2>1. job' \in Job
    BY <1>19, JobTypes, GotoTypes DEF FreezeDone
  <2>2. pruned' \in [Builds -> BOOLEAN]
    BY <1>19, Zenon DEF FreezeDone, TypeOK
  <2> QED
    BY <1>19, <2>1, <2>2 DEF FreezeDone, TypeOK, runVars, dataVars, graphVars, servedVars
<1>20. ASSUME NEW b \in Builds, NEW p \in Parts, NeoWritePart(b, p)
      PROVE  TypeOK'
  <2>1. Written(b, p) \in Graph
    BY DEF Written, TypeOK, Graph, Parts
  <2>2. job' \in Job
    BY <1>20, GotoTypes DEF NeoWritePart, NextPart, TypeOK, Job
  <2>3. neoDone' \in [Builds -> SUBSET Parts]
    BY <1>20 DEF NeoWritePart, TypeOK
  <2> QED
    BY <1>20, <2>1, <2>2, <2>3 DEF NeoWritePart, TypeOK, runVars, dataVars, graphVars, servedVars
<1>21. ASSUME NEW b \in Builds, NeoMismatch(b)
      PROVE  TypeOK'
  BY <1>21, ReleaseAssumption DEF
       NeoMismatch, FailRun, NoJob, runVars, dataVars, graphVars, servedVars, TypeOK, Job, Graph,
       Status, RunStatus, Versions, Stages, Batches, Intent
<1>22. ASSUME NEW b \in Builds, EnsureExports(b)
      PROVE  TypeOK'
  <2>1. job' \in Job
    BY <1>22, JobTypes, GotoTypes DEF EnsureExports
  <2>2. EmptyGraph \in Graph
    BY DEF EmptyGraph, Graph, NoProfiles, Versions
  <2>3. export' \in [Builds -> Graph] /\ neoDone' \in [Builds -> SUBSET Parts]
    BY ZenonT(60), <1>22, <2>2 DEF EnsureExports, TypeOK
  <2> QED
    BY <1>22, <2>1, <2>3 DEF EnsureExports, TypeOK, runVars, dataVars, graphVars, servedVars
<1>23. ASSUME NEW b \in Builds, RepairReset(b)
      PROVE  TypeOK'
  BY ZenonT(60), <1>23, ReleaseAssumption DEF
       RepairReset, GotoFor, At, Without, NoProfiles, Parts, runVars, dataVars, graphVars,
       servedVars, TypeOK, Job, Graph, Status, RunStatus, Versions, Stages, Batches, Intent
<1>24. ASSUME NEW b \in Builds, RepairUnprune(b)
      PROVE  TypeOK'
  BY <1>24, ReleaseAssumption DEF
       RepairUnprune, At, NoJob, runVars, dataVars, graphVars, servedVars, TypeOK, Job, Graph,
       Status, RunStatus, Versions, Stages, Batches, Intent
<1>25. ASSUME NEW b \in Builds, NEW g \in BOOLEAN, ValidateFinish(b, g)
      PROVE  TypeOK'
  BY <1>25, ReleaseAssumption DEF
       ValidateFinish, At, NoJob, runVars, dataVars, graphVars, servedVars, TypeOK, Job, Graph,
       Status, RunStatus, Versions, Stages, Batches, Intent
<1>26. ASSUME NEW b \in Builds, SetNeo4j(b)
      PROVE  TypeOK'
  BY <1>26, ReleaseAssumption DEF
       SetNeo4j, Goto, At, runVars, dataVars, graphVars, servedVars, TypeOK, Job, Graph, Status,
       RunStatus, Versions, Stages, Batches, Intent
<1>27. ASSUME NEW b \in Builds, SwitchAlias(b)
      PROVE  TypeOK'
  BY <1>27, ReleaseAssumption DEF
       SwitchAlias, Goto, At, runVars, dataVars, graphVars, servedVars, TypeOK, Job, Graph,
       Status, RunStatus, Versions, Stages, Batches, Intent
<1>28. ASSUME NEW b \in Builds, PromoteFinish(b)
      PROVE  TypeOK'
  BY <1>28, ReleaseAssumption DEF
       PromoteFinish, At, NoJob, runVars, dataVars, graphVars, servedVars, TypeOK, Job, Graph,
       Status, RunStatus, Versions, Stages, Batches, Intent
<1>29. ASSUME NEW b \in Builds, IngestFailed(b)
      PROVE  TypeOK'
  BY <1>29, ReleaseAssumption DEF
       IngestFailed, NoJob, runVars, dataVars, graphVars, servedVars, TypeOK, Job, Graph, Status,
       RunStatus, Versions, Stages, Batches, Intent
<1>30. ASSUME NEW b \in Builds, StageFail(b)
      PROVE  TypeOK'
  BY <1>30, ReleaseAssumption DEF
       StageFail, FailRun, NoJob, runVars, dataVars, graphVars, servedVars, TypeOK, Job, Graph,
       Status, RunStatus, Versions, Stages, Batches, Intent
<1>31. ASSUME NEW b \in Builds, PromoteFail(b)
      PROVE  TypeOK'
  BY <1>31, ReleaseAssumption DEF
       PromoteFail, NoJob, runVars, dataVars, graphVars, servedVars, TypeOK, Job, Graph, Status,
       RunStatus, Versions, Stages, Batches, Intent
<1>32. ASSUME NEW b \in Builds, CreateBuild(b)
      PROVE  TypeOK'
  BY <1>32, ReleaseAssumption DEF
       CreateBuild, Begin, NoJob, runVars, dataVars, graphVars, servedVars, TypeOK, Job, Graph,
       Status, RunStatus, Versions, Stages, Batches, Intent
<1>33. ASSUME NEW b \in Builds, ResumeRead(b)
      PROVE  TypeOK'
  BY <1>33, ReleaseAssumption DEF
       ResumeRead, runVars, dataVars, graphVars, servedVars, TypeOK, Job, Graph, Status,
       RunStatus, Versions, Stages, Batches, Intent
<1>34. ASSUME NEW b \in Builds, ResumeLocked(b)
      PROVE  TypeOK'
  <2>1. ResumeStage(b, intent.status) \in Stages \cup {"ingest"}
    BY DEF ResumeStage, Stages
  <2>2. EntryStage(ResumeStage(b, intent.status)) \in Stages \cup {"ingest", "ensure"}
    BY <2>1 DEF EntryStage
  <2>3. Begin(b, EntryStage(ResumeStage(b, intent.status)), "prepare", TRUE) \in Job
    BY <2>2 DEF Begin, Job
  <2>4. job' \in Job
    BY <1>34, <2>3 DEF ResumeLocked, TypeOK
  <2> QED
    BY <1>34, <2>4 DEF ResumeLocked, TypeOK, runVars, dataVars, graphVars, servedVars
<1>35. ASSUME NEW b \in Builds, NEW s \in {"topic", "vector"}, StageCommand(b, s)
      PROVE  TypeOK'
  BY <1>35, ReleaseAssumption DEF
       StageCommand, Begin, NoJob, runVars, dataVars, graphVars, servedVars, TypeOK, Job, Graph,
       Status, RunStatus, Versions, Stages, Batches, Intent
<1>36. ASSUME NEW b \in Builds, Repair(b)
      PROVE  TypeOK'
  BY <1>36, ReleaseAssumption DEF
       Repair, Begin, NoJob, runVars, dataVars, graphVars, servedVars, TypeOK, Job, Graph, Status,
       RunStatus, Versions, Stages, Batches, Intent
<1>37. ASSUME NEW b \in Builds, NEW ch \in SUBSET Builds, Compact(b, ch)
      PROVE  TypeOK'
  BY ZenonT(60), <1>37, ReleaseAssumption DEF
       Compact, EmptyGraph, NoProfiles, NoJob, runVars, dataVars, graphVars, servedVars, TypeOK,
       Job, Graph, Status, RunStatus, Versions, Stages, Batches, Intent
<1>38. ASSUME NEW b \in Builds, ValidatePrepare(b)
      PROVE  TypeOK'
  BY <1>38, ReleaseAssumption DEF
       ValidatePrepare, Begin, NoJob, runVars, dataVars, graphVars, servedVars, TypeOK, Job,
       Graph, Status, RunStatus, Versions, Stages, Batches, Intent
<1>39. ASSUME NEW b \in Builds, PromotePrepare(b)
      PROVE  TypeOK'
  BY <1>39, ReleaseAssumption DEF
       PromotePrepare, Begin, NoJob, runVars, dataVars, graphVars, servedVars, TypeOK, Job, Graph,
       Status, RunStatus, Versions, Stages, Batches, Intent
<1>40. ASSUME Crash
       PROVE  TypeOK'
  BY <1>40, ReleaseAssumption DEF
       Crash, NoJob, runVars, dataVars, graphVars, servedVars, TypeOK, Job, Graph, Status,
       RunStatus, Versions, Stages, Batches, Intent
<1> QED
  BY <1>1, <1>2, <1>3, <1>4, <1>5, <1>6, <1>7, <1>8, <1>9, <1>10, <1>11, <1>12, <1>13, <1>14,
     <1>15, <1>16, <1>17, <1>18, <1>19, <1>20, <1>21, <1>22, <1>23, <1>24, <1>25, <1>26, <1>27,
     <1>28, <1>29, <1>30, <1>31, <1>32, <1>33, <1>34, <1>35, <1>36, <1>37, <1>38, <1>39, <1>40 DEF
       Next, JobStep, Fault, Command

\* What Goto and GotoFor leave alone.
LEMMA GotoFields ==
  ASSUME TypeOK
  PROVE  /\ \A pc : Goto(pc).stage = job.stage /\ Goto(pc).pc = pc /\ Goto(pc).build = job.build
         /\ \A pc, parts : /\ GotoFor(pc, parts).stage = job.stage /\ GotoFor(pc, parts).pc = pc
                            /\ GotoFor(pc, parts).build = job.build
  BY DEF TypeOK, Job, Goto, GotoFor
\* A command that returns from a stage has ended, or stands before its next stage.
LEMMA ReturnFields ==
  ASSUME NEW b, NEW stage, NEW st
  PROVE  \/ /\ Return(b, stage, st).stage = "idle"
            /\ Return(b, stage, st).pc = "idle"
            /\ Return(b, stage, st).build = NoBuild
         \/ /\ Return(b, stage, st).stage \in {"curation", "graph", "topic", "vector"}
            /\ Return(b, stage, st).pc = "prepare"
            /\ Return(b, stage, st).build = b
  BY DEF Return, NextStage, Begin, NoJob

\* A process that has ended, or has not yet prepared its next stage, has promised nothing.
LEMMA AtRest ==
  ASSUME \/ job'.stage = "idle" /\ job'.build = NoBuild
         \/ job'.stage \notin {"validate", "promote"} /\ job'.pc = "prepare"
  PROVE  WorkIsMarked' /\ UploadInOrder'
  BY ReleaseAssumption DEF WorkIsMarked, UploadInOrder, Stages

\* That is where every stage that returns leaves it.
LEMMA ReturnRests ==
  ASSUME NEW b, NEW stage, NEW st, job' = Return(b, stage, st) \/ job' = NoJob
  PROVE  WorkIsMarked' /\ UploadInOrder'
  BY AtRest, ReturnFields DEF NoJob

\* The status of a build that is not and does not become ACTIVE is of no consequence to
\* DivergenceRecorded.
LEMMA DivergenceFrame ==
  ASSUME TypeOK, DivergenceRecorded, NEW b \in Builds,
         status[b] # "ACTIVE", status'[b] # "ACTIVE",
         \A c \in Builds \ {b} : status'[c] = status[c],
         UNCHANGED <<promo, neoActive, alias>>
  PROVE  DivergenceRecorded'
  BY DEF TypeOK, DivergenceRecorded


\* Every step leads to a step of the same stage, to another stage or to the end.
LEMMA PlacesStep ==
  ASSUME TypeOK, JobPlaces, Next
  PROVE  JobPlaces'
<1> USE DEF runVars, dataVars, graphVars, servedVars
<1>1. ASSUME NEW b \in Builds, IngestBegin(b)
      PROVE  JobPlaces'
  BY <1>1, GotoFields, ReturnFields DEF IngestBegin, At, JobPlaces
<1>2. ASSUME NEW b \in Builds, SnapshotsTaken(b)
      PROVE  JobPlaces'
  BY <1>2, GotoFields DEF SnapshotsTaken, At, JobPlaces
<1>3. ASSUME NEW b \in Builds, IngestDone(b)
      PROVE  JobPlaces'
  BY <1>3, ReturnFields DEF IngestDone, At, JobPlaces
<1>4. ASSUME NEW b \in Builds, CurationPrepare(b)
      PROVE  JobPlaces'
  BY <1>4, GotoFields, ReturnFields DEF CurationPrepare, Refuse, Begin, At, NoJob, JobPlaces
<1>5. ASSUME NEW b \in Builds, CurationFinish(b)
      PROVE  JobPlaces'
  BY <1>5, ReturnFields DEF CurationFinish, At, JobPlaces
<1>6. ASSUME NEW b \in Builds, GraphPrepare(b)
      PROVE  JobPlaces'
  BY <1>6, GotoFields, ReturnFields DEF GraphPrepare, Refuse, Begin, At, NoJob, Parts, JobPlaces
<1>7. ASSUME NEW b \in Builds, StartGraphWrite(b)
      PROVE  JobPlaces'
  BY <1>7, GotoFields DEF StartGraphWrite, At, Parts, JobPlaces
<1>8. ASSUME NEW b \in Builds, GraphFinish(b)
      PROVE  JobPlaces'
  BY <1>8, ReturnFields DEF GraphFinish, At, JobPlaces
<1>9. ASSUME NEW b \in Builds, TopicPrepare(b)
      PROVE  JobPlaces'
  BY <1>9, GotoFields, ReturnFields DEF TopicPrepare, Refuse, Begin, At, NoJob, JobPlaces
<1>10. ASSUME NEW b \in Builds, TopicLink(b)
      PROVE  JobPlaces'
  BY <1>10, GotoFields DEF TopicLink, At, Parts, JobPlaces
<1>11. ASSUME NEW b \in Builds, TopicFinish(b)
      PROVE  JobPlaces'
  BY <1>11, ReturnFields DEF TopicFinish, At, JobPlaces
<1>12. ASSUME NEW b \in Builds, VectorPrepare(b)
      PROVE  JobPlaces'
  BY <1>12, GotoFields DEF VectorPrepare, Refuse, At, NoJob, JobPlaces
<1>13. ASSUME NEW b \in Builds, VectorStore(b)
      PROVE  JobPlaces'
  BY <1>13, GotoFields DEF VectorStore, At, Rows, JobPlaces
<1>14. ASSUME NEW b \in Builds, VectorUpsert(b)
      PROVE  JobPlaces'
  BY <1>14, GotoFields DEF VectorUpsert, At, Rows, JobPlaces
<1>15. ASSUME NEW b \in Builds, VectorMark(b)
      PROVE  JobPlaces'
  BY <1>15, GotoFields DEF VectorMark, At, Rows, JobPlaces
<1>16. ASSUME NEW b \in Builds, VectorReset(b)
      PROVE  JobPlaces'
  BY <1>16, GotoFields DEF VectorReset, At, Without, NoProfiles, Parts, Rows, JobPlaces
<1>17. ASSUME NEW b \in Builds, VectorFinish(b)
      PROVE  JobPlaces'
  BY <1>17 DEF VectorFinish, At, NoJob, Rows, JobPlaces
<1>18. ASSUME NEW b \in Builds, NEW p \in Parts, FreezePart(b, p)
      PROVE  JobPlaces'
  BY <1>18, GotoFields DEF FreezePart, Parts, JobPlaces
<1>19. ASSUME NEW b \in Builds, FreezeDone(b)
      PROVE  JobPlaces'
  BY <1>19, GotoFields DEF FreezeDone, Begin, Parts, JobPlaces
<1>20. ASSUME NEW b \in Builds, NEW p \in Parts, NeoWritePart(b, p)
      PROVE  JobPlaces'
  BY <1>20, GotoFields DEF NeoWritePart, Parts, JobPlaces
<1>21. ASSUME NEW b \in Builds, NeoMismatch(b)
      PROVE  JobPlaces'
  BY <1>21 DEF NeoMismatch, FailRun, NoJob, JobPlaces
<1>22. ASSUME NEW b \in Builds, EnsureExports(b)
      PROVE  JobPlaces'
  BY <1>22, GotoFields DEF EnsureExports, Begin, At, EmptyGraph, NoProfiles, Parts, JobPlaces
<1>23. ASSUME NEW b \in Builds, RepairReset(b)
      PROVE  JobPlaces'
  BY <1>23, GotoFields DEF RepairReset, At, Without, NoProfiles, Parts, JobPlaces
<1>24. ASSUME NEW b \in Builds, RepairUnprune(b)
      PROVE  JobPlaces'
  BY <1>24 DEF RepairUnprune, At, NoJob, JobPlaces
<1>25. ASSUME NEW b \in Builds, NEW g \in BOOLEAN, ValidateFinish(b, g)
      PROVE  JobPlaces'
  BY <1>25 DEF ValidateFinish, At, NoJob, JobPlaces
<1>26. ASSUME NEW b \in Builds, SetNeo4j(b)
      PROVE  JobPlaces'
  BY <1>26, GotoFields DEF SetNeo4j, At, JobPlaces
<1>27. ASSUME NEW b \in Builds, SwitchAlias(b)
      PROVE  JobPlaces'
  BY <1>27, GotoFields DEF SwitchAlias, At, JobPlaces
<1>28. ASSUME NEW b \in Builds, PromoteFinish(b)
      PROVE  JobPlaces'
  BY <1>28 DEF PromoteFinish, At, NoJob, JobPlaces
<1>29. ASSUME NEW b \in Builds, IngestFailed(b)
      PROVE  JobPlaces'
  BY <1>29 DEF IngestFailed, NoJob, JobPlaces
<1>30. ASSUME NEW b \in Builds, StageFail(b)
      PROVE  JobPlaces'
  BY <1>30 DEF StageFail, FailRun, NoJob, JobPlaces
<1>31. ASSUME NEW b \in Builds, PromoteFail(b)
      PROVE  JobPlaces'
  BY <1>31 DEF PromoteFail, NoJob, JobPlaces
<1>32. ASSUME NEW b \in Builds, CreateBuild(b)
      PROVE  JobPlaces'
  BY <1>32 DEF CreateBuild, Begin, NoJob, JobPlaces
<1>33. ASSUME NEW b \in Builds, ResumeRead(b)
      PROVE  JobPlaces'
  BY <1>33 DEF ResumeRead, JobPlaces
<1>34. ASSUME NEW b \in Builds, ResumeLocked(b)
      PROVE  JobPlaces'
  BY <1>34 DEF ResumeLocked, EntryStage, Begin, ResumeStage, NoJob, NoIntent, JobPlaces
<1>35. ASSUME NEW b \in Builds, NEW s \in {"topic", "vector"}, StageCommand(b, s)
      PROVE  JobPlaces'
  BY <1>35 DEF StageCommand, Begin, NoJob, JobPlaces
<1>36. ASSUME NEW b \in Builds, Repair(b)
      PROVE  JobPlaces'
  BY <1>36 DEF Repair, Begin, NoJob, JobPlaces
<1>37. ASSUME NEW b \in Builds, NEW ch \in SUBSET Builds, Compact(b, ch)
      PROVE  JobPlaces'
  BY <1>37 DEF Compact, NoJob, JobPlaces
<1>38. ASSUME NEW b \in Builds, ValidatePrepare(b)
      PROVE  JobPlaces'
  BY <1>38 DEF ValidatePrepare, Begin, NoJob, JobPlaces
<1>39. ASSUME NEW b \in Builds, PromotePrepare(b)
      PROVE  JobPlaces'
  BY <1>39 DEF PromotePrepare, Begin, NoJob, JobPlaces
<1>40. ASSUME Crash
       PROVE  JobPlaces'
  BY <1>40 DEF Crash, NoJob, JobPlaces
<1> QED
  BY <1>1, <1>2, <1>3, <1>4, <1>5, <1>6, <1>7, <1>8, <1>9, <1>10, <1>11, <1>12, <1>13, <1>14,
     <1>15, <1>16, <1>17, <1>18, <1>19, <1>20, <1>21, <1>22, <1>23, <1>24, <1>25, <1>26, <1>27,
     <1>28, <1>29, <1>30, <1>31, <1>32, <1>33, <1>34, <1>35, <1>36, <1>37, <1>38, <1>39, <1>40 DEF
       Next, JobStep, Fault, Command

\* Every step past a prepare transaction keeps the marks that transaction made.
LEMMA MarkedStep ==
  ASSUME ReleaseInv, Next
  PROVE  WorkIsMarked'
<1> USE DEF runVars, dataVars, graphVars, servedVars
<1>1. ASSUME NEW b \in Builds, IngestBegin(b)
      PROVE  WorkIsMarked'
  <2>1. \/ job' = Return(b, "ingest", status[b]) \/ job' = NoJob
        \/ job' = Goto("ingest") \/ job' = Goto("snapshot")
    BY <1>1 DEF IngestBegin, Refuse
  <2>2. CASE job' = Return(b, "ingest", status[b]) \/ job' = NoJob
    BY <2>2, ReturnRests
  <2>3. CASE job' = Goto("ingest") \/ job' = Goto("snapshot")
    <3>1. job'.build = b /\ job'.stage = "ingest" /\ job'.pc \notin {"idle", "prepare"}
      BY <1>1, <2>3, GotoFields DEF IngestBegin, At, ReleaseInv
    <3>2. job' # NoJob /\ job' # Return(b, "ingest", status[b])
      BY <3>1, ReturnFields DEF NoJob
    <3>3. status'[b] \in Working
      BY <1>1, <3>2 DEF IngestBegin, Refuse, ReleaseInv, TypeOK, Working, Stages
    <3> QED
      BY <3>1, <3>3 DEF WorkIsMarked, Stages
  <2> QED
    BY <2>1, <2>2, <2>3
<1>2. ASSUME NEW b \in Builds, SnapshotsTaken(b)
      PROVE  WorkIsMarked'
  BY <1>2, GotoFields, ReleaseAssumption DEF
       SnapshotsTaken, At, ReleaseInv, TypeOK, Job, JobPlaces, WorkIsMarked, Working, Stages
<1>3. ASSUME NEW b \in Builds, IngestDone(b)
      PROVE  WorkIsMarked'
  BY <1>3, ReturnRests DEF IngestDone
<1>4. ASSUME NEW b \in Builds, CurationPrepare(b)
      PROVE  WorkIsMarked'
  <2>1. job' = Return(b, "curation", status[b]) \/ job' = NoJob \/ job' = Goto("work")
    BY <1>4 DEF CurationPrepare, Refuse
  <2>2. CASE job' = Return(b, "curation", status[b]) \/ job' = NoJob
    BY <2>2, ReturnRests
  <2>3. CASE job' = Goto("work")
    <3>1. job'.build = b /\ job'.stage = "curation" /\ job'.pc \notin {"idle", "prepare"}
      BY <1>4, <2>3, GotoFields DEF CurationPrepare, At, ReleaseInv
    <3>2. job' # NoJob /\ job' # Return(b, "curation", status[b])
      BY <3>1, ReturnFields DEF NoJob
    <3>3. status'[b] \in Working /\ run'[b]["curation"] = "RUNNING"
      BY <1>4, <3>2 DEF CurationPrepare, Refuse, ReleaseInv, TypeOK, Working, Stages
    <3> QED
      BY <3>1, <3>3 DEF WorkIsMarked, Stages
  <2> QED
    BY <2>1, <2>2, <2>3
<1>5. ASSUME NEW b \in Builds, CurationFinish(b)
      PROVE  WorkIsMarked'
  BY <1>5, ReturnRests DEF CurationFinish
<1>6. ASSUME NEW b \in Builds, GraphPrepare(b)
      PROVE  WorkIsMarked'
  <2>1. job' = Return(b, "graph", status[b]) \/ job' = NoJob \/ job' = GotoFor("freeze", Parts)
    BY <1>6 DEF GraphPrepare, Refuse
  <2>2. CASE job' = Return(b, "graph", status[b]) \/ job' = NoJob
    BY <2>2, ReturnRests
  <2>3. CASE job' = GotoFor("freeze", Parts)
    <3>1. job'.build = b /\ job'.stage = "graph" /\ job'.pc \notin {"idle", "prepare"}
      BY <1>6, <2>3, GotoFields DEF GraphPrepare, At, ReleaseInv
    <3>2. job' # NoJob /\ job' # Return(b, "graph", status[b])
      BY <3>1, ReturnFields DEF NoJob
    <3>3. status'[b] \in Working /\ run'[b]["graph"] = "RUNNING"
      BY <1>6, <3>2 DEF GraphPrepare, Refuse, ReleaseInv, TypeOK, Working, Stages
    <3> QED
      BY <3>1, <3>3 DEF WorkIsMarked, Stages
  <2> QED
    BY <2>1, <2>2, <2>3
<1>7. ASSUME NEW b \in Builds, StartGraphWrite(b)
      PROVE  WorkIsMarked'
  BY <1>7, GotoFields, ReleaseAssumption DEF
       StartGraphWrite, At, Parts, ReleaseInv, TypeOK, Job, JobPlaces, WorkIsMarked, Working,
       Stages
<1>8. ASSUME NEW b \in Builds, GraphFinish(b)
      PROVE  WorkIsMarked'
  BY <1>8, ReturnRests DEF GraphFinish
<1>9. ASSUME NEW b \in Builds, TopicPrepare(b)
      PROVE  WorkIsMarked'
  <2>1. job' = Return(b, "topic", "WRITING_VECTOR") \/ job' = NoJob \/ job' = Goto("link")
    BY <1>9 DEF TopicPrepare, Refuse
  <2>2. CASE job' = Return(b, "topic", "WRITING_VECTOR") \/ job' = NoJob
    BY <2>2, ReturnRests
  <2>3. CASE job' = Goto("link")
    <3>1. job'.build = b /\ job'.stage = "topic" /\ job'.pc \notin {"idle", "prepare"}
      BY <1>9, <2>3, GotoFields DEF TopicPrepare, At, ReleaseInv
    <3>2. job' # NoJob /\ job' # Return(b, "topic", "WRITING_VECTOR")
      BY <3>1, ReturnFields DEF NoJob
    <3>3. status'[b] \in Working /\ run'[b]["topic"] = "RUNNING"
      BY <1>9, <3>2 DEF TopicPrepare, Refuse, ReleaseInv, TypeOK, Working, Stages
    <3> QED
      BY <3>1, <3>3 DEF WorkIsMarked, Stages
  <2> QED
    BY <2>1, <2>2, <2>3
<1>10. ASSUME NEW b \in Builds, TopicLink(b)
      PROVE  WorkIsMarked'
  BY <1>10, GotoFields, ReleaseAssumption DEF
       TopicLink, At, Parts, ReleaseInv, TypeOK, Job, JobPlaces, WorkIsMarked, Working, Stages
<1>11. ASSUME NEW b \in Builds, TopicFinish(b)
      PROVE  WorkIsMarked'
  BY <1>11, ReturnRests DEF TopicFinish
<1>12. ASSUME NEW b \in Builds, VectorPrepare(b)
      PROVE  WorkIsMarked'
  BY <1>12, GotoFields, ReleaseAssumption DEF
       VectorPrepare, Refuse, At, NoJob, ReleaseInv, TypeOK, Job, JobPlaces, WorkIsMarked,
       Working, Stages
<1>13. ASSUME NEW b \in Builds, VectorStore(b)
      PROVE  WorkIsMarked'
  BY <1>13, GotoFields, ReleaseAssumption DEF
       VectorStore, At, Rows, ReleaseInv, TypeOK, Job, JobPlaces, WorkIsMarked, Working, Stages
<1>14. ASSUME NEW b \in Builds, VectorUpsert(b)
      PROVE  WorkIsMarked'
  BY <1>14, GotoFields, ReleaseAssumption DEF
       VectorUpsert, At, Rows, ReleaseInv, TypeOK, Job, JobPlaces, WorkIsMarked, Working, Stages
<1>15. ASSUME NEW b \in Builds, VectorMark(b)
      PROVE  WorkIsMarked'
  BY <1>15, GotoFields, ReleaseAssumption DEF
       VectorMark, At, Rows, ReleaseInv, TypeOK, Job, JobPlaces, WorkIsMarked, Working, Stages
<1>16. ASSUME NEW b \in Builds, VectorReset(b)
      PROVE  WorkIsMarked'
  BY <1>16, GotoFields, ReleaseAssumption DEF
       VectorReset, At, Without, NoProfiles, Parts, Rows, ReleaseInv, TypeOK, Job, JobPlaces,
       WorkIsMarked, Working, Stages
<1>17. ASSUME NEW b \in Builds, VectorFinish(b)
      PROVE  WorkIsMarked'
  BY <1>17, ReleaseAssumption DEF
       VectorFinish, At, NoJob, Rows, ReleaseInv, TypeOK, Job, JobPlaces, WorkIsMarked, Working,
       Stages
<1>18. ASSUME NEW b \in Builds, NEW p \in Parts, FreezePart(b, p)
      PROVE  WorkIsMarked'
  BY <1>18, GotoFields, ReleaseAssumption DEF FreezePart, ReleaseInv, TypeOK, WorkIsMarked
<1>19. ASSUME NEW b \in Builds, FreezeDone(b)
      PROVE  WorkIsMarked'
  BY <1>19, GotoFields, ReleaseAssumption DEF
       FreezeDone, Begin, Parts, ReleaseInv, TypeOK, Job, JobPlaces, WorkIsMarked, Working, Stages
<1>20. ASSUME NEW b \in Builds, NEW p \in Parts, NeoWritePart(b, p)
      PROVE  WorkIsMarked'
  BY <1>20, GotoFields, ReleaseAssumption DEF NeoWritePart, ReleaseInv, TypeOK, WorkIsMarked
<1>21. ASSUME NEW b \in Builds, NeoMismatch(b)
      PROVE  WorkIsMarked'
  BY <1>21, ReleaseAssumption DEF
       NeoMismatch, FailRun, NoJob, ReleaseInv, TypeOK, Job, JobPlaces, WorkIsMarked, Working,
       Stages
<1>22. ASSUME NEW b \in Builds, EnsureExports(b)
      PROVE  WorkIsMarked'
  BY <1>22, GotoFields, ReleaseAssumption DEF
       EnsureExports, Begin, At, EmptyGraph, NoProfiles, Parts, ReleaseInv, TypeOK, Job,
       JobPlaces, WorkIsMarked, Working, Stages
<1>23. ASSUME NEW b \in Builds, RepairReset(b)
      PROVE  WorkIsMarked'
  BY <1>23, GotoFields, ReleaseAssumption DEF
       RepairReset, At, Without, NoProfiles, Parts, ReleaseInv, TypeOK, Job, JobPlaces,
       WorkIsMarked, Working, Stages
<1>24. ASSUME NEW b \in Builds, RepairUnprune(b)
      PROVE  WorkIsMarked'
  BY <1>24, ReleaseAssumption DEF
       RepairUnprune, At, NoJob, ReleaseInv, TypeOK, Job, JobPlaces, WorkIsMarked, Working, Stages
<1>25. ASSUME NEW b \in Builds, NEW g \in BOOLEAN, ValidateFinish(b, g)
      PROVE  WorkIsMarked'
  BY <1>25, ReleaseAssumption DEF
       ValidateFinish, At, NoJob, ReleaseInv, TypeOK, Job, JobPlaces, WorkIsMarked, Working,
       Stages
<1>26. ASSUME NEW b \in Builds, SetNeo4j(b)
      PROVE  WorkIsMarked'
  BY <1>26, GotoFields, ReleaseAssumption DEF
       SetNeo4j, At, ReleaseInv, TypeOK, Job, JobPlaces, WorkIsMarked, Working, Stages
<1>27. ASSUME NEW b \in Builds, SwitchAlias(b)
      PROVE  WorkIsMarked'
  BY <1>27, GotoFields, ReleaseAssumption DEF
       SwitchAlias, At, ReleaseInv, TypeOK, Job, JobPlaces, WorkIsMarked, Working, Stages
<1>28. ASSUME NEW b \in Builds, PromoteFinish(b)
      PROVE  WorkIsMarked'
  BY <1>28, ReleaseAssumption DEF
       PromoteFinish, At, NoJob, ReleaseInv, TypeOK, Job, JobPlaces, WorkIsMarked, Working, Stages
<1>29. ASSUME NEW b \in Builds, IngestFailed(b)
      PROVE  WorkIsMarked'
  BY <1>29, ReleaseAssumption DEF
       IngestFailed, NoJob, ReleaseInv, TypeOK, Job, JobPlaces, WorkIsMarked, Working, Stages
<1>30. ASSUME NEW b \in Builds, StageFail(b)
      PROVE  WorkIsMarked'
  BY <1>30, ReleaseAssumption DEF
       StageFail, FailRun, NoJob, ReleaseInv, TypeOK, Job, JobPlaces, WorkIsMarked, Working,
       Stages
<1>31. ASSUME NEW b \in Builds, PromoteFail(b)
      PROVE  WorkIsMarked'
  BY <1>31, ReleaseAssumption DEF
       PromoteFail, NoJob, ReleaseInv, TypeOK, Job, JobPlaces, WorkIsMarked, Working, Stages
<1>32. ASSUME NEW b \in Builds, CreateBuild(b)
      PROVE  WorkIsMarked'
  BY <1>32, ReleaseAssumption DEF
       CreateBuild, Begin, NoJob, ReleaseInv, TypeOK, Job, JobPlaces, WorkIsMarked, Working,
       Stages
<1>33. ASSUME NEW b \in Builds, ResumeRead(b)
      PROVE  WorkIsMarked'
  BY <1>33, ReleaseAssumption DEF ResumeRead, ReleaseInv, TypeOK, WorkIsMarked, Stages
<1>34. ASSUME NEW b \in Builds, ResumeLocked(b)
      PROVE  WorkIsMarked'
  BY <1>34, ReleaseAssumption DEF
       ResumeLocked, EntryStage, Begin, ResumeStage, NoJob, NoIntent, ReleaseInv, TypeOK, Job,
       JobPlaces, WorkIsMarked, Working, Stages
<1>35. ASSUME NEW b \in Builds, NEW s \in {"topic", "vector"}, StageCommand(b, s)
      PROVE  WorkIsMarked'
  BY <1>35, ReleaseAssumption DEF
       StageCommand, Begin, NoJob, ReleaseInv, TypeOK, Job, JobPlaces, WorkIsMarked, Working,
       Stages
<1>36. ASSUME NEW b \in Builds, Repair(b)
      PROVE  WorkIsMarked'
  BY <1>36, ReleaseAssumption DEF
       Repair, Begin, NoJob, ReleaseInv, TypeOK, Job, JobPlaces, WorkIsMarked, Working, Stages
<1>37. ASSUME NEW b \in Builds, NEW ch \in SUBSET Builds, Compact(b, ch)
      PROVE  WorkIsMarked'
  BY <1>37, ReleaseAssumption DEF Compact, ReleaseInv, TypeOK, WorkIsMarked, Stages
<1>38. ASSUME NEW b \in Builds, ValidatePrepare(b)
      PROVE  WorkIsMarked'
  BY <1>38, ReleaseAssumption DEF
       ValidatePrepare, Begin, NoJob, ReleaseInv, TypeOK, Job, JobPlaces, WorkIsMarked, Working,
       Stages
<1>39. ASSUME NEW b \in Builds, PromotePrepare(b)
      PROVE  WorkIsMarked'
  BY <1>39, ReleaseAssumption DEF
       PromotePrepare, Begin, NoJob, ReleaseInv, TypeOK, Job, JobPlaces, WorkIsMarked, Working,
       Stages
<1>40. ASSUME Crash
       PROVE  WorkIsMarked'
  BY <1>40, ReleaseAssumption DEF
       Crash, NoJob, ReleaseInv, TypeOK, Job, JobPlaces, WorkIsMarked, Working, Stages
<1> QED
  BY <1>1, <1>2, <1>3, <1>4, <1>5, <1>6, <1>7, <1>8, <1>9, <1>10, <1>11, <1>12, <1>13, <1>14,
     <1>15, <1>16, <1>17, <1>18, <1>19, <1>20, <1>21, <1>22, <1>23, <1>24, <1>25, <1>26, <1>27,
     <1>28, <1>29, <1>30, <1>31, <1>32, <1>33, <1>34, <1>35, <1>36, <1>37, <1>38, <1>39, <1>40 DEF
       Next, JobStep, Fault, Command

\* Store, upsert and mark are one batch.
LEMMA OrderStep ==
  ASSUME ReleaseInv, Next
  PROVE  UploadInOrder'
<1> USE DEF runVars, dataVars, graphVars, servedVars
<1>1. ASSUME NEW b \in Builds, IngestBegin(b)
      PROVE  UploadInOrder'
  <2>1. \/ job' = Return(b, "ingest", status[b]) \/ job' = NoJob
        \/ job' = Goto("ingest") \/ job' = Goto("snapshot")
    BY <1>1 DEF IngestBegin, Refuse
  <2>2. CASE job' = Return(b, "ingest", status[b]) \/ job' = NoJob
    BY <2>2, ReturnRests
  <2>3. CASE job' = Goto("ingest") \/ job' = Goto("snapshot")
    BY <1>1, <2>3, GotoFields DEF IngestBegin, At, ReleaseInv, UploadInOrder
  <2> QED
    BY <2>1, <2>2, <2>3
<1>2. ASSUME NEW b \in Builds, SnapshotsTaken(b)
      PROVE  UploadInOrder'
  BY <1>2, GotoFields, ReleaseAssumption DEF
       SnapshotsTaken, ReleaseInv, TypeOK, UploadInOrder, Batches
<1>3. ASSUME NEW b \in Builds, IngestDone(b)
      PROVE  UploadInOrder'
  BY <1>3, ReturnFields, ReleaseAssumption DEF
       IngestDone, ReleaseInv, TypeOK, UploadInOrder, Batches
<1>4. ASSUME NEW b \in Builds, CurationPrepare(b)
      PROVE  UploadInOrder'
  <2>1. job' = Return(b, "curation", status[b]) \/ job' = NoJob \/ job' = Goto("work")
    BY <1>4 DEF CurationPrepare, Refuse
  <2>2. CASE job' = Return(b, "curation", status[b]) \/ job' = NoJob
    BY <2>2, ReturnRests
  <2>3. CASE job' = Goto("work")
    BY <1>4, <2>3, GotoFields DEF CurationPrepare, At, ReleaseInv, UploadInOrder
  <2> QED
    BY <2>1, <2>2, <2>3
<1>5. ASSUME NEW b \in Builds, CurationFinish(b)
      PROVE  UploadInOrder'
  BY <1>5, ReturnFields, ReleaseAssumption DEF
       CurationFinish, ReleaseInv, TypeOK, UploadInOrder, Batches
<1>6. ASSUME NEW b \in Builds, GraphPrepare(b)
      PROVE  UploadInOrder'
  <2>1. job' = Return(b, "graph", status[b]) \/ job' = NoJob \/ job' = GotoFor("freeze", Parts)
    BY <1>6 DEF GraphPrepare, Refuse
  <2>2. CASE job' = Return(b, "graph", status[b]) \/ job' = NoJob
    BY <2>2, ReturnRests
  <2>3. CASE job' = GotoFor("freeze", Parts)
    BY <1>6, <2>3, GotoFields DEF GraphPrepare, At, ReleaseInv, UploadInOrder
  <2> QED
    BY <2>1, <2>2, <2>3
<1>7. ASSUME NEW b \in Builds, StartGraphWrite(b)
      PROVE  UploadInOrder'
  BY <1>7, GotoFields, ReleaseAssumption DEF
       StartGraphWrite, At, Parts, ReleaseInv, TypeOK, Job, JobPlaces, UploadInOrder, Rows,
       Batches
<1>8. ASSUME NEW b \in Builds, GraphFinish(b)
      PROVE  UploadInOrder'
  BY <1>8, ReturnFields, ReleaseAssumption DEF
       GraphFinish, ReleaseInv, TypeOK, UploadInOrder, Batches
<1>9. ASSUME NEW b \in Builds, TopicPrepare(b)
      PROVE  UploadInOrder'
  BY <1>9, GotoFields, ReturnFields, ReleaseAssumption DEF
       TopicPrepare, Refuse, Begin, At, NoJob, ReleaseInv, TypeOK, Job, JobPlaces, UploadInOrder,
       Rows, Batches
<1>10. ASSUME NEW b \in Builds, TopicLink(b)
      PROVE  UploadInOrder'
  BY <1>10, GotoFields, ReleaseAssumption DEF
       TopicLink, At, Parts, ReleaseInv, TypeOK, Job, JobPlaces, UploadInOrder, Rows, Batches
<1>11. ASSUME NEW b \in Builds, TopicFinish(b)
      PROVE  UploadInOrder'
  BY <1>11, ReturnFields, ReleaseAssumption DEF
       TopicFinish, ReleaseInv, TypeOK, UploadInOrder, Batches
<1>12. ASSUME NEW b \in Builds, VectorPrepare(b)
      PROVE  UploadInOrder'
  BY <1>12, GotoFields, ReleaseAssumption DEF
       VectorPrepare, Refuse, At, NoJob, ReleaseInv, TypeOK, Job, JobPlaces, UploadInOrder, Rows,
       Batches
<1>13. ASSUME NEW b \in Builds, VectorStore(b)
      PROVE  UploadInOrder'
  BY <1>13, GotoFields, ReleaseAssumption DEF
       VectorStore, At, Rows, ReleaseInv, TypeOK, Job, JobPlaces, UploadInOrder, Batches
<1>14. ASSUME NEW b \in Builds, VectorUpsert(b)
      PROVE  UploadInOrder'
  BY <1>14, GotoFields, ReleaseAssumption DEF
       VectorUpsert, At, Rows, ReleaseInv, TypeOK, Job, JobPlaces, UploadInOrder, Batches
<1>15. ASSUME NEW b \in Builds, VectorMark(b)
      PROVE  UploadInOrder'
  BY <1>15, GotoFields, ReleaseAssumption DEF
       VectorMark, ReleaseInv, TypeOK, UploadInOrder, Batches
<1>16. ASSUME NEW b \in Builds, VectorReset(b)
      PROVE  UploadInOrder'
  BY <1>16, GotoFields, ReleaseAssumption DEF
       VectorReset, At, Without, NoProfiles, Parts, Rows, ReleaseInv, TypeOK, Job, JobPlaces,
       UploadInOrder, Batches
<1>17. ASSUME NEW b \in Builds, VectorFinish(b)
      PROVE  UploadInOrder'
  BY <1>17, ReleaseAssumption DEF
       VectorFinish, At, NoJob, Rows, ReleaseInv, TypeOK, Job, JobPlaces, UploadInOrder, Batches
<1>18. ASSUME NEW b \in Builds, NEW p \in Parts, FreezePart(b, p)
      PROVE  UploadInOrder'
  BY <1>18, GotoFields, ReleaseAssumption DEF
       FreezePart, ReleaseInv, TypeOK, UploadInOrder, Rows, Batches
<1>19. ASSUME NEW b \in Builds, FreezeDone(b)
      PROVE  UploadInOrder'
  BY <1>19, GotoFields, ReleaseAssumption DEF
       FreezeDone, Begin, Parts, ReleaseInv, TypeOK, Job, JobPlaces, UploadInOrder, Rows, Batches
<1>20. ASSUME NEW b \in Builds, NEW p \in Parts, NeoWritePart(b, p)
      PROVE  UploadInOrder'
  BY <1>20, GotoFields, ReleaseAssumption DEF
       NeoWritePart, ReleaseInv, TypeOK, JobPlaces, UploadInOrder, Rows, Batches
<1>21. ASSUME NEW b \in Builds, NeoMismatch(b)
      PROVE  UploadInOrder'
  BY <1>21, ReleaseAssumption DEF
       NeoMismatch, FailRun, NoJob, ReleaseInv, TypeOK, Job, JobPlaces, UploadInOrder, Rows,
       Batches
<1>22. ASSUME NEW b \in Builds, EnsureExports(b)
      PROVE  UploadInOrder'
  BY <1>22, GotoFields, ReleaseAssumption DEF
       EnsureExports, Begin, At, EmptyGraph, NoProfiles, Parts, ReleaseInv, TypeOK, Job,
       JobPlaces, UploadInOrder, Rows, Batches
<1>23. ASSUME NEW b \in Builds, RepairReset(b)
      PROVE  UploadInOrder'
  BY <1>23, GotoFields, ReleaseAssumption DEF
       RepairReset, At, Without, NoProfiles, Parts, ReleaseInv, TypeOK, Job, JobPlaces,
       UploadInOrder, Rows, Batches
<1>24. ASSUME NEW b \in Builds, RepairUnprune(b)
      PROVE  UploadInOrder'
  BY <1>24, ReleaseAssumption DEF
       RepairUnprune, At, NoJob, ReleaseInv, TypeOK, Job, JobPlaces, UploadInOrder, Rows, Batches
<1>25. ASSUME NEW b \in Builds, NEW g \in BOOLEAN, ValidateFinish(b, g)
      PROVE  UploadInOrder'
  BY <1>25, ReleaseAssumption DEF
       ValidateFinish, At, NoJob, ReleaseInv, TypeOK, Job, JobPlaces, UploadInOrder, Rows, Batches
<1>26. ASSUME NEW b \in Builds, SetNeo4j(b)
      PROVE  UploadInOrder'
  BY <1>26, GotoFields, ReleaseAssumption DEF SetNeo4j, ReleaseInv, TypeOK, UploadInOrder, Batches
<1>27. ASSUME NEW b \in Builds, SwitchAlias(b)
      PROVE  UploadInOrder'
  BY <1>27, GotoFields, ReleaseAssumption DEF
       SwitchAlias, ReleaseInv, TypeOK, UploadInOrder, Batches
<1>28. ASSUME NEW b \in Builds, PromoteFinish(b)
      PROVE  UploadInOrder'
  BY <1>28, ReleaseAssumption DEF
       PromoteFinish, At, NoJob, ReleaseInv, TypeOK, Job, JobPlaces, UploadInOrder, Rows, Batches
<1>29. ASSUME NEW b \in Builds, IngestFailed(b)
      PROVE  UploadInOrder'
  BY <1>29, ReleaseAssumption DEF
       IngestFailed, NoJob, ReleaseInv, TypeOK, Job, JobPlaces, UploadInOrder, Rows, Batches
<1>30. ASSUME NEW b \in Builds, StageFail(b)
      PROVE  UploadInOrder'
  BY <1>30, ReleaseAssumption DEF
       StageFail, FailRun, NoJob, ReleaseInv, TypeOK, Job, JobPlaces, UploadInOrder, Rows, Batches
<1>31. ASSUME NEW b \in Builds, PromoteFail(b)
      PROVE  UploadInOrder'
  BY <1>31, ReleaseAssumption DEF
       PromoteFail, NoJob, ReleaseInv, TypeOK, Job, JobPlaces, UploadInOrder, Rows, Batches
<1>32. ASSUME NEW b \in Builds, CreateBuild(b)
      PROVE  UploadInOrder'
  BY <1>32, ReleaseAssumption DEF
       CreateBuild, Begin, NoJob, ReleaseInv, TypeOK, Job, JobPlaces, UploadInOrder, Rows, Batches
<1>33. ASSUME NEW b \in Builds, ResumeRead(b)
      PROVE  UploadInOrder'
  BY <1>33, ReleaseAssumption DEF
       ResumeRead, ReleaseInv, TypeOK, Job, JobPlaces, UploadInOrder, Rows, Batches
<1>34. ASSUME NEW b \in Builds, ResumeLocked(b)
      PROVE  UploadInOrder'
  BY <1>34, ReleaseAssumption DEF
       ResumeLocked, EntryStage, Begin, ResumeStage, NoJob, NoIntent, ReleaseInv, TypeOK, Job,
       JobPlaces, UploadInOrder, Rows, Batches
<1>35. ASSUME NEW b \in Builds, NEW s \in {"topic", "vector"}, StageCommand(b, s)
      PROVE  UploadInOrder'
  BY <1>35, ReleaseAssumption DEF
       StageCommand, Begin, NoJob, ReleaseInv, TypeOK, Job, JobPlaces, UploadInOrder, Rows,
       Batches
<1>36. ASSUME NEW b \in Builds, Repair(b)
      PROVE  UploadInOrder'
  BY <1>36, ReleaseAssumption DEF
       Repair, Begin, NoJob, ReleaseInv, TypeOK, Job, JobPlaces, UploadInOrder, Rows, Batches
<1>37. ASSUME NEW b \in Builds, NEW ch \in SUBSET Builds, Compact(b, ch)
      PROVE  UploadInOrder'
  BY <1>37, ReleaseAssumption DEF
       Compact, ReleaseInv, TypeOK, JobPlaces, UploadInOrder, Rows, Batches
<1>38. ASSUME NEW b \in Builds, ValidatePrepare(b)
      PROVE  UploadInOrder'
  BY <1>38, ReleaseAssumption DEF
       ValidatePrepare, Begin, NoJob, ReleaseInv, TypeOK, Job, JobPlaces, UploadInOrder, Rows,
       Batches
<1>39. ASSUME NEW b \in Builds, PromotePrepare(b)
      PROVE  UploadInOrder'
  BY <1>39, ReleaseAssumption DEF
       PromotePrepare, Begin, NoJob, ReleaseInv, TypeOK, Job, JobPlaces, UploadInOrder, Rows,
       Batches
<1>40. ASSUME Crash
       PROVE  UploadInOrder'
  BY <1>40, ReleaseAssumption DEF
       Crash, NoJob, ReleaseInv, TypeOK, Job, JobPlaces, UploadInOrder, Rows, Batches
<1> QED
  BY <1>1, <1>2, <1>3, <1>4, <1>5, <1>6, <1>7, <1>8, <1>9, <1>10, <1>11, <1>12, <1>13, <1>14,
     <1>15, <1>16, <1>17, <1>18, <1>19, <1>20, <1>21, <1>22, <1>23, <1>24, <1>25, <1>26, <1>27,
     <1>28, <1>29, <1>30, <1>31, <1>32, <1>33, <1>34, <1>35, <1>36, <1>37, <1>38, <1>39, <1>40 DEF
       Next, JobStep, Fault, Command

\* What the checkpoint of the upload promises about profiles and links.
LEMMA CurrentStep ==
  ASSUME ReleaseInv, Next
  PROVE  UploadsCurrent'
<1> USE DEF runVars, dataVars, graphVars, servedVars
<1>1. UNCHANGED <<run, uploaded, profile, links>> => UploadsCurrent'
  BY DEF ReleaseInv, UploadsCurrent
<1>2. CASE \/ Crash
           \/ \E b \in Builds :
                \/ IngestBegin(b) \/ SnapshotsTaken(b) \/ IngestDone(b) \/ StartGraphWrite(b)
                \/ VectorUpsert(b) \/ VectorReset(b) \/ FreezeDone(b) \/ EnsureExports(b)
                \/ RepairReset(b) \/ RepairUnprune(b) \/ SetNeo4j(b) \/ SwitchAlias(b)
                \/ PromoteFinish(b) \/ IngestFailed(b) \/ PromoteFail(b) \/ CreateBuild(b)
                \/ ResumeRead(b) \/ ResumeLocked(b) \/ ValidatePrepare(b) \/ PromotePrepare(b)
                \/ \E p \in Parts : FreezePart(b, p)
                \/ \E p \in Parts : NeoWritePart(b, p)
                \/ \E g \in BOOLEAN : ValidateFinish(b, g)
                \/ \E s \in {"topic", "vector"} : StageCommand(b, s)
                \/ \E ch \in SUBSET Builds : Compact(b, ch)
  <2>1. UNCHANGED <<run, uploaded, profile, links>>
    BY ZenonT(60), <1>2 DEF
         IngestBegin, SnapshotsTaken, IngestDone, StartGraphWrite, VectorUpsert, VectorReset,
         FreezePart, FreezeDone, NeoWritePart, EnsureExports, RepairReset, RepairUnprune,
         ValidateFinish, SetNeo4j, SwitchAlias, PromoteFinish, IngestFailed, PromoteFail,
         CreateBuild, ResumeRead, ResumeLocked, StageCommand, Compact, ValidatePrepare,
         PromotePrepare, Crash, Refuse, FailRun
  <2> QED
    BY <1>1, <2>1
<1>3. ASSUME NEW b \in Builds, CurationPrepare(b)
      PROVE  UploadsCurrent'
  <2>1. run' \in {run, [run EXCEPT ![b]["curation"] = "RUNNING"]} /\ UNCHANGED dataVars
    BY <1>3 DEF CurationPrepare, Refuse
  <2>2. \A c \in Builds, s \in Stages : run'[c][s] = "COMPLETED" => run[c][s] = "COMPLETED"
    <3>1. CASE run' = run
      BY <3>1
    <3>2. CASE run' = [run EXCEPT ![b]["curation"] = "RUNNING"]
      BY <3>2 DEF ReleaseInv, TypeOK
    <3> QED
      BY <2>1, <3>1, <3>2
  <2>3. run[b]["curation"] = "COMPLETED" => run'[b]["curation"] = "COMPLETED"
    BY <1>3 DEF CurationPrepare, Refuse, ReleaseInv, TypeOK, Stages
  <2>4. \A c \in Builds \ {b} : run'[c] = run[c]
    BY <2>1 DEF ReleaseInv, TypeOK
  <2> QED
    BY <2>1, <2>2, <2>3, <2>4 DEF ReleaseInv, UploadsCurrent, Stages
<1>4. ASSUME NEW b \in Builds, CurationFinish(b)
      PROVE  UploadsCurrent'
  BY <1>4, ReturnFields, ReleaseAssumption DEF CurationFinish, ReleaseInv, TypeOK, UploadsCurrent
<1>5. ASSUME NEW b \in Builds, GraphPrepare(b)
      PROVE  UploadsCurrent'
  <2>1. run' \in {run, [run EXCEPT ![b]["graph"] = "RUNNING"]} /\ UNCHANGED dataVars
    BY <1>5 DEF GraphPrepare, Refuse
  <2>2. \A c \in Builds, s \in Stages : run'[c][s] = "COMPLETED" => run[c][s] = "COMPLETED"
    <3>1. CASE run' = run
      BY <3>1
    <3>2. CASE run' = [run EXCEPT ![b]["graph"] = "RUNNING"]
      BY <3>2 DEF ReleaseInv, TypeOK
    <3> QED
      BY <2>1, <3>1, <3>2
  <2>3. run[b]["curation"] = "COMPLETED" => run'[b]["curation"] = "COMPLETED"
    BY <1>5 DEF GraphPrepare, Refuse, ReleaseInv, TypeOK, Stages
  <2>4. \A c \in Builds \ {b} : run'[c] = run[c]
    BY <2>1 DEF ReleaseInv, TypeOK
  <2> QED
    BY <2>1, <2>2, <2>3, <2>4 DEF ReleaseInv, UploadsCurrent, Stages
<1>6. ASSUME NEW b \in Builds, GraphFinish(b)
      PROVE  UploadsCurrent'
  BY <1>6, ReturnFields, ReleaseAssumption DEF GraphFinish, ReleaseInv, TypeOK, UploadsCurrent
<1>7. ASSUME NEW b \in Builds, TopicPrepare(b)
      PROVE  UploadsCurrent'
  <2>1. run' \in {run, [run EXCEPT ![b]["topic"] = "RUNNING"]} /\ UNCHANGED dataVars
    BY <1>7 DEF TopicPrepare, Refuse
  <2>2. \A c \in Builds, s \in Stages : run'[c][s] = "COMPLETED" => run[c][s] = "COMPLETED"
    <3>1. CASE run' = run
      BY <3>1
    <3>2. CASE run' = [run EXCEPT ![b]["topic"] = "RUNNING"]
      BY <3>2 DEF ReleaseInv, TypeOK
    <3> QED
      BY <2>1, <3>1, <3>2
  <2>3. run[b]["curation"] = "COMPLETED" => run'[b]["curation"] = "COMPLETED"
    BY <1>7 DEF TopicPrepare, Refuse, ReleaseInv, TypeOK, Stages
  <2>4. \A c \in Builds \ {b} : run'[c] = run[c]
    BY <2>1 DEF ReleaseInv, TypeOK
  <2> QED
    BY <2>1, <2>2, <2>3, <2>4 DEF ReleaseInv, UploadsCurrent, Stages
<1>8. ASSUME NEW b \in Builds, TopicLink(b)
      PROVE  UploadsCurrent'
  BY <1>8, GotoFields, ReleaseAssumption DEF
       TopicLink, At, Parts, ReleaseInv, TypeOK, JobPlaces, WorkIsMarked, UploadInOrder,
       UploadsCurrent, Rows, Batches, Stages
<1>9. ASSUME NEW b \in Builds, TopicFinish(b)
      PROVE  UploadsCurrent'
  BY <1>9, ReturnFields, ReleaseAssumption DEF
       TopicFinish, ReleaseInv, TypeOK, UploadsCurrent, Batches, Stages
<1>10. ASSUME NEW b \in Builds, VectorPrepare(b)
      PROVE  UploadsCurrent'
  <2>1. run' \in {run, [run EXCEPT ![b]["vector"] = "RUNNING"]} /\ UNCHANGED dataVars
    BY <1>10 DEF VectorPrepare, Refuse
  <2>2. \A c \in Builds, s \in Stages : run'[c][s] = "COMPLETED" => run[c][s] = "COMPLETED"
    <3>1. CASE run' = run
      BY <3>1
    <3>2. CASE run' = [run EXCEPT ![b]["vector"] = "RUNNING"]
      BY <3>2 DEF ReleaseInv, TypeOK
    <3> QED
      BY <2>1, <3>1, <3>2
  <2>3. run[b]["curation"] = "COMPLETED" => run'[b]["curation"] = "COMPLETED"
    BY <1>10 DEF VectorPrepare, Refuse, ReleaseInv, TypeOK, Stages
  <2>4. \A c \in Builds \ {b} : run'[c] = run[c]
    BY <2>1 DEF ReleaseInv, TypeOK
  <2> QED
    BY <2>1, <2>2, <2>3, <2>4 DEF ReleaseInv, UploadsCurrent, Stages
<1>11. ASSUME NEW b \in Builds, VectorStore(b)
      PROVE  UploadsCurrent'
  BY <1>11, GotoFields, ReleaseAssumption DEF
       VectorStore, At, Rows, ReleaseInv, TypeOK, JobPlaces, WorkIsMarked, UploadInOrder,
       UploadsCurrent, Batches, Stages
<1>12. ASSUME NEW b \in Builds, VectorMark(b)
      PROVE  UploadsCurrent'
  BY <1>12, GotoFields, ReleaseAssumption DEF
       VectorMark, At, Rows, ReleaseInv, TypeOK, JobPlaces, WorkIsMarked, UploadInOrder,
       UploadsCurrent, Batches, Stages
<1>13. ASSUME NEW b \in Builds, VectorFinish(b)
      PROVE  UploadsCurrent'
  BY <1>13, ReleaseAssumption DEF
       VectorFinish, At, NoJob, Rows, ReleaseInv, TypeOK, JobPlaces, WorkIsMarked, UploadInOrder,
       UploadsCurrent, Batches, Stages
<1>14. ASSUME NEW b \in Builds, NeoMismatch(b)
      PROVE  UploadsCurrent'
  BY <1>14, ReleaseAssumption DEF
       NeoMismatch, FailRun, NoJob, ReleaseInv, TypeOK, JobPlaces, WorkIsMarked, UploadInOrder,
       UploadsCurrent, Rows, Batches, Stages
<1>15. ASSUME NEW b \in Builds, StageFail(b)
      PROVE  UploadsCurrent'
  BY <1>15, ReleaseAssumption DEF
       StageFail, FailRun, NoJob, ReleaseInv, TypeOK, JobPlaces, WorkIsMarked, UploadInOrder,
       UploadsCurrent, Rows, Batches, Stages
<1>16. ASSUME NEW b \in Builds, Repair(b)
      PROVE  UploadsCurrent'
  BY <1>16, ReleaseAssumption DEF Repair, ReleaseInv, TypeOK, UploadsCurrent, Stages
<1> QED
  BY <1>2, <1>3, <1>4, <1>5, <1>6, <1>7, <1>8, <1>9, <1>10, <1>11, <1>12, <1>13, <1>14, <1>15,
     <1>16 DEF
       Next, JobStep, Fault, Command

\* Incompatible links never come back to a build that was validated.
LEMMA SafeStep ==
  ASSUME ReleaseInv, Next
  PROVE  SafePromotion'
<1> USE DEF runVars, dataVars, graphVars, servedVars
<1>1. UNCHANGED <<status, promo, links>> => SafePromotion'
  BY DEF ReleaseInv, SafePromotion
<1>2. CASE \/ Crash
           \/ \E b \in Builds :
                \/ GraphPrepare(b) \/ VectorStore(b) \/ VectorUpsert(b) \/ VectorMark(b)
                \/ VectorReset(b) \/ FreezeDone(b) \/ EnsureExports(b) \/ RepairReset(b)
                \/ RepairUnprune(b) \/ SetNeo4j(b) \/ SwitchAlias(b) \/ ResumeRead(b)
                \/ ResumeLocked(b)
                \/ \E p \in Parts : FreezePart(b, p)
                \/ \E p \in Parts : NeoWritePart(b, p)
                \/ \E s \in {"topic", "vector"} : StageCommand(b, s)
                \/ \E ch \in SUBSET Builds : Compact(b, ch)
  <2>1. UNCHANGED <<status, promo, links>>
    BY ZenonT(60), <1>2 DEF
         GraphPrepare, VectorStore, VectorUpsert, VectorMark, VectorReset, FreezePart, FreezeDone,
         NeoWritePart, EnsureExports, RepairReset, RepairUnprune, SetNeo4j, SwitchAlias,
         ResumeRead, ResumeLocked, StageCommand, Compact, Crash, Refuse, FailRun
  <2> QED
    BY <1>1, <2>1
<1>3. ASSUME NEW b \in Builds, IngestBegin(b)
      PROVE  SafePromotion'
  BY <1>3, GotoFields, ReturnFields DEF IngestBegin, ReleaseInv, TypeOK, SafePromotion
<1>4. ASSUME NEW b \in Builds, SnapshotsTaken(b)
      PROVE  SafePromotion'
  BY <1>4, GotoFields DEF SnapshotsTaken, ReleaseInv, TypeOK, SafePromotion, ChecksPass
<1>5. ASSUME NEW b \in Builds, IngestDone(b)
      PROVE  SafePromotion'
  BY <1>5, ReturnFields DEF IngestDone, ReleaseInv, TypeOK, SafePromotion, ChecksPass
<1>6. ASSUME NEW b \in Builds, CurationPrepare(b)
      PROVE  SafePromotion'
  BY <1>6, GotoFields, ReturnFields DEF
       CurationPrepare, Refuse, Begin, At, NoJob, ReleaseInv, TypeOK, WorkIsMarked, SafePromotion,
       ChecksPass
<1>7. ASSUME NEW b \in Builds, CurationFinish(b)
      PROVE  SafePromotion'
  BY <1>7, ReturnFields DEF CurationFinish, ReleaseInv, TypeOK, SafePromotion, ChecksPass
<1>8. ASSUME NEW b \in Builds, StartGraphWrite(b)
      PROVE  SafePromotion'
  BY <1>8, GotoFields DEF StartGraphWrite, ReleaseInv, TypeOK, SafePromotion, ChecksPass
<1>9. ASSUME NEW b \in Builds, GraphFinish(b)
      PROVE  SafePromotion'
  BY <1>9, ReturnFields DEF GraphFinish, ReleaseInv, TypeOK, SafePromotion, ChecksPass
<1>10. ASSUME NEW b \in Builds, TopicPrepare(b)
      PROVE  SafePromotion'
  BY <1>10, GotoFields, ReturnFields DEF
       TopicPrepare, Refuse, Begin, At, NoJob, ReleaseInv, TypeOK, WorkIsMarked, SafePromotion,
       ChecksPass
<1>11. ASSUME NEW b \in Builds, TopicLink(b)
      PROVE  SafePromotion'
  BY <1>11, GotoFields DEF TopicLink, ReleaseInv, TypeOK, SafePromotion, ChecksPass
<1>12. ASSUME NEW b \in Builds, TopicFinish(b)
      PROVE  SafePromotion'
  BY <1>12, ReturnFields DEF TopicFinish, ReleaseInv, TypeOK, SafePromotion, ChecksPass
<1>13. ASSUME NEW b \in Builds, VectorPrepare(b)
      PROVE  SafePromotion'
  BY <1>13, GotoFields DEF
       VectorPrepare, Refuse, At, NoJob, ReleaseInv, TypeOK, WorkIsMarked, SafePromotion,
       ChecksPass
<1>14. ASSUME NEW b \in Builds, VectorFinish(b)
      PROVE  SafePromotion'
  BY <1>14 DEF VectorFinish, ReleaseInv, TypeOK, WorkIsMarked, SafePromotion, ChecksPass
<1>15. ASSUME NEW b \in Builds, NeoMismatch(b)
      PROVE  SafePromotion'
  BY <1>15 DEF
       NeoMismatch, FailRun, NoJob, ReleaseInv, TypeOK, WorkIsMarked, SafePromotion, ChecksPass
<1>16. ASSUME NEW b \in Builds, NEW g \in BOOLEAN, ValidateFinish(b, g)
      PROVE  SafePromotion'
  BY <1>16 DEF ValidateFinish, ReleaseInv, TypeOK, WorkIsMarked, SafePromotion, ChecksPass
<1>17. ASSUME NEW b \in Builds, PromoteFinish(b)
      PROVE  SafePromotion'
  BY <1>17 DEF
       PromoteFinish, At, NoJob, ReleaseInv, TypeOK, WorkIsMarked, SafePromotion, ChecksPass
<1>18. ASSUME NEW b \in Builds, IngestFailed(b)
      PROVE  SafePromotion'
  BY <1>18 DEF IngestFailed, ReleaseInv, TypeOK, SafePromotion, ChecksPass
<1>19. ASSUME NEW b \in Builds, StageFail(b)
      PROVE  SafePromotion'
  BY <1>19 DEF
       StageFail, FailRun, NoJob, ReleaseInv, TypeOK, WorkIsMarked, SafePromotion, ChecksPass
<1>20. ASSUME NEW b \in Builds, PromoteFail(b)
      PROVE  SafePromotion'
  BY <1>20 DEF PromoteFail, NoJob, ReleaseInv, TypeOK, WorkIsMarked, SafePromotion, ChecksPass
<1>21. ASSUME NEW b \in Builds, CreateBuild(b)
      PROVE  SafePromotion'
  BY <1>21 DEF CreateBuild, ReleaseInv, TypeOK, WorkIsMarked, SafePromotion, ChecksPass
<1>22. ASSUME NEW b \in Builds, Repair(b)
      PROVE  SafePromotion'
  BY <1>22 DEF Repair, ReleaseInv, TypeOK, WorkIsMarked, SafePromotion, ChecksPass
<1>23. ASSUME NEW b \in Builds, ValidatePrepare(b)
      PROVE  SafePromotion'
  BY <1>23 DEF ValidatePrepare, ReleaseInv, TypeOK, WorkIsMarked, SafePromotion, ChecksPass
<1>24. ASSUME NEW b \in Builds, PromotePrepare(b)
      PROVE  SafePromotion'
  BY <1>24 DEF PromotePrepare, ReleaseInv, TypeOK, WorkIsMarked, SafePromotion, ChecksPass
<1> QED
  BY <1>2, <1>3, <1>4, <1>5, <1>6, <1>7, <1>8, <1>9, <1>10, <1>11, <1>12, <1>13, <1>14, <1>15,
     <1>16, <1>17, <1>18, <1>19, <1>20, <1>21, <1>22, <1>23, <1>24 DEF
       Next, JobStep, Fault, Command

\* A topic checkpoint is only written with rows, and removed with them.
LEMMA RowsStep ==
  ASSUME ReleaseInv, Next
  PROVE  DoneHasRows'
<1> USE DEF runVars, dataVars, graphVars, servedVars
<1>1. UNCHANGED <<neoDone, export>> => DoneHasRows'
  BY DEF ReleaseInv, DoneHasRows
<1>2. CASE \E b \in Builds :
                \/ IngestBegin(b) \/ SnapshotsTaken(b) \/ IngestDone(b) \/ CurationPrepare(b)
                \/ CurationFinish(b) \/ GraphPrepare(b) \/ StartGraphWrite(b) \/ GraphFinish(b)
                \/ TopicPrepare(b) \/ TopicLink(b) \/ TopicFinish(b) \/ VectorPrepare(b)
                \/ VectorStore(b) \/ VectorUpsert(b) \/ VectorMark(b) \/ VectorFinish(b)
                \/ FreezeDone(b) \/ NeoMismatch(b) \/ RepairUnprune(b)
                \/ \E g \in BOOLEAN : ValidateFinish(b, g)
                \/ SetNeo4j(b) \/ SwitchAlias(b) \/ PromoteFinish(b)
  <2>1. UNCHANGED <<neoDone, export>>
    BY ZenonT(60), <1>2 DEF
         IngestBegin, SnapshotsTaken, IngestDone, CurationPrepare, CurationFinish, GraphPrepare,
         StartGraphWrite, GraphFinish, TopicPrepare, TopicLink, TopicFinish, VectorPrepare,
         VectorStore, VectorUpsert, VectorMark, VectorFinish, FreezeDone, NeoMismatch,
         RepairUnprune, ValidateFinish, SetNeo4j, SwitchAlias, PromoteFinish, Refuse, FailRun
  <2> QED
    BY <1>1, <2>1
<1>9. CASE \/ Crash
           \/ \E b \in Builds :
                \/ IngestFailed(b) \/ StageFail(b) \/ PromoteFail(b) \/ CreateBuild(b)
                \/ ResumeRead(b) \/ ResumeLocked(b) \/ Repair(b)
                \/ \E s \in {"topic", "vector"} : StageCommand(b, s)
                \/ ValidatePrepare(b) \/ PromotePrepare(b)
  <2>1. UNCHANGED <<neoDone, export>>
    BY <1>9 DEF
         Crash, IngestFailed, StageFail, PromoteFail, CreateBuild, ResumeRead, ResumeLocked,
         Repair, StageCommand, ValidatePrepare, PromotePrepare, FailRun
  <2> QED
    BY <1>1, <2>1
<1>3. ASSUME NEW b \in Builds, VectorReset(b)
      PROVE  DoneHasRows'
  BY <1>3, GotoFields DEF
       VectorReset, At, Without, NoProfiles, Parts, Rows, ReleaseInv, TypeOK, DoneHasRows,
       CheckpointsTruthful
<1>4. ASSUME NEW b \in Builds, NEW p \in Parts, FreezePart(b, p)
      PROVE  DoneHasRows'
  BY <1>4, GotoFields DEF
       FreezePart, NextPart, Frozen, Parts, ReleaseInv, TypeOK, DoneHasRows, CheckpointsTruthful
<1>5. ASSUME NEW b \in Builds, NEW p \in Parts, NeoWritePart(b, p)
      PROVE  DoneHasRows'
  BY <1>5, GotoFields DEF
       NeoWritePart, NextPart, Written, HasRows, Parts, ReleaseInv, TypeOK, DoneHasRows,
       CheckpointsTruthful
<1>6. ASSUME NEW b \in Builds, EnsureExports(b)
      PROVE  DoneHasRows'
  <2>1. CASE pruned[b]
    BY <1>6, <2>1 DEF EnsureExports, EmptyGraph, NoProfiles, ReleaseInv, TypeOK, DoneHasRows
  <2>2. CASE ~pruned[b]
    BY <1>6, <2>2 DEF EnsureExports, ReleaseInv, TypeOK, DoneHasRows
  <2> QED
    BY <2>1, <2>2
<1>7. ASSUME NEW b \in Builds, RepairReset(b)
      PROVE  DoneHasRows'
  BY <1>7, GotoFields DEF RepairReset, ReleaseInv, TypeOK, DoneHasRows
<1>8. ASSUME NEW b \in Builds, NEW ch \in SUBSET Builds, Compact(b, ch)
      PROVE  DoneHasRows'
  BY <1>8 DEF Compact, NoJob, ReleaseInv, TypeOK, DoneHasRows, CheckpointsTruthful
<1> QED
  BY <1>2, <1>3, <1>4, <1>5, <1>6, <1>7, <1>8, <1>9 DEF Next, JobStep, Fault, Command

\* No step lets a checkpoint run ahead of its store.
LEMMA CheckpointsStep ==
  ASSUME ReleaseInv, Next
  PROVE  CheckpointsTruthful'
<1> USE DEF runVars, dataVars, graphVars, servedVars
<1>1. UNCHANGED <<uploaded, points, profile, neoDone, export, neo>> => CheckpointsTruthful'
  BY DEF ReleaseInv, CheckpointsTruthful
<1>2. CASE \/ Crash
           \/ \E b \in Builds :
                \/ IngestBegin(b) \/ SnapshotsTaken(b) \/ IngestDone(b) \/ CurationPrepare(b)
                \/ CurationFinish(b) \/ GraphPrepare(b) \/ StartGraphWrite(b) \/ GraphFinish(b)
                \/ TopicPrepare(b) \/ TopicLink(b) \/ VectorPrepare(b) \/ VectorFinish(b)
                \/ FreezeDone(b) \/ NeoMismatch(b) \/ RepairUnprune(b) \/ SetNeo4j(b)
                \/ SwitchAlias(b) \/ PromoteFinish(b) \/ IngestFailed(b) \/ StageFail(b)
                \/ PromoteFail(b) \/ CreateBuild(b) \/ ResumeRead(b) \/ ResumeLocked(b)
                \/ ValidatePrepare(b) \/ PromotePrepare(b)
                \/ \E g \in BOOLEAN : ValidateFinish(b, g)
                \/ \E s \in {"topic", "vector"} : StageCommand(b, s)
  <2>1. UNCHANGED <<uploaded, points, profile, neoDone, export, neo>>
    BY ZenonT(60), <1>2 DEF
         IngestBegin, SnapshotsTaken, IngestDone, CurationPrepare, CurationFinish, GraphPrepare,
         StartGraphWrite, GraphFinish, TopicPrepare, TopicLink, VectorPrepare, VectorFinish,
         FreezeDone, NeoMismatch, RepairUnprune, ValidateFinish, SetNeo4j, SwitchAlias,
         PromoteFinish, IngestFailed, StageFail, PromoteFail, CreateBuild, ResumeRead,
         ResumeLocked, StageCommand, ValidatePrepare, PromotePrepare, Crash, Refuse, FailRun
  <2> QED
    BY <1>1, <2>1
<1>3. ASSUME NEW b \in Builds, TopicFinish(b)
      PROVE  CheckpointsTruthful'
  <2>1. uploaded' = [uploaded EXCEPT ![b] = 0] /\ UNCHANGED <<points, profile, neoDone, export, neo>>
    BY <1>3 DEF TopicFinish
  <2>2. \A c \in Builds : uploaded'[c] = 0 \/ uploaded'[c] = uploaded[c]
    BY <2>1 DEF ReleaseInv, TypeOK
  <2> QED
    BY <2>1, <2>2 DEF ReleaseInv, CheckpointsTruthful
<1>4. ASSUME NEW b \in Builds, VectorStore(b)
      PROVE  CheckpointsTruthful'
  <2>1. /\ profile' = [profile EXCEPT ![b][uploaded[b] + 1] = links[b]]
        /\ UNCHANGED <<uploaded, points, neoDone, export, neo>>
    BY <1>4 DEF VectorStore
  <2>2. \A c \in Builds : \A k \in 1..uploaded[c] : profile'[c][k] = profile[c][k]
    BY <2>1 DEF ReleaseInv, TypeOK
  <2> QED
    BY <2>1, <2>2 DEF ReleaseInv, CheckpointsTruthful
<1>5. ASSUME NEW b \in Builds, VectorUpsert(b)
      PROVE  CheckpointsTruthful'
  <2>1. /\ points' = [points EXCEPT ![b][uploaded[b] + 1] = profile[b][uploaded[b] + 1]]
        /\ UNCHANGED <<uploaded, profile, neoDone, export, neo>>
    BY <1>5 DEF VectorUpsert
  <2>2. \A c \in Builds : \A k \in 1..uploaded[c] : points'[c][k] = points[c][k]
    BY <2>1 DEF ReleaseInv, TypeOK
  <2> QED
    BY <2>1, <2>2 DEF ReleaseInv, CheckpointsTruthful
<1>6. ASSUME NEW b \in Builds, VectorMark(b)
      PROVE  CheckpointsTruthful'
  BY <1>6, GotoFields, ReleaseAssumption DEF
       VectorMark, At, Rows, ReleaseInv, TypeOK, UploadInOrder, SafePromotion, DoneHasRows,
       CheckpointsTruthful, Batches, Graph
<1>7. ASSUME NEW b \in Builds, VectorReset(b)
      PROVE  CheckpointsTruthful'
  BY <1>7, GotoFields, ReleaseAssumption DEF
       VectorReset, At, Without, NoProfiles, Parts, Rows, ReleaseInv, TypeOK, UploadInOrder,
       SafePromotion, DoneHasRows, CheckpointsTruthful, Batches, Graph
<1>8. ASSUME NEW b \in Builds, NEW p \in Parts, FreezePart(b, p)
      PROVE  CheckpointsTruthful'
  BY <1>8, GotoFields, ReleaseAssumption DEF
       FreezePart, NextPart, Frozen, Parts, ReleaseInv, TypeOK, UploadInOrder, SafePromotion,
       DoneHasRows, CheckpointsTruthful, Rows, Batches, Graph
<1>9. ASSUME NEW b \in Builds, NEW p \in Parts, NeoWritePart(b, p)
      PROVE  CheckpointsTruthful'
  BY <1>9, GotoFields, ReleaseAssumption DEF
       NeoWritePart, NextPart, Written, HasRows, Parts, ReleaseInv, TypeOK, UploadInOrder,
       SafePromotion, DoneHasRows, CheckpointsTruthful, Rows, Batches, Graph
<1>10. ASSUME NEW b \in Builds, EnsureExports(b)
      PROVE  CheckpointsTruthful'
  <2>1. CASE pruned[b]
    BY ZenonT(60), <1>10, <2>1 DEF
         EnsureExports, EmptyGraph, NoProfiles, ReleaseInv, TypeOK, CheckpointsTruthful
  <2>2. CASE ~pruned[b]
    BY <1>10, <2>2 DEF EnsureExports, ReleaseInv, TypeOK, CheckpointsTruthful
  <2> QED
    BY <2>1, <2>2
<1>11. ASSUME NEW b \in Builds, RepairReset(b)
      PROVE  CheckpointsTruthful'
  BY <1>11, GotoFields, ReleaseAssumption DEF
       RepairReset, At, Without, NoProfiles, Parts, ReleaseInv, TypeOK, UploadInOrder,
       SafePromotion, DoneHasRows, CheckpointsTruthful, Rows, Batches, Graph
<1>12. ASSUME NEW b \in Builds, Repair(b)
      PROVE  CheckpointsTruthful'
  BY <1>12, ReleaseAssumption DEF Repair, ReleaseInv, TypeOK, CheckpointsTruthful, Graph
<1>13. ASSUME NEW b \in Builds, NEW ch \in SUBSET Builds, Compact(b, ch)
      PROVE  CheckpointsTruthful'
  BY <1>13, ReleaseAssumption DEF Compact, ReleaseInv, TypeOK, CheckpointsTruthful, Graph
<1> QED
  BY <1>2, <1>3, <1>4, <1>5, <1>6, <1>7, <1>8, <1>9, <1>10, <1>11, <1>12, <1>13 DEF
       Next, JobStep, Fault, Command

\* A passed validation makes the released build current, and no stage that could change it
\* is past its prepare transaction.
LEMMA ReleasedStep ==
  ASSUME ReleaseInv, Next
  PROVE  ReleasedVectors'
<1> USE DEF runVars, dataVars, graphVars, servedVars
<1>1. UNCHANGED <<status, verdict, run, links, profile, neo, points>> => ReleasedVectors'
  BY DEF ReleaseInv, ReleasedVectors, Released
<1>2. CASE \/ Crash
           \/ \E b \in Builds :
                \/ VectorMark(b) \/ VectorReset(b) \/ FreezeDone(b) \/ EnsureExports(b)
                \/ RepairReset(b) \/ RepairUnprune(b) \/ SetNeo4j(b) \/ SwitchAlias(b)
                \/ PromoteFail(b) \/ ResumeRead(b) \/ ResumeLocked(b) \/ PromotePrepare(b)
                \/ \E p \in Parts : FreezePart(b, p)
                \/ \E s \in {"topic", "vector"} : StageCommand(b, s)
                \/ \E ch \in SUBSET Builds : Compact(b, ch)
  <2>1. UNCHANGED <<status, verdict, run, links, profile, neo, points>>
    BY <1>2 DEF
         VectorMark, VectorReset, FreezePart, FreezeDone, EnsureExports, RepairReset,
         RepairUnprune, SetNeo4j, SwitchAlias, PromoteFail, ResumeRead, ResumeLocked,
         StageCommand, Compact, PromotePrepare, Crash, Refuse, FailRun
  <2> QED
    BY <1>1, <2>1
<1>3. ASSUME NEW b \in Builds, IngestBegin(b)
      PROVE  ReleasedVectors'
  <2>1. UNCHANGED <<verdict, run, links, profile, neo, points>>
    BY <1>3 DEF IngestBegin
  <2>2. \/ UNCHANGED status
        \/ \E x \in {"INGESTING", "SNAPSHOTTING"} : status' = [status EXCEPT ![b] = x]
    BY ZenonT(60), <1>3 DEF IngestBegin
  <2>3. \A c \in Builds : status'[c] \in {"READY", "ACTIVE"} => status'[c] = status[c]
    BY <2>2 DEF ReleaseInv, TypeOK
  <2> QED
    BY <2>1, <2>3 DEF ReleaseInv, ReleasedVectors, Released
<1>4. ASSUME NEW b \in Builds, SnapshotsTaken(b)
      PROVE  ReleasedVectors'
  BY <1>4, GotoFields, ReleaseAssumption DEF
       SnapshotsTaken, At, ReleaseInv, TypeOK, JobPlaces, WorkIsMarked, UploadsCurrent,
       ReleasedVectors, Released, ChecksPass, NeoMatches, Batches, Stages, Working
<1>5. ASSUME NEW b \in Builds, IngestDone(b)
      PROVE  ReleasedVectors'
  BY <1>5, ReturnFields, ReleaseAssumption DEF
       IngestDone, At, ReleaseInv, TypeOK, JobPlaces, WorkIsMarked, UploadsCurrent,
       ReleasedVectors, Released, ChecksPass, NeoMatches, Batches, Stages, Working
<1>6. ASSUME NEW b \in Builds, CurationPrepare(b)
      PROVE  ReleasedVectors'
  BY <1>6, GotoFields, ReturnFields, ReleaseAssumption DEF
       CurationPrepare, Refuse, Begin, At, NoJob, ReleaseInv, TypeOK, JobPlaces, WorkIsMarked,
       UploadsCurrent, ReleasedVectors, Released, ChecksPass, NeoMatches, Batches, Stages,
       Working
<1>7. ASSUME NEW b \in Builds, CurationFinish(b)
      PROVE  ReleasedVectors'
  BY <1>7, ReturnFields, ReleaseAssumption DEF
       CurationFinish, At, ReleaseInv, TypeOK, JobPlaces, WorkIsMarked, UploadsCurrent,
       ReleasedVectors, Released, ChecksPass, NeoMatches, Batches, Stages, Working
<1>8. ASSUME NEW b \in Builds, GraphPrepare(b)
      PROVE  ReleasedVectors'
  <2>1. UNCHANGED <<status, verdict, links, profile, neo, points>>
    BY <1>8 DEF GraphPrepare, Refuse
  <2>2. \A c \in Released : run'[c] = run[c]
    BY <1>8 DEF GraphPrepare, Refuse, Released, ReleaseInv, TypeOK
  <2> QED
    BY <2>1, <2>2 DEF ReleaseInv, ReleasedVectors, Released
<1>9. ASSUME NEW b \in Builds, StartGraphWrite(b)
      PROVE  ReleasedVectors'
  BY <1>9, GotoFields, ReleaseAssumption DEF
       StartGraphWrite, At, Parts, ReleaseInv, TypeOK, JobPlaces, WorkIsMarked, UploadsCurrent,
       ReleasedVectors, Released, ChecksPass, NeoMatches, Batches, Stages, Working
<1>10. ASSUME NEW b \in Builds, GraphFinish(b)
      PROVE  ReleasedVectors'
  BY <1>10, ReturnFields, ReleaseAssumption DEF
       GraphFinish, At, ReleaseInv, TypeOK, JobPlaces, WorkIsMarked, UploadsCurrent,
       ReleasedVectors, Released, ChecksPass, NeoMatches, Batches, Stages, Working
<1>11. ASSUME NEW b \in Builds, TopicPrepare(b)
      PROVE  ReleasedVectors'
  BY <1>11, GotoFields, ReturnFields, ReleaseAssumption DEF
       TopicPrepare, Refuse, Begin, At, NoJob, ReleaseInv, TypeOK, JobPlaces, WorkIsMarked,
       UploadsCurrent, ReleasedVectors, Released, ChecksPass, NeoMatches, Batches, Stages,
       Working
<1>12. ASSUME NEW b \in Builds, TopicLink(b)
      PROVE  ReleasedVectors'
  BY <1>12, GotoFields, ReleaseAssumption DEF
       TopicLink, At, Parts, ReleaseInv, TypeOK, JobPlaces, WorkIsMarked, UploadsCurrent,
       ReleasedVectors, Released, ChecksPass, NeoMatches, Batches, Stages, Working
<1>13. ASSUME NEW b \in Builds, TopicFinish(b)
      PROVE  ReleasedVectors'
  BY <1>13, ReturnFields, ReleaseAssumption DEF
       TopicFinish, At, ReleaseInv, TypeOK, JobPlaces, WorkIsMarked, UploadsCurrent,
       ReleasedVectors, Released, ChecksPass, NeoMatches, Batches, Stages, Working
<1>14. ASSUME NEW b \in Builds, VectorPrepare(b)
      PROVE  ReleasedVectors'
  BY <1>14, GotoFields, ReleaseAssumption DEF
       VectorPrepare, Refuse, At, NoJob, ReleaseInv, TypeOK, JobPlaces, WorkIsMarked,
       UploadsCurrent, ReleasedVectors, Released, ChecksPass, NeoMatches, Batches, Stages,
       Working
<1>15. ASSUME NEW b \in Builds, VectorStore(b)
      PROVE  ReleasedVectors'
  BY <1>15, GotoFields, ReleaseAssumption DEF
       VectorStore, At, Rows, ReleaseInv, TypeOK, JobPlaces, WorkIsMarked, UploadsCurrent,
       ReleasedVectors, Released, ChecksPass, NeoMatches, Batches, Stages, Working
<1>16. ASSUME NEW b \in Builds, VectorUpsert(b)
      PROVE  ReleasedVectors'
  BY <1>16, GotoFields, ReleaseAssumption DEF
       VectorUpsert, At, Rows, ReleaseInv, TypeOK, JobPlaces, WorkIsMarked, UploadsCurrent,
       ReleasedVectors, Released, ChecksPass, NeoMatches, Batches, Stages, Working
<1>17. ASSUME NEW b \in Builds, VectorFinish(b)
      PROVE  ReleasedVectors'
  BY <1>17, ReleaseAssumption DEF
       VectorFinish, At, NoJob, Rows, ReleaseInv, TypeOK, JobPlaces, WorkIsMarked, UploadsCurrent,
       ReleasedVectors, Released, ChecksPass, NeoMatches, Batches, Stages, Working
<1>18. ASSUME NEW b \in Builds, NEW p \in Parts, NeoWritePart(b, p)
      PROVE  ReleasedVectors'
  BY <1>18, GotoFields, ReleaseAssumption DEF
       NeoWritePart, NextPart, Written, HasRows, Parts, ReleaseInv, TypeOK, JobPlaces,
       WorkIsMarked, UploadsCurrent, ReleasedVectors, Released, ChecksPass, NeoMatches, Batches,
       Stages, Working
<1>19. ASSUME NEW b \in Builds, NeoMismatch(b)
      PROVE  ReleasedVectors'
  BY <1>19, ReleaseAssumption DEF
       NeoMismatch, FailRun, NoJob, ReleaseInv, TypeOK, JobPlaces, WorkIsMarked, UploadsCurrent,
       ReleasedVectors, Released, ChecksPass, NeoMatches, Batches, Stages, Working
<1>20. ASSUME NEW b \in Builds, NEW g \in BOOLEAN, ValidateFinish(b, g)
      PROVE  ReleasedVectors'
  <2>1. CASE ~(g /\ ChecksPass(b))
    <3>1. /\ status' = [status EXCEPT ![b] = "FAILED_VALIDATION"]
          /\ verdict' = [verdict EXCEPT ![b] = "FAILED"]
      BY <1>20, <2>1 DEF ValidateFinish
    <3> QED
      BY <1>20, <3>1 DEF ValidateFinish, ReleaseInv, TypeOK, ReleasedVectors, Released
  <2>2. CASE g /\ ChecksPass(b)
    <3>1. status' = [status EXCEPT ![b] = "READY"] /\ verdict' = [verdict EXCEPT ![b] = "PASSED"]
      BY <1>20, <2>2 DEF ValidateFinish
    <3>2. \A k \in Batches : profile[b][k] = links[b]
      <4>1. 1 \in Batches /\ profile[b][1] # "missing"
        BY <2>2, ReleaseAssumption DEF ChecksPass, Batches
      <4>2. run[b]["topic"] = "COMPLETED" /\ run[b]["vector"] = "COMPLETED"
        BY <2>2 DEF ChecksPass, Stages
      <4>3. uploaded[b] = NumBatches
        BY <4>1, <4>2 DEF ReleaseInv, UploadsCurrent
      <4> QED
        BY <4>2, <4>3 DEF ReleaseInv, UploadsCurrent, Batches
    <3>3. /\ \A s \in Stages : run[b][s] = "COMPLETED"
          /\ neo[b].present = Parts /\ neo[b].prof = profile[b] /\ points[b] = profile[b]
      BY <2>2 DEF ChecksPass, NeoMatches
    <3> QED
      BY <1>20, <3>1, <3>2, <3>3 DEF
           ValidateFinish, ReleaseInv, TypeOK, ReleasedVectors, Released
  <2> QED
    BY <2>1, <2>2
<1>21. ASSUME NEW b \in Builds, PromoteFinish(b)
      PROVE  ReleasedVectors'
  BY <1>21, ReleaseAssumption DEF
       PromoteFinish, At, NoJob, ReleaseInv, TypeOK, JobPlaces, WorkIsMarked, UploadsCurrent,
       ReleasedVectors, Released, ChecksPass, NeoMatches, Batches, Stages, Working
<1>22. ASSUME NEW b \in Builds, IngestFailed(b)
      PROVE  ReleasedVectors'
  BY <1>22, ReleaseAssumption DEF
       IngestFailed, NoJob, ReleaseInv, TypeOK, JobPlaces, WorkIsMarked, UploadsCurrent,
       ReleasedVectors, Released, ChecksPass, NeoMatches, Batches, Stages, Working
<1>23. ASSUME NEW b \in Builds, StageFail(b)
      PROVE  ReleasedVectors'
  BY <1>23, ReleaseAssumption DEF
       StageFail, FailRun, NoJob, ReleaseInv, TypeOK, JobPlaces, WorkIsMarked, UploadsCurrent,
       ReleasedVectors, Released, ChecksPass, NeoMatches, Batches, Stages, Working
<1>24. ASSUME NEW b \in Builds, CreateBuild(b)
      PROVE  ReleasedVectors'
  BY <1>24, ReleaseAssumption DEF
       CreateBuild, Begin, NoJob, ReleaseInv, TypeOK, JobPlaces, WorkIsMarked, UploadsCurrent,
       ReleasedVectors, Released, ChecksPass, NeoMatches, Batches, Stages, Working
<1>25. ASSUME NEW b \in Builds, Repair(b)
      PROVE  ReleasedVectors'
  BY <1>25, ReleaseAssumption DEF
       Repair, Begin, NoJob, ReleaseInv, TypeOK, JobPlaces, WorkIsMarked, UploadsCurrent,
       ReleasedVectors, Released, ChecksPass, NeoMatches, Batches, Stages, Working
<1>26. ASSUME NEW b \in Builds, ValidatePrepare(b)
      PROVE  ReleasedVectors'
  BY <1>26, ReleaseAssumption DEF
       ValidatePrepare, Begin, NoJob, ReleaseInv, TypeOK, JobPlaces, WorkIsMarked, UploadsCurrent,
       ReleasedVectors, Released, ChecksPass, NeoMatches, Batches, Stages, Working
<1> QED
  BY <1>2, <1>3, <1>4, <1>5, <1>6, <1>7, <1>8, <1>9, <1>10, <1>11, <1>12, <1>13, <1>14, <1>15,
     <1>16, <1>17, <1>18, <1>19, <1>20, <1>21, <1>22, <1>23, <1>24, <1>25, <1>26 DEF
       Next, JobStep, Fault, Command

\* A store is only switched under a RUNNING promotion record, which only a finished
\* promotion of the same build completes.
LEMMA DivergenceStep ==
  ASSUME ReleaseInv, Next
  PROVE  DivergenceRecorded'
<1> USE DEF runVars, dataVars, graphVars, servedVars
<1>1. UNCHANGED <<status, promo, neoActive, alias>> => DivergenceRecorded'
  BY DEF ReleaseInv, DivergenceRecorded
<1>2. CASE \/ Crash
           \/ \E b \in Builds :
                \/ GraphPrepare(b) \/ TopicLink(b) \/ VectorStore(b) \/ VectorUpsert(b)
                \/ VectorMark(b) \/ VectorReset(b) \/ FreezeDone(b) \/ EnsureExports(b)
                \/ RepairReset(b) \/ RepairUnprune(b) \/ ResumeRead(b) \/ ResumeLocked(b)
                \/ \E p \in Parts : FreezePart(b, p)
                \/ \E p \in Parts : NeoWritePart(b, p)
                \/ \E s \in {"topic", "vector"} : StageCommand(b, s)
                \/ \E ch \in SUBSET Builds : Compact(b, ch)
  <2>1. UNCHANGED <<status, promo, neoActive, alias>>
    BY ZenonT(60), <1>2 DEF
         GraphPrepare, TopicLink, VectorStore, VectorUpsert, VectorMark, VectorReset, FreezePart,
         FreezeDone, NeoWritePart, EnsureExports, RepairReset, RepairUnprune, ResumeRead,
         ResumeLocked, StageCommand, Compact, Crash, Refuse, FailRun
  <2> QED
    BY <1>1, <2>1
<1>3. ASSUME NEW b \in Builds, IngestBegin(b)
      PROVE  DivergenceRecorded'
  <2>1. CASE UNCHANGED status
    BY <1>3, <2>1 DEF IngestBegin, ReleaseInv, DivergenceRecorded
  <2>2. CASE ~UNCHANGED status
    <3>1. /\ status[b] # "ACTIVE" /\ status'[b] # "ACTIVE"
          /\ \A c \in Builds \ {b} : status'[c] = status[c]
      BY <1>3, <2>2 DEF IngestBegin, ReleaseInv, TypeOK, Released, Stages
    <3> QED
      BY <1>3, <3>1, DivergenceFrame DEF IngestBegin, ReleaseInv
  <2> QED
    BY <2>1, <2>2
<1>4. ASSUME NEW b \in Builds, SnapshotsTaken(b)
      PROVE  DivergenceRecorded'
  BY <1>4, GotoFields, ReleaseAssumption DEF
       SnapshotsTaken, At, ReleaseInv, TypeOK, JobPlaces, WorkIsMarked, Working, Stages,
       SafePromotion, DivergenceRecorded
<1>5. ASSUME NEW b \in Builds, IngestDone(b)
      PROVE  DivergenceRecorded'
  BY <1>5, ReturnFields, ReleaseAssumption DEF
       IngestDone, At, ReleaseInv, TypeOK, JobPlaces, WorkIsMarked, Working, Stages,
       SafePromotion, DivergenceRecorded
<1>6. ASSUME NEW b \in Builds, CurationPrepare(b)
      PROVE  DivergenceRecorded'
  <2>1. CASE UNCHANGED status
    BY <1>6, <2>1 DEF CurationPrepare, ReleaseInv, DivergenceRecorded
  <2>2. CASE ~UNCHANGED status
    <3>1. /\ status[b] # "ACTIVE" /\ status'[b] # "ACTIVE"
          /\ \A c \in Builds \ {b} : status'[c] = status[c]
      BY <1>6, <2>2 DEF
           CurationPrepare, Refuse, ReleaseInv, TypeOK, ReleasedVectors, Released, Stages
    <3> QED
      BY <1>6, <3>1, DivergenceFrame DEF CurationPrepare, ReleaseInv
  <2> QED
    BY <2>1, <2>2
<1>7. ASSUME NEW b \in Builds, CurationFinish(b)
      PROVE  DivergenceRecorded'
  BY <1>7, ReturnFields, ReleaseAssumption DEF
       CurationFinish, At, ReleaseInv, TypeOK, JobPlaces, WorkIsMarked, Working, Stages,
       SafePromotion, DivergenceRecorded
<1>8. ASSUME NEW b \in Builds, StartGraphWrite(b)
      PROVE  DivergenceRecorded'
  BY <1>8, GotoFields, ReleaseAssumption DEF
       StartGraphWrite, At, Parts, ReleaseInv, TypeOK, JobPlaces, WorkIsMarked, Working, Stages,
       SafePromotion, DivergenceRecorded
<1>9. ASSUME NEW b \in Builds, GraphFinish(b)
      PROVE  DivergenceRecorded'
  BY <1>9, ReturnFields, ReleaseAssumption DEF
       GraphFinish, At, ReleaseInv, TypeOK, JobPlaces, WorkIsMarked, Working, Stages,
       SafePromotion, DivergenceRecorded
<1>10. ASSUME NEW b \in Builds, TopicPrepare(b)
      PROVE  DivergenceRecorded'
  <2>1. CASE UNCHANGED status
    BY <1>10, <2>1 DEF TopicPrepare, ReleaseInv, DivergenceRecorded
  <2>2. CASE ~UNCHANGED status
    <3>1. /\ status[b] # "ACTIVE" /\ status'[b] # "ACTIVE"
          /\ \A c \in Builds \ {b} : status'[c] = status[c]
      BY <1>10, <2>2 DEF
           TopicPrepare, Refuse, ReleaseInv, TypeOK, ReleasedVectors, Released, Stages
    <3> QED
      BY <1>10, <3>1, DivergenceFrame DEF TopicPrepare, ReleaseInv
  <2> QED
    BY <2>1, <2>2
<1>11. ASSUME NEW b \in Builds, TopicFinish(b)
      PROVE  DivergenceRecorded'
  BY <1>11, ReturnFields, ReleaseAssumption DEF
       TopicFinish, At, ReleaseInv, TypeOK, JobPlaces, WorkIsMarked, Working, Stages,
       SafePromotion, DivergenceRecorded
<1>12. ASSUME NEW b \in Builds, VectorPrepare(b)
      PROVE  DivergenceRecorded'
  <2>1. CASE UNCHANGED status
    BY <1>12, <2>1 DEF VectorPrepare, ReleaseInv, DivergenceRecorded
  <2>2. CASE ~UNCHANGED status
    <3>1. /\ status[b] # "ACTIVE" /\ status'[b] # "ACTIVE"
          /\ \A c \in Builds \ {b} : status'[c] = status[c]
      BY <1>12, <2>2 DEF
           VectorPrepare, Refuse, ReleaseInv, TypeOK, ReleasedVectors, Released, Stages
    <3> QED
      BY <1>12, <3>1, DivergenceFrame DEF VectorPrepare, ReleaseInv
  <2> QED
    BY <2>1, <2>2
<1>13. ASSUME NEW b \in Builds, VectorFinish(b)
      PROVE  DivergenceRecorded'
  BY <1>13, ReleaseAssumption DEF
       VectorFinish, At, NoJob, Rows, ReleaseInv, TypeOK, JobPlaces, WorkIsMarked, Working,
       Stages, SafePromotion, DivergenceRecorded
<1>14. ASSUME NEW b \in Builds, NeoMismatch(b)
      PROVE  DivergenceRecorded'
  BY <1>14, ReleaseAssumption DEF
       NeoMismatch, FailRun, NoJob, ReleaseInv, TypeOK, JobPlaces, WorkIsMarked, Working, Stages,
       SafePromotion, DivergenceRecorded
<1>15. ASSUME NEW b \in Builds, NEW g \in BOOLEAN, ValidateFinish(b, g)
      PROVE  DivergenceRecorded'
  BY <1>15, ReleaseAssumption DEF
       ValidateFinish, At, NoJob, ReleaseInv, TypeOK, JobPlaces, WorkIsMarked, Working, Stages,
       SafePromotion, DivergenceRecorded
<1>16. ASSUME NEW b \in Builds, SetNeo4j(b)
      PROVE  DivergenceRecorded'
  BY <1>16, GotoFields, ReleaseAssumption DEF
       SetNeo4j, At, ReleaseInv, TypeOK, JobPlaces, WorkIsMarked, Working, Stages, SafePromotion,
       DivergenceRecorded
<1>17. ASSUME NEW b \in Builds, SwitchAlias(b)
      PROVE  DivergenceRecorded'
  BY <1>17, GotoFields, ReleaseAssumption DEF
       SwitchAlias, At, ReleaseInv, TypeOK, JobPlaces, WorkIsMarked, Working, Stages,
       SafePromotion, DivergenceRecorded
<1>18. ASSUME NEW b \in Builds, PromoteFinish(b)
      PROVE  DivergenceRecorded'
  BY <1>18, ReleaseAssumption DEF
       PromoteFinish, ReleaseInv, TypeOK, SafePromotion, DivergenceRecorded
<1>19. ASSUME NEW b \in Builds, IngestFailed(b)
      PROVE  DivergenceRecorded'
  BY <1>19, ReleaseAssumption DEF
       IngestFailed, NoJob, ReleaseInv, TypeOK, JobPlaces, WorkIsMarked, Working, Stages,
       SafePromotion, DivergenceRecorded
<1>20. ASSUME NEW b \in Builds, StageFail(b)
      PROVE  DivergenceRecorded'
  BY <1>20, ReleaseAssumption DEF
       StageFail, FailRun, NoJob, ReleaseInv, TypeOK, JobPlaces, WorkIsMarked, Working, Stages,
       SafePromotion, DivergenceRecorded
<1>21. ASSUME NEW b \in Builds, PromoteFail(b)
      PROVE  DivergenceRecorded'
  BY <1>21, ReleaseAssumption DEF PromoteFail, ReleaseInv, TypeOK, DivergenceRecorded
<1>22. ASSUME NEW b \in Builds, CreateBuild(b)
      PROVE  DivergenceRecorded'
  BY <1>22, ReleaseAssumption DEF
       CreateBuild, ReleaseInv, TypeOK, SafePromotion, DivergenceRecorded
<1>23. ASSUME NEW b \in Builds, Repair(b)
      PROVE  DivergenceRecorded'
  <2>1. promo' = promo
    BY <1>23 DEF Repair, ReleaseInv, TypeOK, SafePromotion
  <2> QED
    BY <1>23, <2>1, DivergenceFrame DEF Repair, ReleaseInv, TypeOK
<1>24. ASSUME NEW b \in Builds, ValidatePrepare(b)
      PROVE  DivergenceRecorded'
  BY <1>24, ReleaseAssumption DEF
       ValidatePrepare, ReleaseInv, TypeOK, SafePromotion, DivergenceRecorded
<1>25. ASSUME NEW b \in Builds, PromotePrepare(b)
      PROVE  DivergenceRecorded'
  BY <1>25, ReleaseAssumption DEF
       PromotePrepare, ReleaseInv, TypeOK, SafePromotion, DivergenceRecorded
<1> QED
  BY <1>2, <1>3, <1>4, <1>5, <1>6, <1>7, <1>8, <1>9, <1>10, <1>11, <1>12, <1>13, <1>14, <1>15,
     <1>16, <1>17, <1>18, <1>19, <1>20, <1>21, <1>22, <1>23, <1>24, <1>25 DEF
       Next, JobStep, Fault, Command

\* What one step leaves alone of a build that is served.
Untouched(c) ==
    /\ run'[c] = run[c] /\ verdict'[c] = verdict[c]
    /\ links'[c] = links[c] /\ profile'[c] = profile[c]
    /\ neo'[c] = neo[c] /\ points'[c] = points[c]
    /\ status'[c] \in {"ACTIVE", "READY"}

\* No step touches what an ACTIVE build serves.
LEMMA ActiveStep ==
  ASSUME ReleaseInv, NEW c \in Builds, status[c] = "ACTIVE", Next
  PROVE  Untouched(c)
<1> USE DEF runVars, dataVars, graphVars, servedVars
<1>1. ASSUME NEW b \in Builds, IngestBegin(b)
      PROVE  Untouched(c)
  BY <1>1, GotoFields, ReturnFields, ReleaseAssumption DEF
       IngestBegin, ReleaseInv, TypeOK, Released, Stages, Untouched
<1>2. ASSUME NEW b \in Builds, SnapshotsTaken(b)
      PROVE  Untouched(c)
  BY <1>2, GotoFields, ReleaseAssumption DEF
       SnapshotsTaken, At, ReleaseInv, TypeOK, JobPlaces, WorkIsMarked, Working, SafePromotion,
       ReleasedVectors, Released, Stages, Untouched
<1>3. ASSUME NEW b \in Builds, IngestDone(b)
      PROVE  Untouched(c)
  BY <1>3, ReturnFields, ReleaseAssumption DEF
       IngestDone, At, ReleaseInv, TypeOK, JobPlaces, WorkIsMarked, Working, SafePromotion,
       ReleasedVectors, Released, Stages, Untouched
<1>4. ASSUME NEW b \in Builds, CurationPrepare(b)
      PROVE  Untouched(c)
  BY <1>4, GotoFields, ReturnFields, ReleaseAssumption DEF
       CurationPrepare, Refuse, Begin, At, NoJob, ReleaseInv, TypeOK, JobPlaces, WorkIsMarked,
       Working, SafePromotion, ReleasedVectors, Released, Stages, Untouched
<1>5. ASSUME NEW b \in Builds, CurationFinish(b)
      PROVE  Untouched(c)
  BY <1>5, ReturnFields, ReleaseAssumption DEF
       CurationFinish, At, ReleaseInv, TypeOK, JobPlaces, WorkIsMarked, Working, SafePromotion,
       ReleasedVectors, Released, Stages, Untouched
<1>6. ASSUME NEW b \in Builds, GraphPrepare(b)
      PROVE  Untouched(c)
  BY <1>6, GotoFields, ReturnFields, ReleaseAssumption DEF
       GraphPrepare, Refuse, Begin, At, NoJob, Parts, ReleaseInv, TypeOK, JobPlaces, WorkIsMarked,
       Working, SafePromotion, ReleasedVectors, Released, Stages, Untouched
<1>7. ASSUME NEW b \in Builds, StartGraphWrite(b)
      PROVE  Untouched(c)
  BY <1>7, GotoFields, ReleaseAssumption DEF
       StartGraphWrite, At, Parts, ReleaseInv, TypeOK, JobPlaces, WorkIsMarked, Working,
       SafePromotion, ReleasedVectors, Released, Stages, Untouched
<1>8. ASSUME NEW b \in Builds, GraphFinish(b)
      PROVE  Untouched(c)
  BY <1>8, ReturnFields, ReleaseAssumption DEF
       GraphFinish, At, ReleaseInv, TypeOK, JobPlaces, WorkIsMarked, Working, SafePromotion,
       ReleasedVectors, Released, Stages, Untouched
<1>9. ASSUME NEW b \in Builds, TopicPrepare(b)
      PROVE  Untouched(c)
  BY <1>9, GotoFields, ReturnFields, ReleaseAssumption DEF
       TopicPrepare, Refuse, Begin, At, NoJob, ReleaseInv, TypeOK, JobPlaces, WorkIsMarked,
       Working, SafePromotion, ReleasedVectors, Released, Stages, Untouched
<1>10. ASSUME NEW b \in Builds, TopicLink(b)
      PROVE  Untouched(c)
  BY <1>10, GotoFields, ReleaseAssumption DEF
       TopicLink, At, Parts, ReleaseInv, TypeOK, JobPlaces, WorkIsMarked, Working, SafePromotion,
       ReleasedVectors, Released, Stages, Untouched
<1>11. ASSUME NEW b \in Builds, TopicFinish(b)
      PROVE  Untouched(c)
  BY <1>11, ReturnFields, ReleaseAssumption DEF
       TopicFinish, At, ReleaseInv, TypeOK, JobPlaces, WorkIsMarked, Working, SafePromotion,
       ReleasedVectors, Released, Stages, Untouched
<1>12. ASSUME NEW b \in Builds, VectorPrepare(b)
      PROVE  Untouched(c)
  BY <1>12, GotoFields, ReleaseAssumption DEF
       VectorPrepare, Refuse, At, NoJob, ReleaseInv, TypeOK, JobPlaces, WorkIsMarked, Working,
       SafePromotion, ReleasedVectors, Released, Stages, Untouched
<1>13. ASSUME NEW b \in Builds, VectorStore(b)
      PROVE  Untouched(c)
  BY <1>13, GotoFields, ReleaseAssumption DEF
       VectorStore, ReleaseInv, TypeOK, ReleasedVectors, Released, Stages, Untouched
<1>14. ASSUME NEW b \in Builds, VectorUpsert(b)
      PROVE  Untouched(c)
  BY <1>14, GotoFields, ReleaseAssumption DEF
       VectorUpsert, ReleaseInv, TypeOK, ReleasedVectors, Released, Stages, Untouched
<1>15. ASSUME NEW b \in Builds, VectorMark(b)
      PROVE  Untouched(c)
  BY <1>15, GotoFields, ReleaseAssumption DEF VectorMark, ReleaseInv, TypeOK, Untouched
<1>16. ASSUME NEW b \in Builds, VectorReset(b)
      PROVE  Untouched(c)
  BY <1>16, GotoFields, ReleaseAssumption DEF VectorReset, ReleaseInv, TypeOK, Untouched
<1>17. ASSUME NEW b \in Builds, VectorFinish(b)
      PROVE  Untouched(c)
  BY <1>17, ReleaseAssumption DEF
       VectorFinish, At, NoJob, Rows, ReleaseInv, TypeOK, JobPlaces, WorkIsMarked, Working,
       SafePromotion, ReleasedVectors, Released, Stages, Untouched
<1>18. ASSUME NEW b \in Builds, NEW p \in Parts, FreezePart(b, p)
      PROVE  Untouched(c)
  BY <1>18, GotoFields, ReleaseAssumption DEF FreezePart, ReleaseInv, TypeOK, Untouched
<1>19. ASSUME NEW b \in Builds, FreezeDone(b)
      PROVE  Untouched(c)
  BY <1>19, GotoFields, ReleaseAssumption DEF FreezeDone, ReleaseInv, TypeOK, Untouched
<1>20. ASSUME NEW b \in Builds, NEW p \in Parts, NeoWritePart(b, p)
      PROVE  Untouched(c)
  BY <1>20, GotoFields, ReleaseAssumption DEF
       NeoWritePart, NextPart, Written, HasRows, Parts, ReleaseInv, TypeOK, JobPlaces,
       WorkIsMarked, Working, SafePromotion, ReleasedVectors, Released, Stages, Untouched
<1>21. ASSUME NEW b \in Builds, NeoMismatch(b)
      PROVE  Untouched(c)
  BY <1>21, ReleaseAssumption DEF
       NeoMismatch, FailRun, NoJob, ReleaseInv, TypeOK, JobPlaces, WorkIsMarked, Working,
       SafePromotion, ReleasedVectors, Released, Stages, Untouched
<1>22. ASSUME NEW b \in Builds, EnsureExports(b)
      PROVE  Untouched(c)
  BY <1>22, GotoFields, ReleaseAssumption DEF EnsureExports, ReleaseInv, TypeOK, Untouched
<1>23. ASSUME NEW b \in Builds, RepairReset(b)
      PROVE  Untouched(c)
  BY <1>23, GotoFields, ReleaseAssumption DEF RepairReset, ReleaseInv, TypeOK, Untouched
<1>24. ASSUME NEW b \in Builds, RepairUnprune(b)
      PROVE  Untouched(c)
  BY <1>24, ReleaseAssumption DEF RepairUnprune, ReleaseInv, TypeOK, Untouched
<1>25. ASSUME NEW b \in Builds, NEW g \in BOOLEAN, ValidateFinish(b, g)
      PROVE  Untouched(c)
  BY <1>25, ReleaseAssumption DEF
       ValidateFinish, At, NoJob, ReleaseInv, TypeOK, JobPlaces, WorkIsMarked, Working,
       SafePromotion, ReleasedVectors, Released, Stages, Untouched
<1>26. ASSUME NEW b \in Builds, SetNeo4j(b)
      PROVE  Untouched(c)
  BY <1>26, GotoFields, ReleaseAssumption DEF
       SetNeo4j, ReleaseInv, TypeOK, Released, Stages, Untouched
<1>27. ASSUME NEW b \in Builds, SwitchAlias(b)
      PROVE  Untouched(c)
  BY <1>27, GotoFields, ReleaseAssumption DEF
       SwitchAlias, ReleaseInv, TypeOK, Released, Stages, Untouched
<1>28. ASSUME NEW b \in Builds, PromoteFinish(b)
      PROVE  Untouched(c)
  BY <1>28, ReleaseAssumption DEF PromoteFinish, ReleaseInv, TypeOK, Untouched
<1>29. ASSUME NEW b \in Builds, IngestFailed(b)
      PROVE  Untouched(c)
  BY <1>29, ReleaseAssumption DEF
       IngestFailed, NoJob, ReleaseInv, TypeOK, JobPlaces, WorkIsMarked, Working, SafePromotion,
       ReleasedVectors, Released, Stages, Untouched
<1>30. ASSUME NEW b \in Builds, StageFail(b)
      PROVE  Untouched(c)
  BY <1>30, ReleaseAssumption DEF
       StageFail, FailRun, NoJob, ReleaseInv, TypeOK, JobPlaces, WorkIsMarked, Working,
       SafePromotion, ReleasedVectors, Released, Stages, Untouched
<1>31. ASSUME NEW b \in Builds, PromoteFail(b)
      PROVE  Untouched(c)
  BY <1>31, ReleaseAssumption DEF PromoteFail, ReleaseInv, TypeOK, Untouched
<1>32. ASSUME NEW b \in Builds, CreateBuild(b)
      PROVE  Untouched(c)
  BY <1>32, ReleaseAssumption DEF CreateBuild, ReleaseInv, TypeOK, Untouched
<1>33. ASSUME NEW b \in Builds, ResumeRead(b)
      PROVE  Untouched(c)
  BY <1>33, ReleaseAssumption DEF ResumeRead, ReleaseInv, TypeOK, Untouched
<1>34. ASSUME NEW b \in Builds, ResumeLocked(b)
      PROVE  Untouched(c)
  BY <1>34, ReleaseAssumption DEF ResumeLocked, ReleaseInv, TypeOK, Stages, Untouched
<1>35. ASSUME NEW b \in Builds, NEW s \in {"topic", "vector"}, StageCommand(b, s)
      PROVE  Untouched(c)
  BY <1>35, ReleaseAssumption DEF StageCommand, ReleaseInv, TypeOK, Untouched
<1>36. ASSUME NEW b \in Builds, Repair(b)
      PROVE  Untouched(c)
  BY <1>36, ReleaseAssumption DEF Repair, ReleaseInv, TypeOK, Untouched
<1>37. ASSUME NEW b \in Builds, NEW ch \in SUBSET Builds, Compact(b, ch)
      PROVE  Untouched(c)
  BY <1>37, ReleaseAssumption DEF Compact, ReleaseInv, TypeOK, Stages, Untouched
<1>38. ASSUME NEW b \in Builds, ValidatePrepare(b)
      PROVE  Untouched(c)
  BY <1>38, ReleaseAssumption DEF ValidatePrepare, ReleaseInv, TypeOK, Untouched
<1>39. ASSUME NEW b \in Builds, PromotePrepare(b)
      PROVE  Untouched(c)
  BY <1>39, ReleaseAssumption DEF PromotePrepare, ReleaseInv, TypeOK, Untouched
<1>40. ASSUME Crash
       PROVE  Untouched(c)
  BY <1>40, ReleaseAssumption DEF Crash, ReleaseInv, TypeOK, Untouched
<1> QED
  BY <1>1, <1>2, <1>3, <1>4, <1>5, <1>6, <1>7, <1>8, <1>9, <1>10, <1>11, <1>12, <1>13, <1>14,
     <1>15, <1>16, <1>17, <1>18, <1>19, <1>20, <1>21, <1>22, <1>23, <1>24, <1>25, <1>26, <1>27,
     <1>28, <1>29, <1>30, <1>31, <1>32, <1>33, <1>34, <1>35, <1>36, <1>37, <1>38, <1>39, <1>40 DEF
       Next, JobStep, Fault, Command

-----------------------------------------------------------------------------
\* Steps that neither export nor link, nor stand in the topic stage behind its linking, nor
\* leave a repair before its rebuild.
LEMMA TopicFrame ==
  ASSUME TopicsExported, UNCHANGED <<links, export, torn>>,
         \A c \in Builds : run'[c]["topic"] = "COMPLETED" => run[c]["topic"] = "COMPLETED",
         job'.stage = "topic" => job'.pc \notin {"freeze", "neo"},
         ~(job.stage = "repair" /\ job.pc = "reset")
  PROVE  TopicsExported'
  BY DEF TopicsExported, At

\* Only the end of the topic stage completes its run.
LEMMA TopicRuns ==
  ASSUME TypeOK, Next, NEW c \in Builds, run'[c]["topic"] = "COMPLETED", ~TopicFinish(c)
  PROVE  run[c]["topic"] = "COMPLETED"
<1> USE DEF runVars, dataVars, graphVars, servedVars
<1>1. CASE run' = run
  BY <1>1
<1>2. ASSUME NEW b \in Builds, NEW s \in Stages, NEW v \in {"RUNNING", "FAILED"},
             run' = [run EXCEPT ![b][s] = v]
      PROVE  run[c]["topic"] = "COMPLETED"
  BY <1>2 DEF TypeOK, Stages
<1>3. ASSUME NEW b \in Builds, NEW s \in {"curation", "graph", "vector"},
             run' = [run EXCEPT ![b][s] = "COMPLETED"]
      PROVE  run[c]["topic"] = "COMPLETED"
  BY <1>3 DEF TypeOK, Stages
<1>4. ASSUME NEW b \in Builds, TopicFinish(b)
      PROVE  run[c]["topic"] = "COMPLETED"
  BY <1>4 DEF TopicFinish, TypeOK
<1>5. ASSUME NEW b \in Builds, Repair(b)
      PROVE  run[c]["topic"] = "COMPLETED"
  BY <1>5 DEF Repair, TypeOK, Stages
<1>6. ASSUME NEW b \in Builds, StageFail(b) \/ NeoMismatch(b)
      PROVE  run[c]["topic"] = "COMPLETED"
  <2>1. FailRun(b)
    BY <1>6 DEF StageFail, NeoMismatch
  <2>2. run' = [run EXCEPT ![b][job.stage] = "FAILED"]
    BY <2>1 DEF FailRun
  <2>3. run'[c]["topic"] = run[c]["topic"] \/ run'[c]["topic"] = "FAILED"
    BY <2>2 DEF TypeOK, Stages
  <2> QED
    BY <2>3
<1>7. ASSUME NEW b \in Builds, \/ CurationPrepare(b) \/ GraphPrepare(b) \/ TopicPrepare(b)
                               \/ VectorPrepare(b)
      PROVE  run[c]["topic"] = "COMPLETED"
  BY <1>1, <1>2, <1>7 DEF CurationPrepare, GraphPrepare, TopicPrepare, VectorPrepare, Refuse, Stages
<1>8. ASSUME NEW b \in Builds, CurationFinish(b) \/ GraphFinish(b) \/ VectorFinish(b)
      PROVE  run[c]["topic"] = "COMPLETED"
  BY <1>3, <1>8 DEF CurationFinish, GraphFinish, VectorFinish
<1>9. CASE \/ Crash
           \/ \E b \in Builds :
                \/ IngestBegin(b) \/ SnapshotsTaken(b) \/ IngestDone(b) \/ StartGraphWrite(b)
                \/ TopicLink(b) \/ VectorStore(b) \/ VectorMark(b)
                \/ VectorUpsert(b) \/ VectorReset(b) \/ FreezeDone(b) \/ EnsureExports(b)
                \/ RepairReset(b) \/ RepairUnprune(b) \/ SetNeo4j(b) \/ SwitchAlias(b)
                \/ PromoteFinish(b) \/ IngestFailed(b) \/ PromoteFail(b) \/ CreateBuild(b)
                \/ ResumeRead(b) \/ ResumeLocked(b) \/ ValidatePrepare(b) \/ PromotePrepare(b)
                \/ \E p \in Parts : FreezePart(b, p)
                \/ \E p \in Parts : NeoWritePart(b, p)
                \/ \E g \in BOOLEAN : ValidateFinish(b, g)
                \/ \E s \in {"topic", "vector"} : StageCommand(b, s)
                \/ \E ch \in SUBSET Builds : Compact(b, ch)
  <2>1. run' = run
    BY ZenonT(60), <1>9 DEF
         IngestBegin, SnapshotsTaken, IngestDone, StartGraphWrite, TopicLink, VectorStore,
         VectorMark, VectorUpsert, VectorReset, FreezePart, FreezeDone, NeoWritePart,
         EnsureExports, RepairReset, RepairUnprune, ValidateFinish, SetNeo4j, SwitchAlias,
         PromoteFinish, IngestFailed, PromoteFail, CreateBuild, ResumeRead, ResumeLocked,
         StageCommand, Compact, ValidatePrepare, PromotePrepare, Crash
  <2> QED
    BY <1>1, <2>1
<1> QED
  BY <1>4, <1>5, <1>6, <1>7, <1>8, <1>9 DEF Next, JobStep, Fault, Command

\* Every step keeps the export's topic relations at the version of the links.
LEMMA TopicsStep ==
  ASSUME ReleaseInv, TopicsExported, Next
  PROVE  TopicsExported'
<1> USE DEF runVars, dataVars, graphVars, servedVars
<1>0. TypeOK /\ JobPlaces
  BY DEF ReleaseInv
<1>1. ASSUME UNCHANGED <<links, export, torn>>, \A c \in Builds : ~TopicFinish(c),
             job'.stage = "topic" => job'.pc \notin {"freeze", "neo"},
             ~(job.stage = "repair" /\ job.pc = "reset")
      PROVE  TopicsExported'
  BY <1>0, <1>1, TopicRuns, TopicFrame
<1>2. ASSUME NEW b \in Builds, TopicLink(b)
      PROVE  TopicsExported'
  BY <1>0, <1>2, GotoFields DEF TopicLink, TopicsExported, At, GotoFor, Parts, TypeOK
<1>3. ASSUME NEW b \in Builds, TopicFinish(b)
      PROVE  TopicsExported'
  <2>1. /\ At(b, "topic", "neo") /\ UNCHANGED <<links, export, torn>>
        /\ \A c \in Builds \ {b} : run'[c]["topic"] = run[c]["topic"]
        /\ job'.stage = "topic" => job'.pc = "prepare"
    BY <1>0, <1>3, ReturnFields DEF TopicFinish, TypeOK
  <2> QED
    BY <2>1 DEF TopicsExported, At
<1>4. ASSUME NEW b \in Builds, NEW p \in Parts, FreezePart(b, p)
      PROVE  TopicsExported'
  <2>1. /\ job.build = b /\ job.pc = "freeze" /\ job'.build = b /\ job'.pc = "freeze"
        /\ job'.stage = job.stage /\ job'.left = job.left \ {p}
        /\ UNCHANGED <<run, links, torn>>
        /\ \A c \in Builds \ {b} : export'[c] = export[c]
        /\ export'[b] = Frozen(b, p)
    BY <1>0, <1>4 DEF FreezePart, GotoFor, TypeOK, Job
  <2>2. CASE p = "topic"
    <3>1. /\ export'[b].topic = IF export[b].topic = "none" THEN links[b] ELSE export[b].topic
          /\ "topic" \in export'[b].present
      BY <2>1, <2>2 DEF Frozen
    <3> QED
      BY <2>1, <2>2, <3>1 DEF TopicsExported, At
  <2>3. CASE p # "topic"
    <3>1. /\ export'[b].topic = export[b].topic
          /\ "topic" \in export'[b].present <=> "topic" \in export[b].present
      BY <2>1, <2>3 DEF Frozen
    <3> QED
      BY <2>1, <2>3, <3>1 DEF TopicsExported, At
  <2> QED
    BY <2>2, <2>3
<1>5. ASSUME NEW b \in Builds, FreezeDone(b)
      PROVE  TopicsExported'
  <2>1. /\ job.build = b /\ job.pc = "freeze" /\ job.left = {}
        /\ UNCHANGED <<run, links, torn, export>>
        /\ job'.build = b
        /\ job'.stage = "topic" /\ job'.pc = "neo" => job.stage = "topic"
        /\ ~(job'.stage = "topic" /\ job'.pc = "freeze")
    BY <1>0, <1>5, GotoFields DEF FreezeDone, Begin, TypeOK, Job
  <2> QED
    BY <2>1 DEF TopicsExported, At
<1>6. ASSUME NEW b \in Builds, NEW p \in Parts, NeoWritePart(b, p)
      PROVE  TopicsExported'
  <2>1. /\ job.pc = "neo" /\ job'.build = job.build /\ job'.pc = "neo" /\ job'.stage = job.stage
        /\ UNCHANGED <<run, links, torn, export>>
    BY <1>0, <1>6, GotoFields DEF NeoWritePart
  <2> QED
    BY <2>1 DEF TopicsExported, At
<1>7. ASSUME NEW b \in Builds, VectorReset(b)
      PROVE  TopicsExported'
  <2>1. /\ job.stage = "vector" /\ job'.stage = "vector" /\ UNCHANGED <<run, links, torn>>
        /\ \A c \in Builds \ {b} : export'[c] = export[c]
        /\ export'[b].topic = export[b].topic
        /\ export'[b].present = export[b].present \ {"prof"}
    BY <1>0, <1>7, GotoFields DEF VectorReset, At, Without, TypeOK
  <2> QED
    BY <2>1 DEF TopicsExported, At
<1>8. ASSUME NEW b \in Builds, EnsureExports(b)
      PROVE  TopicsExported'
  <2>1. job.stage = "ensure" /\ UNCHANGED <<run, links, torn>>
    BY <1>8 DEF EnsureExports, At
  <2>2. CASE pruned[b]
    <3>1. /\ job'.stage = "ensure"
          /\ \A c \in Builds : export'[c] = export[c] \/ export'[c] = EmptyGraph
      BY <1>0, <1>8, <2>2, GotoFields DEF EnsureExports, At, TypeOK
    <3> QED
      BY <2>1, <3>1 DEF TopicsExported, At, EmptyGraph
  <2>3. CASE ~pruned[b]
    <3>1. UNCHANGED export /\ job'.pc = "prepare"
      BY <1>8, <2>3 DEF EnsureExports, Begin
    <3> QED
      BY <2>1, <3>1 DEF TopicsExported, At
  <2> QED
    BY <2>2, <2>3
<1>9. ASSUME NEW b \in Builds, Repair(b)
      PROVE  TopicsExported'
  <2>1. /\ job = NoJob /\ At(b, "repair", "reset")' /\ UNCHANGED <<export, torn>>
        /\ links' = [links EXCEPT ![b] = "good"]
    BY <1>9 DEF Repair, At, Begin
  <2>2. \A c \in Builds : run'[c]["topic"] = "COMPLETED" => run[c]["topic"] = "COMPLETED"
    BY <1>0, <1>9 DEF Repair, TypeOK, Stages
  <2>3. \A c \in Builds : links'[c] = IF c = b THEN "good" ELSE links[c]
    BY <1>0, <2>1 DEF TypeOK
  <2> QED
    BY <2>1, <2>2, <2>3, ReleaseAssumption DEF TopicsExported, At, NoJob
<1>10. ASSUME NEW b \in Builds, RepairReset(b)
      PROVE  TopicsExported'
  <2>1. /\ job.stage = "repair" /\ job.build = b /\ job'.stage = "repair" /\ job'.pc = "freeze"
        /\ UNCHANGED <<run, links, torn>>
        /\ \A c \in Builds \ {b} : export'[c] = export[c]
        /\ export'[b].topic = "none" /\ "topic" \notin export'[b].present
    BY <1>0, <1>10, GotoFields DEF RepairReset, At, Without, TypeOK
  <2> QED
    BY <2>1 DEF TopicsExported, At
<1>11. ASSUME NEW b \in Builds, NEW ch \in SUBSET Builds, Compact(b, ch)
      PROVE  TopicsExported'
  <2>1. PICK targets \in SUBSET Builds :
          /\ job = NoJob /\ job' = NoJob /\ UNCHANGED <<run, links>>
          /\ torn' = torn \ targets
          /\ export' = [c \in Builds |-> IF c \in targets THEN EmptyGraph ELSE export[c]]
    BY <1>11 DEF Compact
  <2>2. \A c \in Builds : export'[c] = IF c \in targets THEN EmptyGraph ELSE export[c]
    BY Zenon, <2>1
  <2>3. EmptyGraph.topic = "none" /\ EmptyGraph.present = {}
    BY DEF EmptyGraph
  <2> QED
    BY <2>1, <2>2, <2>3 DEF TopicsExported, At, NoJob
<1>12. ASSUME Crash
      PROVE  TopicsExported'
  <2>1. /\ job' = NoJob /\ UNCHANGED <<run, links, export>>
        /\ torn' = torn \cup {b \in Builds : At(b, "repair", "reset")}
    BY <1>12 DEF Crash
  <2> QED
    BY <2>1 DEF TopicsExported, At, NoJob
<1>13. CASE \E b \in Builds :
                \/ IngestBegin(b) \/ IngestDone(b) \/ CurationPrepare(b) \/ CurationFinish(b)
                \/ GraphPrepare(b) \/ GraphFinish(b) \/ TopicPrepare(b)
  <2>1. /\ UNCHANGED <<links, export, torn>> /\ ~(job.stage = "repair" /\ job.pc = "reset")
        /\ job.stage # "topic" \/ job.pc # "neo"
        /\ job'.stage = "topic" => job'.pc \notin {"freeze", "neo"}
    BY <1>0, <1>13, GotoFields, ReturnFields DEF
         IngestBegin, IngestDone, CurationPrepare, CurationFinish, GraphPrepare, GraphFinish,
         TopicPrepare, Refuse, NoJob, At
  <2> QED
    BY <1>1, <2>1 DEF TopicFinish, At
<1>14. CASE \E b \in Builds :
                \/ SnapshotsTaken(b) \/ StartGraphWrite(b)
                \/ VectorPrepare(b) \/ VectorStore(b) \/ VectorUpsert(b) \/ VectorMark(b)
                \/ VectorFinish(b) \/ SetNeo4j(b) \/ SwitchAlias(b) \/ RepairUnprune(b)
  <2>1. /\ UNCHANGED <<links, export, torn>> /\ ~(job.stage = "repair" /\ job.pc = "reset")
        /\ job.stage # "topic" \/ job.pc # "neo"
        /\ job'.stage = "topic" => job'.pc \notin {"freeze", "neo"}
    BY <1>0, <1>14, GotoFields DEF
         SnapshotsTaken, StartGraphWrite, VectorPrepare, VectorStore, VectorUpsert, VectorMark,
         VectorFinish, SetNeo4j, SwitchAlias, RepairUnprune, Refuse, NoJob, At
  <2> QED
    BY <1>1, <2>1 DEF TopicFinish, At
<1>15. CASE \E b \in Builds :
                \/ NeoMismatch(b) \/ StageFail(b) \/ IngestFailed(b) \/ PromoteFail(b)
                \/ PromoteFinish(b) \/ \E g \in BOOLEAN : ValidateFinish(b, g)
  <2>1. /\ UNCHANGED <<links, export, torn>> /\ job' = NoJob
        /\ ~(job.stage = "repair" /\ job.pc = "reset")
    BY <1>15 DEF
         NeoMismatch, StageFail, FailRun, IngestFailed, PromoteFail, PromoteFinish,
         ValidateFinish, At, Stages
  <2>2. \A c \in Builds : run'[c]["topic"] = "COMPLETED" => run[c]["topic"] = "COMPLETED"
    <3>1. \/ run' = run
          \/ \E b \in Builds : run' = [run EXCEPT ![b][job.stage] = "FAILED"]
      BY ZenonT(60), <1>15 DEF
           NeoMismatch, StageFail, FailRun, IngestFailed, PromoteFail, PromoteFinish,
           ValidateFinish
    <3>2. ASSUME NEW b \in Builds, run' = [run EXCEPT ![b][job.stage] = "FAILED"],
                 NEW c \in Builds
          PROVE  run'[c]["topic"] = run[c]["topic"] \/ run'[c]["topic"] = "FAILED"
      BY <1>0, <3>2 DEF TypeOK, Stages
    <3> QED
      BY <3>1, <3>2
  <2> QED
    BY <2>1, <2>2, TopicFrame DEF NoJob
<1>16. CASE \E b \in Builds :
                \/ CreateBuild(b) \/ ValidatePrepare(b) \/ PromotePrepare(b)
                \/ \E s \in {"topic", "vector"} : StageCommand(b, s)
  <2>1. /\ UNCHANGED <<links, export, torn>> /\ job = NoJob
        /\ job'.stage = "topic" => job'.pc = "prepare"
    BY <1>16 DEF CreateBuild, ValidatePrepare, PromotePrepare, StageCommand, Begin
  <2> QED
    BY <1>1, <2>1 DEF TopicFinish, At, NoJob
<1>17. CASE \E b \in Builds : ResumeRead(b) \/ ResumeLocked(b)
  <2>1. /\ UNCHANGED <<run, links, export, torn>>
        /\ job' = job \/ (job = NoJob /\ job'.pc = "prepare")
    BY <1>17 DEF ResumeRead, ResumeLocked, Begin
  <2> QED
    BY <2>1 DEF TopicsExported, At, NoJob
<1> QED
  BY <1>2, <1>3, <1>4, <1>5, <1>6, <1>7, <1>8, <1>9, <1>10, <1>11, <1>12, <1>13, <1>14, <1>15,
     <1>16, <1>17 DEF Next, JobStep, Fault, Command

\* Steps that release nothing and change no released build's links and relations in Neo4j.
LEMMA ReleasedFrame ==
  ASSUME ReleasedTopics,
         \A c \in Released' : /\ c \in Released /\ neo'[c] = neo[c] /\ links'[c] = links[c]
                              /\ c \in torn => c \in torn'
  PROVE  ReleasedTopics'
  BY DEF ReleasedTopics

\* Validation finds Neo4j equal to an export made from the links; after it no stage that
\* could change either is past its prepare transaction.
LEMMA ReleasedTopicsStep ==
  ASSUME ReleaseInv, TopicInv, Next
  PROVE  ReleasedTopics'
<1> USE DEF runVars, dataVars, graphVars, servedVars
<1>0. TypeOK /\ JobPlaces /\ ReleasedTopics
  BY DEF ReleaseInv, TopicInv
<1>1. ASSUME NEW b \in Builds, UNCHANGED torn, status'[b] \notin {"READY", "ACTIVE"},
             \A c \in Builds \ {b} : /\ status'[c] = status[c]
                                     /\ neo'[c] = neo[c] /\ links'[c] = links[c]
      PROVE  ReleasedTopics'
  BY <1>0, <1>1, ReleasedFrame DEF Released
<1>2. CASE \E b \in Builds :
                \/ VectorStore(b) \/ VectorMark(b) \/ VectorUpsert(b) \/ VectorReset(b)
                \/ FreezeDone(b) \/ EnsureExports(b) \/ GraphPrepare(b)
                \/ RepairReset(b) \/ RepairUnprune(b) \/ SetNeo4j(b) \/ SwitchAlias(b)
                \/ PromoteFail(b) \/ ResumeRead(b) \/ ResumeLocked(b) \/ PromotePrepare(b)
                \/ \E p \in Parts : FreezePart(b, p)
                \/ \E s \in {"topic", "vector"} : StageCommand(b, s)
  <2>1. UNCHANGED <<status, links, neo, torn>>
    BY ZenonT(60), <1>2 DEF
         VectorStore, VectorMark, VectorUpsert, VectorReset, FreezePart, FreezeDone,
         EnsureExports, GraphPrepare, Refuse, RepairReset, RepairUnprune, SetNeo4j,
         SwitchAlias, PromoteFail, ResumeRead, ResumeLocked, StageCommand, PromotePrepare
  <2> QED
    BY <1>0, <2>1, ReleasedFrame DEF Released
<1>3. CASE Crash
  <2>1. UNCHANGED <<status, links, neo>> /\ torn \subseteq torn'
    BY <1>3 DEF Crash
  <2> QED
    BY <1>0, <2>1, ReleasedFrame DEF Released
<1>4. ASSUME NEW b \in Builds, \/ IngestBegin(b) \/ CurationPrepare(b) \/ TopicPrepare(b)
                               \/ VectorPrepare(b)
      PROVE  ReleasedTopics'
  <2>1. /\ UNCHANGED <<links, neo, torn>>
        /\ \/ UNCHANGED status
           \/ \E st \in Working : status' = [status EXCEPT ![b] = st]
    BY ZenonT(60), <1>4 DEF
         IngestBegin, CurationPrepare, TopicPrepare, VectorPrepare, Refuse, Working
  <2>2. \A c \in Released' : c \in Released
    BY <1>0, <2>1 DEF Released, TypeOK, Working
  <2> QED
    BY <1>0, <2>1, <2>2, ReleasedFrame
<1>5. ASSUME NEW b \in Builds,
             \/ SnapshotsTaken(b) \/ IngestDone(b) \/ CurationFinish(b)
             \/ StartGraphWrite(b) \/ GraphFinish(b) \/ TopicFinish(b) \/ VectorFinish(b)
             \/ NeoMismatch(b) \/ StageFail(b) \/ IngestFailed(b)
             \/ CreateBuild(b) \/ ValidatePrepare(b)
      PROVE  ReleasedTopics'
  <2>1. /\ UNCHANGED <<links, neo, torn>>
        /\ \E st \in (Working \cup {"VALIDATING", "CREATED"}) : status' = [status EXCEPT ![b] = st]
    BY ZenonT(60), <1>5 DEF
         SnapshotsTaken, IngestDone, CurationFinish, StartGraphWrite, GraphFinish, TopicFinish,
         VectorFinish, NeoMismatch, StageFail, FailRun, IngestFailed, CreateBuild,
         ValidatePrepare, Working
  <2>2. \A c \in Released' : c \in Released
    BY <1>0, <2>1 DEF Released, TypeOK, Working
  <2> QED
    BY <1>0, <2>1, <2>2, ReleasedFrame
<1>6. ASSUME NEW b \in Builds, TopicLink(b)
      PROVE  ReleasedTopics'
  <2>1. status[b] \in Working
    BY <1>6 DEF TopicLink, At, ReleaseInv, WorkIsMarked, Stages
  <2>2. /\ UNCHANGED <<status, neo, torn>>
        /\ \A c \in Builds \ {b} : links'[c] = links[c]
    BY <1>0, <1>6 DEF TopicLink, TypeOK
  <2> QED
    BY <1>1, <2>1, <2>2 DEF Working
<1>7. ASSUME NEW b \in Builds, NEW p \in Parts, NeoWritePart(b, p)
      PROVE  ReleasedTopics'
  <2>1. job.build = b /\ job.pc = "neo" /\ UNCHANGED <<status, links, torn>>
    BY <1>7 DEF NeoWritePart
  <2>2. status[b] \in Working
    BY <1>0, <2>1 DEF JobPlaces, ReleaseInv, WorkIsMarked, Stages
  <2>3. \A c \in Builds \ {b} : neo'[c] = neo[c]
    BY <1>0, <1>7 DEF NeoWritePart, TypeOK
  <2> QED
    BY <1>1, <2>1, <2>2, <2>3 DEF Working
<1>8. ASSUME NEW b \in Builds, Repair(b)
      PROVE  ReleasedTopics'
  <2>1. /\ UNCHANGED <<neo, torn>> /\ status'[b] = "WRITING_VECTOR"
        /\ \A c \in Builds \ {b} : status'[c] = status[c] /\ links'[c] = links[c]
    BY <1>0, <1>8 DEF Repair, TypeOK
  <2> QED
    BY <1>1, <2>1
<1>9. ASSUME NEW b \in Builds, NEW ch \in SUBSET Builds, Compact(b, ch)
      PROVE  ReleasedTopics'
  <2>1. UNCHANGED <<status, links, neo>>
    BY <1>9 DEF Compact
  <2>2. \A c \in Released : c \in torn => c \in torn'
    BY <1>9 DEF Compact, Released, PROTECTED_COMPACTION_STATUSES
  <2> QED
    BY <1>0, <2>1, <2>2, ReleasedFrame DEF Released
<1>10. ASSUME NEW b \in Builds, NEW g \in BOOLEAN, ValidateFinish(b, g)
      PROVE  ReleasedTopics'
  <2>1. /\ UNCHANGED <<links, neo, torn>> /\ At(b, "validate", "checks")
        /\ \A c \in Builds \ {b} : status'[c] = status[c]
    BY <1>0, <1>10 DEF ValidateFinish, TypeOK
  <2>2. CASE ~(g /\ ChecksPass(b))
    <3>1. status'[b] = "FAILED_VALIDATION"
      BY <1>0, <1>10, <2>2 DEF ValidateFinish, TypeOK
    <3> QED
      BY <1>1, <2>1, <3>1
  <2>3. CASE g /\ ChecksPass(b)
    <3>1. /\ run[b]["topic"] = "COMPLETED" /\ "topic" \in export[b].present
          /\ neo[b].topic = export[b].topic
      BY <2>3 DEF ChecksPass, NeoMatches, Stages, Parts
    <3>2. ~At(b, "repair", "reset")
      BY <2>1 DEF At
    <3>3. b \notin torn => neo[b].topic = links[b]
      BY <3>1, <3>2 DEF TopicInv, TopicsExported
    <3> QED
      BY <1>0, <2>1, <3>3 DEF ReleasedTopics, Released
  <2> QED
    BY <2>2, <2>3
<1>11. ASSUME NEW b \in Builds, PromoteFinish(b)
      PROVE  ReleasedTopics'
  <2>1. UNCHANGED <<links, neo, torn>>
    BY <1>11 DEF PromoteFinish
  <2>2. status[b] = "READY"
    BY <1>11 DEF PromoteFinish, At, ReleaseInv, WorkIsMarked
  <2>3. \A c \in Builds : status'[c] \in {"READY", "ACTIVE"} => status[c] \in {"READY", "ACTIVE"}
    BY <1>11, <2>2 DEF PromoteFinish
  <2> QED
    BY <1>0, <2>1, <2>3, ReleasedFrame DEF Released
<1> QED
  BY <1>2, <1>3, <1>4, <1>5, <1>6, <1>7, <1>8, <1>9, <1>10, <1>11 DEF Next, JobStep, Fault, Command

-----------------------------------------------------------------------------
\* The initial state, with the builds an older release left behind, satisfies it.
LEMMA InitInv ==
  ASSUME Init
  PROVE  ReleaseInv
<1> USE ReleaseAssumption
<1>1. TypeOK
  BY DEF
       Init, TypeOK, Status, RunStatus, Versions, Graph, Complete, EmptyGraph, NoProfiles, Parts,
       NoJob, Job
<1>2. JobPlaces /\ WorkIsMarked /\ UploadInOrder
  BY DEF Init, NoJob, JobPlaces, WorkIsMarked, UploadInOrder
<1>3. UploadsCurrent
  BY DEF Init, UploadsCurrent, Batches, Stages
<1>4. SafePromotion /\ DoneHasRows
  BY DEF Init, SafePromotion, DoneHasRows, Complete
<1>5. CheckpointsTruthful
  BY DEF Init, CheckpointsTruthful, Complete, EmptyGraph, Batches
<1>6. ReleasedVectors /\ DivergenceRecorded
  BY DEF Init, ReleasedVectors, Released, DivergenceRecorded
<1> QED
  BY <1>1, <1>2, <1>3, <1>4, <1>5, <1>6 DEF ReleaseInv

\* Every step of every command, failure and crash preserves it.
LEMMA StepInv ==
  ASSUME ReleaseInv, [Next]_vars
  PROVE  ReleaseInv'
<1>1. CASE Next
  <2>1. TypeOK' /\ JobPlaces'
    BY <1>1, TypeStep, PlacesStep DEF ReleaseInv
  <2>2. WorkIsMarked' /\ UploadInOrder' /\ UploadsCurrent'
    BY <1>1, MarkedStep, OrderStep, CurrentStep
  <2>3. SafePromotion' /\ DoneHasRows' /\ CheckpointsTruthful'
    BY <1>1, SafeStep, RowsStep, CheckpointsStep
  <2>4. ReleasedVectors' /\ DivergenceRecorded'
    BY <1>1, ReleasedStep, DivergenceStep
  <2> QED
    BY <2>1, <2>2, <2>3, <2>4 DEF ReleaseInv
<1>2. CASE UNCHANGED vars
  BY <1>2 DEF
       vars, runVars, dataVars, graphVars, servedVars, ReleaseInv, TypeOK, JobPlaces,
       WorkIsMarked, UploadInOrder, UploadsCurrent, SafePromotion, DoneHasRows,
       CheckpointsTruthful, ReleasedVectors, Released, DivergenceRecorded, Rows
<1> QED
  BY <1>1, <1>2

\* The inductive invariant holds in every reachable state.
THEOREM Invariance == Spec => []ReleaseInv
  BY InitInv, StepInv, PTL DEF Spec

\* The topic relations of an export, and of a released build in Neo4j, follow the links.
LEMMA TopicsFollowLinks == Spec => []TopicInv
<1>1. ASSUME Init
      PROVE  TopicInv
  BY <1>1 DEF
       Init, TopicInv, TopicsExported, ReleasedTopics, Released, Complete, EmptyGraph, At, NoJob,
       Stages
<1>2. ASSUME ReleaseInv, TopicInv, [Next]_vars
      PROVE  TopicInv'
  <2>1. CASE Next
    BY <1>2, <2>1, TopicsStep, ReleasedTopicsStep DEF TopicInv
  <2>2. CASE UNCHANGED vars
    BY <1>2, <2>2 DEF
         vars, runVars, dataVars, graphVars, servedVars, TopicInv, TopicsExported,
         ReleasedTopics, Released, At
  <2> QED
    BY <1>2, <2>1, <2>2
<1> QED
  BY Invariance, <1>1, <1>2, PTL DEF Spec

\* Every column, checkpoint and store holds a value the code writes there, and the process
\* with the write lock stands at one of its stages' steps, whatever is interrupted.
THEOREM TypeCorrect == Spec => []TypeOK
<1>1. ReleaseInv => TypeOK
  BY DEF ReleaseInv
<1> QED
  BY Invariance, <1>1, PTL

\* What is READY or ACTIVE is complete; its profiles, professor nodes and points are those
\* of the links in the catalog, and so are its topic relations in Neo4j, unless a
\* repair-links of it was killed before their rebuild (the stages' runs, _catalog_checks,
\* _finish, repair_topic_links).
THEOREM ReleasedIsCurrentAlways == Spec => []ReleasedIsCurrent
<1>1. ReleaseInv /\ TopicInv => ReleasedIsCurrent
  BY DEF ReleaseInv, ReleasedVectors, TopicInv, ReleasedTopics, ReleasedIsCurrent
<1> QED
  BY Invariance, TopicsFollowLinks, <1>1, PTL

\* The Qdrant and Neo4j checkpoints never claim more than the stores hold, so a resumed
\* stage skips nothing it still has to write (_upload_checkpoint, write_neo4j_exports).
THEOREM CheckpointsTruthfulAlways == Spec => []CheckpointsTruthful
<1>1. ReleaseInv => CheckpointsTruthful
  BY DEF ReleaseInv
<1> QED
  BY Invariance, <1>1, PTL

\* At most one build is ACTIVE, and a store that serves another one does so under a
\* promotion the catalog records as unfinished (run_promotion).
THEOREM DivergenceRecordedAlways == Spec => []DivergenceRecorded
<1>1. ReleaseInv => DivergenceRecorded
  BY DEF ReleaseInv
<1> QED
  BY Invariance, <1>1, PTL

\* No command writes to what an ACTIVE build serves, whatever it read before it had the
\* lock; only a promotion takes its status (_prepare_run of the stages, resume_build).
THEOREM ActiveUntouchedAlways == Spec => ActiveUntouched
<1>1. ASSUME ReleaseInv, [Next]_vars
      PROVE  [\A b \in Builds : status[b] = "ACTIVE" => Untouched(b)]_vars
  BY <1>1, ActiveStep
<1>2. [\A b \in Builds : status[b] = "ACTIVE" => Untouched(b)]_vars =>
      [\A b \in Builds : status[b] = "ACTIVE" =>
          /\ run'[b] = run[b] /\ verdict'[b] = verdict[b]
          /\ links'[b] = links[b] /\ profile'[b] = profile[b]
          /\ neo'[b] = neo[b] /\ points'[b] = points[b]
          /\ status'[b] \in {"ACTIVE", "READY"}]_vars
  BY DEF Untouched
<1> QED
  BY Invariance, <1>1, <1>2, PTL DEF Spec, ActiveUntouched
=============================================================================
