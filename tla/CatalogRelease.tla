--------------------------- MODULE CatalogRelease ---------------------------
(***************************************************************************)
(* The life of a graph build in the catalog, from `dext graph build` to    *)
(* the release that readers are served:                                    *)
(* src/dext_graph/catalog/{workflow,curation,graph_workflow,evidence,      *)
(* neo4j_sink,topic_workflow,topic_repair,vector_workflow,vector_sink,     *)
(* lifecycle,maintenance}.py.                                              *)
(*                                                                         *)
(* Each command of the CLI is a job of one process that holds the catalog  *)
(* write lock (catalog_write_lock, non-blocking) and dies with it.  A job  *)
(* runs stages; a stage is a sequence of catalog transactions and writes   *)
(* to Neo4j and Qdrant, and may fail or be killed between any two.  Only   *)
(* `resume` looks at the catalog before it has the lock.                   *)
(*                                                                         *)
(* The data is abstracted to its version.  The approved topic links of a   *)
(* build are absent ("none"), contain incompatible ones written by an      *)
(* older release ("bad"), or are all compatible ("good"); a professor's    *)
(* profile, its Neo4j node and its Qdrant point carry the version of the   *)
(* links they were made from.                                              *)
(***************************************************************************)
EXTENDS Naturals, FiniteSets

CONSTANTS
    Builds,       \* build IDs
    Legacy,       \* builds an older release left in VALIDATING with "bad" links
    NoBuild,      \* no build
    NumBatches,   \* Qdrant upload batches of a build's professors
    MaxFaults     \* bound: failures and crashes in one behaviour

ASSUME ReleaseAssumption ==
    /\ Legacy \subseteq Builds
    /\ NoBuild \notin Builds
    /\ NumBatches \in Nat \ {0}
    /\ MaxFaults \in Nat

Batches == 1..NumBatches
Stages == {"curation", "graph", "topic", "vector"}
RunStatus == {"none", "PENDING", "RUNNING", "COMPLETED", "FAILED"}
Versions == {"missing", "none", "bad", "good"}

Status == {"none", "CREATED", "SNAPSHOTTING", "INGESTING", "CURATING", "EMBEDDING",
           "WRITING_GRAPH", "WRITING_VECTOR", "VALIDATING", "READY", "ACTIVE",
           "FAILED", "FAILED_VALIDATION"}

\* The export partitions: node:Professor, the five topic relations, all others.
Parts == {"prof", "topic", "rest"}

\* They are handled in the order of PARTITIONS: the last of each kind comes in this order.
Position(p) == CASE p = "prof" -> 1 [] p = "topic" -> 2 [] OTHER -> 3

\* The rows of a graph, in the catalog's export tables or in Neo4j: which partitions
\* are complete and the versions the professor nodes and the topic relations carry.
Graph == [present : SUBSET Parts, prof : [Batches -> Versions], topic : Versions]
NoProfiles == [k \in Batches |-> "missing"]
EmptyGraph == [present |-> {}, prof |-> NoProfiles, topic |-> "none"]

\* The process holding the write lock: its stage, the point it has reached, whether
\* the command goes on with the next stage, and the partitions it has still to handle.
Job == [stage : Stages \cup {"idle", "ingest", "ensure", "repair", "validate", "promote"},
        pc : {"idle", "prepare", "snapshot", "ingest", "work", "link", "store", "upsert",
              "mark", "reset", "freeze", "startWrite", "neo", "unprune", "checks",
              "setNeo4j", "switchAlias", "readback"},
        build : Builds \cup {NoBuild},
        chain : BOOLEAN,
        left : SUBSET Parts]
NoJob == [stage |-> "idle", pc |-> "idle", build |-> NoBuild, chain |-> FALSE, left |-> {}]

VARIABLES
    status,     \* graph_builds.status ("none": no row)
    run,        \* run[b][s]: status of the stage's row in <s>_runs
    verdict,    \* validation_runs.status
    promo,      \* promotion_runs.status
    snapped,    \* builds whose sources all have a registered snapshot
    links,      \* version of the approved statement_topic_links
    profile,    \* professor_profiles, per batch
    uploaded,   \* sink_checkpoints 'qdrant': batches uploaded
    export,     \* graph_export_rows / graph_export_partitions
    pruned,     \* export_pruned in the graph run's summary
    neoDone,    \* sink_checkpoints 'neo4j': partitions written
    neo,        \* Neo4j: the build's subgraph
    points,     \* Qdrant: the build's collection, per batch
    neoActive,  \* Neo4j: the build the active pointer names
    alias,      \* Qdrant: the build the current alias names
    torn,       \* history: builds whose repair-links was killed between its downgrade of
                \* the links and its rebuild of the exported topic relations, and whose
                \* export has not been deleted since
    job,        \* the command that holds the write lock, or NoJob
    intent,     \* what a `resume` waiting for the lock has read, or NoIntent
    faults      \* failures and crashes so far

runVars == <<status, run, verdict, promo, snapped>>
dataVars == <<links, profile, uploaded>>
graphVars == <<export, pruned, neoDone, neo>>
servedVars == <<neoActive, alias, torn>>
vars == <<runVars, dataVars, graphVars, points, servedVars, job, intent, faults>>

Intent == [build : Builds, status : Status, pruned : BOOLEAN]
NoIntent == [build |-> NoBuild, status |-> "none", pruned |-> FALSE]

Complete(v) == [present |-> Parts, prof |-> [k \in Batches |-> v], topic |-> v]

Init ==
    /\ status = [b \in Builds |-> IF b \in Legacy THEN "VALIDATING" ELSE "none"]
    /\ run = [b \in Builds |-> [s \in Stages |-> IF b \in Legacy THEN "COMPLETED" ELSE "none"]]
    /\ verdict = [b \in Builds |-> "none"]
    /\ promo = [b \in Builds |-> "none"]
    /\ snapped = Legacy
    /\ links = [b \in Builds |-> IF b \in Legacy THEN "bad" ELSE "none"]
    /\ profile = [b \in Builds |-> [k \in Batches |-> IF b \in Legacy THEN "bad" ELSE "missing"]]
    /\ uploaded = [b \in Builds |-> IF b \in Legacy THEN NumBatches ELSE 0]
    /\ export = [b \in Builds |-> IF b \in Legacy THEN Complete("bad") ELSE EmptyGraph]
    /\ pruned = [b \in Builds |-> FALSE]
    /\ neoDone = [b \in Builds |-> IF b \in Legacy THEN Parts ELSE {}]
    /\ neo = export
    /\ points = profile
    /\ neoActive = NoBuild
    /\ alias = NoBuild
    /\ torn = {}
    /\ job = NoJob
    /\ intent = NoIntent
    /\ faults = 0

-----------------------------------------------------------------------------
(* Helpers.                                                                *)

At(b, stage, pc) == job.build = b /\ job.stage = stage /\ job.pc = pc
Goto(pc) == [job EXCEPT !.pc = pc, !.left = {}]
GotoFor(pc, parts) == [job EXCEPT !.pc = pc, !.left = parts]
Begin(b, stage, pc, chain) ==
    [stage |-> stage, pc |-> pc, build |-> b, chain |-> chain, left |-> {}]

NextPart(p) == p \in job.left /\ \A q \in job.left : Position(p) <= Position(q)

\* The stage a create or resume command enters when the previous one returned
\* with this build status; a command for one stage, or any other status, ends it.
NextStage(stage, st) ==
    CASE stage = "ingest" /\ st = "CURATING" -> "curation"
      [] stage = "curation" /\ st = "EMBEDDING" -> "graph"
      [] stage = "graph" /\ st = "WRITING_VECTOR" -> "topic"
      [] stage = "topic" /\ st = "WRITING_VECTOR" -> "vector"
      [] OTHER -> "idle"

Return(b, stage, st) ==
    IF job.chain /\ NextStage(stage, st) # "idle"
    THEN Begin(b, NextStage(stage, st), "prepare", TRUE)
    ELSE NoJob

\* freeze_graph_exports of one partition: rows at or below the partition's
\* checkpoint are skipped, so a partition that has rows keeps them.
Frozen(b, p) ==
    [present |-> export[b].present \cup {p},
     prof |-> IF p = "prof" /\ p \notin export[b].present THEN profile[b] ELSE export[b].prof,
     topic |-> IF p = "topic" /\ export[b].topic = "none" THEN links[b] ELSE export[b].topic]

\* The export tables without the rows and manifests of some partitions.
Without(g, parts) ==
    [present |-> g.present \ parts,
     prof |-> IF "prof" \in parts THEN NoProfiles ELSE g.prof,
     topic |-> IF "topic" \in parts THEN "none" ELSE g.topic]

\* write_neo4j_exports of one partition.  Without a checkpoint its relations are
\* cleared and its rows written; nodes are merged and never deleted.
Written(b, p) ==
    IF p \in neoDone[b] THEN neo[b]
    ELSE [present |-> IF p \in export[b].present THEN neo[b].present \cup {p}
                      ELSE IF p = "prof" THEN neo[b].present ELSE neo[b].present \ {p},
          prof |-> IF p = "prof" /\ p \in export[b].present THEN export[b].prof ELSE neo[b].prof,
          topic |-> IF p = "topic" THEN export[b].topic ELSE neo[b].topic]

\* The partitions of which rows have been written, and so have a checkpoint.
HasRows(b, p) == p \in export[b].present /\ (p = "topic" => export[b].topic # "none")

\* validate_neo4j_exports: every manifest is there and Neo4j's rows match it.
NeoMatches(b) == export[b].present = Parts /\ neo[b] = export[b]

\* Batches of eligible professors: curation makes the canonical rows.
Rows(b) == IF run[b]["curation"] = "COMPLETED" THEN NumBatches ELSE 0

-----------------------------------------------------------------------------
(* Stage 1: snapshots and ingest of the sources (_run_build).              *)

CreateBuild(b) ==
    /\ job = NoJob
    /\ status[b] = "none"
    /\ status' = [status EXCEPT ![b] = "CREATED"]
    /\ job' = Begin(b, "ingest", "prepare", TRUE)
    /\ UNCHANGED <<run, verdict, promo, snapped, dataVars, graphVars, points, servedVars,
                   intent, faults>>

\* A build already past stage 1 is passed on or refused; otherwise the missing
\* snapshots are taken first.
IngestBegin(b) ==
    /\ At(b, "ingest", "prepare")
    /\ \/ /\ status[b] \notin {"CREATED", "SNAPSHOTTING", "INGESTING", "FAILED"}
          /\ job' = Return(b, "ingest", status[b])
          /\ UNCHANGED status
       \/ /\ status[b] \in {"CREATED", "SNAPSHOTTING", "INGESTING", "FAILED"}
          /\ b \in snapped
          /\ status' = [status EXCEPT ![b] = "INGESTING"]
          /\ job' = Goto("ingest")
       \/ /\ status[b] \in {"CREATED", "SNAPSHOTTING", "INGESTING", "FAILED"}
          /\ b \notin snapped
          /\ status' = [status EXCEPT ![b] = "SNAPSHOTTING"]
          /\ job' = Goto("snapshot")
    /\ UNCHANGED <<run, verdict, promo, snapped, dataVars, graphVars, points, servedVars,
                   intent, faults>>

SnapshotsTaken(b) ==
    /\ At(b, "ingest", "snapshot")
    /\ snapped' = snapped \cup {b}
    /\ status' = [status EXCEPT ![b] = "INGESTING"]
    /\ job' = Goto("ingest")
    /\ UNCHANGED <<run, verdict, promo, dataVars, graphVars, points, servedVars, intent, faults>>

IngestDone(b) ==
    /\ At(b, "ingest", "ingest")
    /\ status' = [status EXCEPT ![b] = "CURATING"]
    /\ job' = Return(b, "ingest", "CURATING")
    /\ UNCHANGED <<run, verdict, promo, snapped, dataVars, graphVars, points, servedVars,
                   intent, faults>>

\* Some source failed: its task says why, the others were still processed.
IngestFailed(b) ==
    /\ job.build = b /\ job.stage = "ingest" /\ job.pc \in {"snapshot", "ingest"}
    /\ faults < MaxFaults
    /\ faults' = faults + 1
    /\ status' = [status EXCEPT ![b] = "FAILED"]
    /\ job' = NoJob
    /\ UNCHANGED <<run, verdict, promo, snapped, dataVars, graphVars, points, servedVars, intent>>

-----------------------------------------------------------------------------
(* The four stages after it.  Each prepares its run in one transaction,    *)
(* returns at once when the run is COMPLETED, and finishes or fails it in  *)
(* another.                                                                *)

\* The command ends with an exception and no change.
Refuse == job' = NoJob /\ UNCHANGED <<status, run>>

CurationPrepare(b) ==
    /\ At(b, "curation", "prepare")
    /\ \/ run[b]["curation"] = "none" /\ status[b] # "CURATING" /\ Refuse
       \/ /\ run[b]["curation"] = "COMPLETED"
          /\ job' = Return(b, "curation", status[b])
          /\ UNCHANGED <<status, run>>
       \/ /\ run[b]["curation"] # "COMPLETED"
          /\ run[b]["curation"] = "none" => status[b] = "CURATING"
          /\ run' = [run EXCEPT ![b]["curation"] = "RUNNING"]
          /\ status' = [status EXCEPT ![b] = "CURATING"]
          /\ job' = Goto("work")
    /\ UNCHANGED <<verdict, promo, snapped, dataVars, graphVars, points, servedVars, intent, faults>>

CurationFinish(b) ==
    /\ At(b, "curation", "work")
    /\ run' = [run EXCEPT ![b]["curation"] = "COMPLETED"]
    /\ status' = [status EXCEPT ![b] = "EMBEDDING"]
    /\ job' = Return(b, "curation", "EMBEDDING")
    /\ UNCHANGED <<verdict, promo, snapped, dataVars, graphVars, points, servedVars, intent, faults>>

GraphPrepare(b) ==
    /\ At(b, "graph", "prepare")
    /\ \/ status[b] \notin {"EMBEDDING", "WRITING_GRAPH", "FAILED"} /\ Refuse
       \/ /\ status[b] \in {"EMBEDDING", "WRITING_GRAPH", "FAILED"}
          /\ run[b]["graph"] = "COMPLETED"
          /\ job' = Return(b, "graph", status[b])
          /\ UNCHANGED <<status, run>>
       \/ /\ status[b] \in {"EMBEDDING", "WRITING_GRAPH", "FAILED"}
          /\ run[b]["graph"] # "COMPLETED"
          /\ run' = [run EXCEPT ![b]["graph"] = "RUNNING"]
          /\ job' = GotoFor("freeze", Parts)
          /\ UNCHANGED status
    /\ UNCHANGED <<verdict, promo, snapped, dataVars, graphVars, points, servedVars, intent, faults>>

StartGraphWrite(b) ==
    /\ At(b, "graph", "startWrite")
    /\ status' = [status EXCEPT ![b] = "WRITING_GRAPH"]
    /\ job' = GotoFor("neo", Parts)
    /\ UNCHANGED <<run, verdict, promo, snapped, dataVars, graphVars, points, servedVars,
                   intent, faults>>

GraphFinish(b) ==
    /\ At(b, "graph", "neo") /\ job.left = {} /\ NeoMatches(b)
    /\ run' = [run EXCEPT ![b]["graph"] = "COMPLETED"]
    /\ status' = [status EXCEPT ![b] = "WRITING_VECTOR"]
    /\ pruned' = [pruned EXCEPT ![b] = FALSE]
    /\ job' = Return(b, "graph", "WRITING_VECTOR")
    /\ UNCHANGED <<verdict, promo, snapped, dataVars, export, neoDone, neo, points, servedVars,
                   intent, faults>>

\* The build goes back to WRITING_VECTOR even when the topic run is COMPLETED.
TopicPrepare(b) ==
    /\ At(b, "topic", "prepare")
    /\ \/ status[b] \notin {"WRITING_VECTOR", "VALIDATING", "FAILED"} /\ Refuse
       \/ /\ status[b] \in {"WRITING_VECTOR", "VALIDATING", "FAILED"}
          /\ status' = [status EXCEPT ![b] = "WRITING_VECTOR"]
          /\ \/ /\ run[b]["topic"] = "COMPLETED"
                /\ job' = Return(b, "topic", "WRITING_VECTOR")
                /\ UNCHANGED run
             \/ /\ run[b]["topic"] # "COMPLETED"
                /\ run' = [run EXCEPT ![b]["topic"] = "RUNNING"]
                /\ job' = Goto("link")
    /\ UNCHANGED <<verdict, promo, snapped, dataVars, graphVars, points, servedVars, intent, faults>>

\* Statements already linked keep their links.
TopicLink(b) ==
    /\ At(b, "topic", "link")
    /\ links' = [links EXCEPT ![b] = IF @ = "none" THEN "good" ELSE @]
    /\ job' = GotoFor("freeze", Parts)
    /\ UNCHANGED <<runVars, profile, uploaded, graphVars, points, servedVars, intent, faults>>

\* Mutant: the topic stage sends the vector run back but keeps its upload checkpoint.
TopicFinishKeepsUpload(b) ==
    /\ At(b, "topic", "neo") /\ job.left = {} /\ NeoMatches(b)
    /\ run' = [run EXCEPT ![b]["topic"] = "COMPLETED",
                          ![b]["vector"] = IF @ = "none" THEN @ ELSE "PENDING"]
    /\ status' = [status EXCEPT ![b] = "WRITING_VECTOR"]
    /\ job' = Return(b, "topic", "WRITING_VECTOR")
    /\ UNCHANGED <<verdict, promo, snapped, dataVars, graphVars, points, servedVars,
                   intent, faults>>

\* The profiles carry the topics, so an existing vector run starts over.  Without one
\* nothing has been uploaded.
TopicFinish(b) ==
    /\ At(b, "topic", "neo") /\ job.left = {} /\ NeoMatches(b)
    /\ run' = [run EXCEPT ![b]["topic"] = "COMPLETED",
                          ![b]["vector"] = IF @ = "none" THEN @ ELSE "PENDING"]
    /\ uploaded' = [uploaded EXCEPT ![b] = 0]
    /\ status' = [status EXCEPT ![b] = "WRITING_VECTOR"]
    /\ job' = Return(b, "topic", "WRITING_VECTOR")
    /\ UNCHANGED <<verdict, promo, snapped, links, profile, graphVars, points, servedVars,
                   intent, faults>>

\* Here too: WRITING_VECTOR even when the vector run is COMPLETED.
VectorPrepare(b) ==
    /\ At(b, "vector", "prepare")
    /\ \/ status[b] \notin {"WRITING_VECTOR", "FAILED"} /\ Refuse
       \/ /\ status[b] \in {"WRITING_VECTOR", "FAILED"}
          /\ status' = [status EXCEPT ![b] = "WRITING_VECTOR"]
          /\ \/ run[b]["vector"] = "COMPLETED" /\ job' = NoJob /\ UNCHANGED run
             \/ /\ run[b]["vector"] # "COMPLETED"
                /\ run' = [run EXCEPT ![b]["vector"] = "RUNNING"]
                /\ job' = Goto("store")
    /\ UNCHANGED <<verdict, promo, snapped, dataVars, graphVars, points, servedVars, intent, faults>>

\* One batch: profiles into the catalog, points into Qdrant, then the checkpoint.
VectorStore(b) ==
    /\ At(b, "vector", "store") /\ uploaded[b] < Rows(b)
    /\ profile' = [profile EXCEPT ![b][uploaded[b] + 1] = links[b]]
    /\ job' = Goto("upsert")
    /\ UNCHANGED <<runVars, links, uploaded, graphVars, points, servedVars, intent, faults>>

VectorUpsert(b) ==
    /\ At(b, "vector", "upsert")
    /\ points' = [points EXCEPT ![b][uploaded[b] + 1] = profile[b][uploaded[b] + 1]]
    /\ job' = Goto("mark")
    /\ UNCHANGED <<runVars, dataVars, graphVars, servedVars, intent, faults>>

VectorMark(b) ==
    /\ At(b, "vector", "mark")
    /\ uploaded' = [uploaded EXCEPT ![b] = @ + 1]
    /\ job' = Goto("store")
    /\ UNCHANGED <<runVars, links, profile, graphVars, points, servedVars, intent, faults>>

\* Mutant: the professor rows are exported again behind the old Neo4j checkpoint.
VectorResetKeepsNeo(b) ==
    /\ At(b, "vector", "store") /\ uploaded[b] >= Rows(b)
    /\ export' = [export EXCEPT ![b] = Without(@, {"prof"})]
    /\ job' = GotoFor("freeze", {"prof"})
    /\ UNCHANGED <<runVars, dataVars, pruned, neoDone, neo, points, servedVars, intent, faults>>

\* All uploaded: the professor nodes are exported again, with their profile hashes.
VectorReset(b) ==
    /\ At(b, "vector", "store") /\ uploaded[b] >= Rows(b)
    /\ export' = [export EXCEPT ![b] = Without(@, {"prof"})]
    /\ neoDone' = [neoDone EXCEPT ![b] = @ \ {"prof"}]
    /\ job' = GotoFor("freeze", {"prof"})
    /\ UNCHANGED <<runVars, dataVars, pruned, neo, points, servedVars, intent, faults>>

VectorFinish(b) ==
    /\ At(b, "vector", "neo") /\ job.left = {} /\ NeoMatches(b)
    /\ \A k \in 1..Rows(b) : points[b][k] # "missing"
    /\ run' = [run EXCEPT ![b]["vector"] = "COMPLETED"]
    /\ status' = [status EXCEPT ![b] = "VALIDATING"]
    /\ job' = NoJob
    /\ UNCHANGED <<verdict, promo, snapped, dataVars, graphVars, points, servedVars, intent, faults>>

-----------------------------------------------------------------------------
(* The export and Neo4j steps the stages share.                            *)

FreezePart(b, p) ==
    /\ job.build = b /\ job.pc = "freeze" /\ NextPart(p)
    /\ export' = [export EXCEPT ![b] = Frozen(b, p)]
    /\ job' = GotoFor("freeze", job.left \ {p})
    /\ UNCHANGED <<runVars, dataVars, pruned, neoDone, neo, points, servedVars, intent, faults>>

\* Only an export of all partitions clears export_pruned by itself; the repair
\* does it in a transaction of its own.
FreezeDone(b) ==
    /\ job.build = b /\ job.pc = "freeze" /\ job.left = {}
    /\ pruned' = [pruned EXCEPT ![b] = @ /\ job.stage \in {"vector", "repair"}]
    /\ job' = CASE job.stage = "graph" -> Goto("startWrite")
                [] job.stage \in {"topic", "vector"} -> GotoFor("neo", Parts)
                [] job.stage = "repair" -> Goto("unprune")
                [] OTHER -> Begin(b, "topic", "prepare", TRUE)
    /\ UNCHANGED <<runVars, dataVars, export, neoDone, neo, points, servedVars, intent, faults>>

NeoWritePart(b, p) ==
    /\ job.build = b /\ job.pc = "neo" /\ NextPart(p)
    /\ neo' = [neo EXCEPT ![b] = Written(b, p)]
    /\ neoDone' = [neoDone EXCEPT ![b] = IF HasRows(b, p) THEN @ \cup {p} ELSE @]
    /\ job' = GotoFor("neo", job.left \ {p})
    /\ UNCHANGED <<runVars, dataVars, export, pruned, points, servedVars, intent, faults>>

\* The handler of a stage's exceptions.
FailRun(b) ==
    /\ run' = [run EXCEPT ![b][job.stage] = "FAILED"]
    /\ status' = [status EXCEPT ![b] = "FAILED"]
    /\ job' = NoJob
    /\ UNCHANGED <<verdict, promo, snapped, dataVars, graphVars, points, servedVars, intent>>

\* Neo4j does not match the export, or the export is incomplete.
NeoMismatch(b) ==
    /\ job.build = b /\ job.pc = "neo" /\ job.left = {} /\ ~NeoMatches(b)
    /\ FailRun(b)
    /\ UNCHANGED faults

\* An outside error: a store, the embedding service or the LLM fails.
StageFail(b) ==
    /\ job.build = b /\ job.stage \in Stages /\ job.pc # "prepare"
    /\ faults < MaxFaults
    /\ faults' = faults + 1
    /\ FailRun(b)

\* The process is killed, or an exception leaves the command outside any stage's
\* handler; the lock goes with it.
Crash ==
    /\ job # NoJob
    /\ faults < MaxFaults
    /\ faults' = faults + 1
    /\ torn' = torn \cup {b \in Builds : At(b, "repair", "reset")}
    /\ job' = NoJob
    /\ UNCHANGED <<runVars, dataVars, graphVars, points, neoActive, alias, intent>>

-----------------------------------------------------------------------------
(* Commands on an existing build.                                          *)

\* `resume` reads the build before it takes the lock; a build that has reached
\* validation is only reported.
ResumeRead(b) ==
    /\ intent = NoIntent
    /\ status[b] \notin {"none", "VALIDATING", "FAILED_VALIDATION", "READY", "ACTIVE"}
    /\ intent' = [build |-> b, status |-> status[b], pruned |-> pruned[b]]
    /\ UNCHANGED <<runVars, dataVars, graphVars, points, servedVars, job, faults>>

\* The stage `resume` enters, by the status it read and the runs there are now.
ResumeStage(b, st) ==
    CASE st = "WRITING_VECTOR" -> "topic"
      [] st = "FAILED" /\ (run[b]["topic"] # "none" \/ run[b]["vector"] # "none") -> "topic"
      [] st \in {"EMBEDDING", "WRITING_GRAPH"} -> "graph"
      [] st = "FAILED" /\ run[b]["topic"] = "none" /\ run[b]["vector"] = "none"
           /\ run[b]["graph"] # "none" -> "graph"
      [] st = "CURATING" -> "curation"
      [] st = "FAILED" /\ run[b]["topic"] = "none" /\ run[b]["vector"] = "none"
           /\ run[b]["graph"] = "none" /\ run[b]["curation"] # "none" -> "curation"
      [] OTHER -> "ingest"

\* A build whose exports were pruned first gets them back.
EntryStage(stage) == IF stage = "topic" /\ intent.pruned THEN "ensure" ELSE stage

\* Without the lock the command is refused; with it, it goes by what it read.
ResumeLocked(b) ==
    /\ intent.build = b
    /\ intent' = NoIntent
    /\ \/ job # NoJob /\ UNCHANGED job
       \/ /\ job = NoJob
          /\ job' = Begin(b, EntryStage(ResumeStage(b, intent.status)), "prepare", TRUE)
    /\ UNCHANGED <<runVars, dataVars, graphVars, points, servedVars, faults>>

\* ensure_graph_exports_available: a pruned export is built again from nothing.
EnsureExports(b) ==
    /\ At(b, "ensure", "prepare")
    /\ \/ /\ pruned[b]
          /\ export' = [export EXCEPT ![b] = EmptyGraph]
          /\ neoDone' = [neoDone EXCEPT ![b] = {}]
          /\ job' = GotoFor("freeze", Parts)
       \/ /\ ~pruned[b]
          /\ job' = Begin(b, "topic", "prepare", TRUE)
          /\ UNCHANGED <<export, neoDone>>
    /\ UNCHANGED <<runVars, dataVars, pruned, neo, points, servedVars, intent, faults>>

\* `dext graph topics build` and `dext graph vector`: one stage.
StageCommand(b, stage) ==
    /\ job = NoJob
    /\ status[b] # "none"
    /\ job' = Begin(b, stage, "prepare", FALSE)
    /\ UNCHANGED <<runVars, dataVars, graphVars, points, servedVars, intent, faults>>

\* `dext graph topics repair-links`: downgrade the incompatible links and send the
\* build back to the vector stage; without such links nothing is changed.
Repair(b) ==
    /\ job = NoJob
    /\ status[b] \notin {"none", "ACTIVE"}
    /\ links[b] = "bad"
    /\ links' = [links EXCEPT ![b] = "good"]
    /\ run' = [run EXCEPT ![b]["vector"] = IF @ = "none" THEN @ ELSE "PENDING"]
    /\ uploaded' = [uploaded EXCEPT ![b] = 0]
    /\ verdict' = [verdict EXCEPT ![b] = "none"]
    /\ promo' = [promo EXCEPT ![b] = "none"]
    /\ status' = [status EXCEPT ![b] = "WRITING_VECTOR"]
    /\ job' = Begin(b, "repair", "reset", FALSE)
    /\ UNCHANGED <<snapped, profile, graphVars, points, servedVars, intent, faults>>

\* Then rebuild the topic relations of the export.
RepairReset(b) ==
    /\ At(b, "repair", "reset")
    /\ export' = [export EXCEPT ![b] = Without(@, {"topic"})]
    /\ neoDone' = [neoDone EXCEPT ![b] = @ \ {"topic"}]
    /\ job' = GotoFor("freeze", {"topic"})
    /\ UNCHANGED <<runVars, dataVars, pruned, neo, points, servedVars, intent, faults>>

RepairUnprune(b) ==
    /\ At(b, "repair", "unprune")
    /\ pruned' = [pruned EXCEPT ![b] = FALSE]
    /\ job' = NoJob
    /\ UNCHANGED <<runVars, dataVars, export, neoDone, neo, points, servedVars, intent, faults>>

\* `dext graph catalog compact --keep-build keep --prune-build ...`: the exports of
\* the chosen builds and of every FAILED one that has any are deleted and marked as
\* pruned, in one transaction (the dry run without --yes changes nothing).
PROTECTED_COMPACTION_STATUSES == {"ACTIVE", "READY", "VALIDATING"}

Compact(keep, chosen) ==
    LET known == {b \in Builds : status[b] # "none"}
        protected == {b \in known : status[b] \in PROTECTED_COMPACTION_STATUSES} \cup {keep}
        targets == chosen \cup {b \in known \ protected :
                                 status[b] = "FAILED" /\ export[b].present # {}}
    IN  /\ job = NoJob
        /\ keep \in known
        /\ chosen \subseteq known \ protected
        /\ targets # {}
        /\ export' = [b \in Builds |-> IF b \in targets THEN EmptyGraph ELSE export[b]]
        /\ neoDone' = [b \in Builds |-> IF b \in targets THEN {} ELSE neoDone[b]]
        /\ pruned' = [b \in Builds |-> IF b \in targets /\ run[b]["graph"] # "none" THEN TRUE
                                       ELSE pruned[b]]
        /\ torn' = torn \ targets
        /\ UNCHANGED <<runVars, dataVars, neo, points, neoActive, alias, job, intent, faults>>

-----------------------------------------------------------------------------
(* Validation and promotion.                                               *)

ValidatePrepare(b) ==
    /\ job = NoJob
    /\ status[b] \in {"VALIDATING", "FAILED_VALIDATION", "READY"}
    /\ verdict' = [verdict EXCEPT ![b] = "RUNNING"]
    /\ status' = [status EXCEPT ![b] = "VALIDATING"]
    /\ job' = Begin(b, "validate", "checks", FALSE)
    /\ UNCHANGED <<run, promo, snapped, dataVars, graphVars, points, servedVars, intent, faults>>

\* What the gates compare: the stage runs, the links, the catalog's profiles and
\* export with each other, Neo4j with the export and Qdrant with the profiles.
ChecksPass(b) ==
    /\ \A s \in Stages : run[b][s] = "COMPLETED"
    /\ links[b] # "bad"
    /\ \A k \in Batches : profile[b][k] # "missing"
    /\ export[b].prof = profile[b]
    /\ NeoMatches(b)
    /\ points[b] = profile[b]

\* The gold gates, the data gates and an unreachable store may fail it too.
ValidateFinish(b, gates) ==
    /\ At(b, "validate", "checks")
    /\ verdict' = [verdict EXCEPT ![b] = IF gates /\ ChecksPass(b) THEN "PASSED" ELSE "FAILED"]
    /\ status' = [status EXCEPT ![b] = IF gates /\ ChecksPass(b) THEN "READY"
                                       ELSE "FAILED_VALIDATION"]
    /\ job' = NoJob
    /\ UNCHANGED <<run, promo, snapped, dataVars, graphVars, points, servedVars, intent, faults>>

\* Mutant: a promotion_runs row of an earlier promotion is left as it is.
PromotePrepareKeepsRow(b) ==
    /\ job = NoJob
    /\ status[b] = "READY"
    /\ verdict[b] = "PASSED"
    /\ run[b]["vector"] = "COMPLETED"
    /\ promo' = [promo EXCEPT ![b] = IF @ = "none" THEN "RUNNING" ELSE @]
    /\ job' = Begin(b, "promote", "setNeo4j", FALSE)
    /\ UNCHANGED <<status, run, verdict, snapped, dataVars, graphVars, points, servedVars,
                   intent, faults>>

PromotePrepare(b) ==
    /\ job = NoJob
    /\ status[b] = "READY"
    /\ verdict[b] = "PASSED"
    /\ run[b]["vector"] = "COMPLETED"
    /\ promo' = [promo EXCEPT ![b] = "RUNNING"]
    /\ job' = Begin(b, "promote", "setNeo4j", FALSE)
    /\ UNCHANGED <<status, run, verdict, snapped, dataVars, graphVars, points, servedVars,
                   intent, faults>>

\* The checkpoint after each switch is left out: no code reads it.
SetNeo4j(b) ==
    /\ At(b, "promote", "setNeo4j")
    /\ neoActive' = b
    /\ job' = Goto("switchAlias")
    /\ UNCHANGED <<runVars, dataVars, graphVars, points, alias, torn, intent, faults>>

SwitchAlias(b) ==
    /\ At(b, "promote", "switchAlias")
    /\ alias' = b
    /\ job' = Goto("readback")
    /\ UNCHANGED <<runVars, dataVars, graphVars, points, neoActive, torn, intent, faults>>

\* Mutant: the build that was ACTIVE has to be validated again.
PromoteFinishUnvalidates(b) ==
    /\ At(b, "promote", "readback")
    /\ neoActive = b /\ alias = b
    /\ status' = [c \in Builds |-> IF c = b THEN "ACTIVE"
                                   ELSE IF status[c] = "ACTIVE" THEN "VALIDATING" ELSE status[c]]
    /\ promo' = [promo EXCEPT ![b] = "COMPLETED"]
    /\ job' = NoJob
    /\ UNCHANGED <<run, verdict, snapped, dataVars, graphVars, points, servedVars, intent, faults>>

\* Both stores read back as this build: it becomes the one ACTIVE build.
PromoteFinish(b) ==
    /\ At(b, "promote", "readback")
    /\ neoActive = b /\ alias = b
    /\ status' = [c \in Builds |-> IF c = b THEN "ACTIVE"
                                   ELSE IF status[c] = "ACTIVE" THEN "READY" ELSE status[c]]
    /\ promo' = [promo EXCEPT ![b] = "COMPLETED"]
    /\ job' = NoJob
    /\ UNCHANGED <<run, verdict, snapped, dataVars, graphVars, points, servedVars, intent, faults>>

\* A step fails: the record says so; the stores stay as they are.
PromoteFail(b) ==
    /\ job.build = b /\ job.stage = "promote"
    /\ faults < MaxFaults
    /\ faults' = faults + 1
    /\ promo' = [promo EXCEPT ![b] = "FAILED"]
    /\ job' = NoJob
    /\ UNCHANGED <<status, run, verdict, snapped, dataVars, graphVars, points, servedVars, intent>>

-----------------------------------------------------------------------------

\* What the process holding the lock does when nothing fails.
JobStep(b) ==
    \/ IngestBegin(b) \/ SnapshotsTaken(b) \/ IngestDone(b)
    \/ CurationPrepare(b) \/ CurationFinish(b)
    \/ GraphPrepare(b) \/ StartGraphWrite(b) \/ GraphFinish(b)
    \/ TopicPrepare(b) \/ TopicLink(b) \/ TopicFinish(b)
    \/ VectorPrepare(b) \/ VectorStore(b) \/ VectorUpsert(b) \/ VectorMark(b)
    \/ VectorReset(b) \/ VectorFinish(b)
    \/ \E p \in Parts : FreezePart(b, p) \/ NeoWritePart(b, p)
    \/ FreezeDone(b) \/ NeoMismatch(b) \/ EnsureExports(b)
    \/ RepairReset(b) \/ RepairUnprune(b)
    \/ \E gates \in BOOLEAN : ValidateFinish(b, gates)
    \/ SetNeo4j(b) \/ SwitchAlias(b) \/ PromoteFinish(b)

\* What goes wrong for it.
Fault(b) == IngestFailed(b) \/ StageFail(b) \/ PromoteFail(b)

\* What operators ask for.
Command(b) ==
    \/ CreateBuild(b)
    \/ ResumeRead(b) \/ ResumeLocked(b)
    \/ \E stage \in {"topic", "vector"} : StageCommand(b, stage)
    \/ Repair(b)
    \/ \E chosen \in SUBSET Builds : Compact(b, chosen)
    \/ ValidatePrepare(b) \/ PromotePrepare(b)

Next == Crash \/ \E b \in Builds : JobStep(b) \/ Fault(b) \/ Command(b)

Spec == Init /\ [][Next]_vars
-----------------------------------------------------------------------------
(* Properties.                                                             *)

\* Every column, checkpoint and store holds a value the code writes there, and the
\* process with the lock stands at one of its stages' steps.
TypeOK ==
    /\ status \in [Builds -> Status]
    /\ run \in [Builds -> [Stages -> RunStatus]]
    /\ verdict \in [Builds -> {"none", "RUNNING", "PASSED", "FAILED"}]
    /\ promo \in [Builds -> {"none", "RUNNING", "COMPLETED", "FAILED"}]
    /\ snapped \subseteq Builds
    /\ links \in [Builds -> Versions]
    /\ profile \in [Builds -> [Batches -> Versions]]
    /\ points \in [Builds -> [Batches -> Versions]]
    /\ uploaded \in [Builds -> 0..NumBatches]
    /\ export \in [Builds -> Graph] /\ neo \in [Builds -> Graph]
    /\ pruned \in [Builds -> BOOLEAN]
    /\ neoDone \in [Builds -> SUBSET Parts]
    /\ neoActive \in Builds \cup {NoBuild} /\ alias \in Builds \cup {NoBuild}
    /\ torn \subseteq Builds
    /\ job \in Job /\ intent \in Intent \cup {NoIntent}
    /\ faults \in 0..MaxFaults

Released == {b \in Builds : status[b] \in {"READY", "ACTIVE"}}

\* A build that may be, or is, released has four completed stages and a passed
\* validation; every profile, professor node and Qdrant point of it was made from the
\* links the catalog holds now, and so were the topic relations in Neo4j, unless a
\* repair-links of the build was killed before it rebuilt them (torn).  No other interrupted,
\* repeated or reordered stage leaves an older version behind a checkpoint or an export
\* that is kept (topic_workflow._finish, the vector upload loop, the export checkpoints).
\* The exception is the code's: a second repair finds no incompatible link and rebuilds
\* nothing, and validation compares Neo4j with the export, not with the links.
ReleasedIsCurrent ==
    \A b \in Released :
        /\ verdict[b] = "PASSED"
        /\ \A s \in Stages : run[b][s] = "COMPLETED"
        /\ neo[b].present = Parts
        /\ \A k \in Batches :
              links[b] = profile[b][k] /\ links[b] = neo[b].prof[k] /\ links[b] = points[b][k]
        /\ b \notin torn => neo[b].topic = links[b]

\* There is at most one ACTIVE build, and a store that serves a build which is not
\* ACTIVE does so because of a promotion that promotion_runs records as unfinished:
\* whatever the order of promotions, failures and crashes, a divergence between the
\* catalog and the stores can be found in the catalog (lifecycle.run_promotion).
DivergenceRecorded ==
    /\ \A b, c \in Builds : status[b] = "ACTIVE" /\ status[c] = "ACTIVE" => b = c
    /\ \A b \in {neoActive, alias} \ {NoBuild} :
           status[b] = "ACTIVE" \/ promo[b] \in {"RUNNING", "FAILED"}
    /\ \A b \in Builds :
           /\ status[b] = "ACTIVE"
           /\ \A c \in Builds : promo[c] \notin {"RUNNING", "FAILED"}
           => neoActive = b /\ alias = b

\* What readers are served of an ACTIVE build, its runs, links, profiles, Neo4j rows and
\* Qdrant points, is never written to by any stage, repair or compaction, not even by a
\* command that read an older status of the build; only a promotion takes its status.
ActiveUntouched ==
    [][\A b \in Builds : status[b] = "ACTIVE" =>
          /\ run'[b] = run[b] /\ verdict'[b] = verdict[b]
          /\ links'[b] = links[b] /\ profile'[b] = profile[b]
          /\ neo'[b] = neo[b] /\ points'[b] = points[b]
          /\ status'[b] \in {"ACTIVE", "READY"}]_vars

\* Whatever two checkpoints say is written is written: Qdrant holds the stored
\* profile of every uploaded batch, Neo4j the exported rows of every partition with a
\* checkpoint, so a resumed stage skips nothing it still has to write.
CheckpointsTruthful ==
    \A b \in Builds :
        /\ \A k \in 1..uploaded[b] : points[b][k] = profile[b][k] /\ profile[b][k] # "missing"
        /\ neoDone[b] \subseteq export[b].present
        /\ "prof" \in neoDone[b] => neo[b].prof = export[b].prof
        /\ "topic" \in neoDone[b] => neo[b].topic = export[b].topic
=============================================================================
