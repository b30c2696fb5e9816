---------------------------- MODULE CatalogIngest ----------------------------
(***************************************************************************)
(* Stage 1 of a catalog build: the crawl database of every university of   *)
(* the build is copied into an immutable snapshot, and the rows of the     *)
(* snapshots become observations (_run_build of catalog/workflow.py and    *)
(* catalog/source.py).                                                     *)
(*                                                                         *)
(* The process that runs a build holds the catalog write lock and may die  *)
(* between any two transactions; the build is resumed later, and another   *)
(* build may have run in between.  A batch of one row is the finest the    *)
(* code can commit: a larger one that fails leaves what an earlier crash   *)
(* leaves.  Of a task's statuses the code reads only COMPLETED.            *)
(***************************************************************************)
EXTENDS Naturals, FiniteSets

CONSTANTS
    Builds,        \* build IDs, numbered in the order of started_at
    Universities,  \* universities, numbered in the order of the manifest
    Observations,  \* observation IDs, numbered in their order
    Home,          \* Home[o]: the university of an observation
    Key,           \* Key[o]: the source ID of its row, which is part of its content
    Crawls,        \* Crawls[u]: what the crawl database of u may hold
    NoCrawl,       \* no snapshot
    Retention,     \* build_min_source_retention_ratio, in percent
    MaxFaults      \* bound: failures and crashes in one behaviour

(***************************************************************************)
(* A crawl database: the rows that can be imported, by the observation     *)
(* they make, the source IDs of the rows that cannot, whether the crawl is *)
(* complete and whether the database lacks a capability (an optional table *)
(* or column).                                                             *)
(***************************************************************************)
Crawl == [rows : SUBSET Observations, bad : SUBSET (Nat \ {0}),
          complete : BOOLEAN, lacking : BOOLEAN]

RowKeys(c) == {Key[o] : o \in c.rows} \cup c.bad

ASSUME IngestAssumption ==
    /\ Builds \subseteq Nat \ {0}
    /\ Universities \subseteq Nat
    /\ IsFiniteSet(Universities)
    /\ Observations \subseteq Nat \ {0}
    /\ IsFiniteSet(Observations)
    /\ Home \in [Observations -> Universities]
    /\ Key \in [Observations -> Nat \ {0}]
    /\ Retention \in Nat
    /\ MaxFaults \in Nat

\* The ID is the primary key of the professors table.
ASSUME CrawlsAssumption ==
    /\ DOMAIN Crawls = Universities
    /\ \A u \in Universities : \A c \in Crawls[u] :
         /\ c \in Crawl
         /\ IsFiniteSet(c.bad)
         /\ \A o \in c.rows : Home[o] = u /\ Key[o] \notin c.bad
         /\ \A o, p \in c.rows : Key[o] = Key[p] => o = p
    /\ \A u \in Universities : NoCrawl \notin Crawls[u]

VARIABLES
    status,     \* graph_builds.status ("none": no row)
    task,       \* task[b][u]: the build_source_tasks row is absent, open or COMPLETED
    snap,       \* snap[b][u]: the snapshot it names
    cursor,     \* cursor[b][u]: last_key of the 'observations' checkpoint
    count,      \* count[b][u]: its counters
    eligible,   \* deactivation_eligible: the tasks <<b, u>> that have it
    seen,       \* seen[o]: last_seen_build of the observation (0: no row)
    active,     \* the observations with active = 1
    findings,   \* quality_findings of stage 1
    job,        \* the process that holds the write lock
    faults      \* failures and crashes so far

ingestVars == <<status, task, snap, cursor, count, eligible, seen, active, findings>>

Codes == {"source_capability_missing", "legacy_row_unimportable", "source_deactivation_blocked"}
Finding == [build : Builds, univ : Universities, code : Codes, key : Nat]
Found(b, u, code, key) == [build |-> b, univ |-> u, code |-> code, key |-> key]

NoJob == [build |-> 0, pc |-> "idle", left |-> {}, failed |-> FALSE]
NoRows == [read |-> 0, written |-> 0, rejected |-> 0, findings |-> 0]

IngestInit ==
    /\ status = [b \in Builds |-> "none"]
    /\ task = [b \in Builds |-> [u \in Universities |-> "absent"]]
    /\ snap = [b \in Builds |-> [u \in Universities |-> NoCrawl]]
    /\ cursor = [b \in Builds |-> [u \in Universities |-> 0]]
    /\ count = [b \in Builds |-> [u \in Universities |-> NoRows]]
    /\ eligible = {}
    /\ seen = [o \in Observations |-> 0]
    /\ active = {}
    /\ findings = {}
    /\ job = NoJob
    /\ faults = 0

-----------------------------------------------------------------------------
At(b, pc) == job.build = b /\ job.pc = pc
Begin(b, pc) == [build |-> b, pc |-> pc, left |-> {}, failed |-> FALSE]
GotoFor(pc, univs) == [job EXCEPT !.pc = pc, !.left = univs, !.failed = FALSE]

\* The loops over the tasks go in the order of the manifest.
Current(u) == u \in job.left /\ \A v \in job.left : u <= v

Tasks(b) == {u \in Universities : task[b][u] # "absent"}
Open(b) == {u \in Universities : task[b][u] = "open"}
Unsnapped(b) == {u \in Tasks(b) : snap[b][u] = NoCrawl}

\* create_build: the build and a task for every selected university.
CreateBuild(b, univs) ==
    /\ job = NoJob
    /\ status[b] = "none"
    /\ \A c \in Builds : c < b => status[c] # "none"
    /\ univs # {}
    /\ status' = [status EXCEPT ![b] = "CREATED"]
    /\ task' = [task EXCEPT ![b] = [u \in Universities |-> IF u \in univs THEN "open" ELSE "absent"]]
    /\ job' = Begin(b, "ingest")
    /\ UNCHANGED <<snap, cursor, count, eligible, seen, active, findings, faults>>

\* A build past stage 1 goes on or is refused; snapshots come before all ingest.
BeginIngest(b) ==
    /\ At(b, "ingest")
    /\ \/ /\ status[b] = "CURATING"
          /\ job' = Begin(b, "prepare")
          /\ UNCHANGED status
       \/ /\ status[b] \notin {"CREATED", "SNAPSHOTTING", "INGESTING", "FAILED", "CURATING"}
          /\ job' = NoJob
          /\ UNCHANGED status
       \/ /\ status[b] \in {"CREATED", "SNAPSHOTTING", "INGESTING", "FAILED"}
          /\ Unsnapped(b) # {}
          /\ status' = [status EXCEPT ![b] = "SNAPSHOTTING"]
          /\ job' = GotoFor("snapshot", Unsnapped(b))
       \/ /\ status[b] \in {"CREATED", "SNAPSHOTTING", "INGESTING", "FAILED"}
          /\ Unsnapped(b) = {}
          /\ status' = [status EXCEPT ![b] = "INGESTING"]
          /\ job' = GotoFor("source", Open(b))
    /\ UNCHANGED <<task, snap, cursor, count, eligible, seen, active, findings, faults>>

\* create_source_snapshot and _register_snapshot: whatever the crawl database holds
\* at this moment.  The file is named by its content, so an orphan is reused.
TakeSnapshot(b, u, c) ==
    /\ At(b, "snapshot") /\ Current(u)
    /\ c \in Crawls[u]
    /\ snap' = [snap EXCEPT ![b][u] = c]
    /\ job' = [job EXCEPT !.left = @ \ {u}]
    /\ UNCHANGED <<status, task, cursor, count, eligible, seen, active, findings, faults>>

\* The copy fails, or is not the database of this university: the others go on.
SnapshotFails(b, u) ==
    /\ At(b, "snapshot") /\ Current(u)
    /\ faults < MaxFaults
    /\ faults' = faults + 1
    /\ job' = [job EXCEPT !.left = @ \ {u}, !.failed = TRUE]
    /\ UNCHANGED ingestVars

SnapshotsDone(b) ==
    /\ At(b, "snapshot") /\ job.left = {}
    /\ IF job.failed
       THEN /\ status' = [status EXCEPT ![b] = "FAILED"]
            /\ job' = NoJob
       ELSE /\ status' = [status EXCEPT ![b] = "INGESTING"]
            /\ job' = GotoFor("source", Open(b))
    /\ UNCHANGED <<task, snap, cursor, count, eligible, seen, active, findings, faults>>

-----------------------------------------------------------------------------
\* INSERT OR IGNORE of a finding, which is counted when it is new.
AddFinding(b, u, f) ==
    /\ findings' = findings \cup {f}
    /\ count' = [count EXCEPT ![b][u].findings = IF f \in findings THEN @ ELSE @ + 1]

\* Mutant: a resumed source is read from its first row.
BeginSourceAfresh(b, u) ==
    /\ At(b, "source") /\ Current(u)
    /\ cursor' = [cursor EXCEPT ![b][u] = 0]
    /\ job' = [job EXCEPT !.pc = "rows"]
    /\ UNCHANGED <<status, task, snap, count, eligible, seen, active, findings, faults>>

\* _record_capability_findings, at every start of the source.
BeginSource(b, u) ==
    /\ At(b, "source") /\ Current(u)
    /\ \/ /\ snap[b][u].lacking
          /\ AddFinding(b, u, Found(b, u, "source_capability_missing", 0))
       \/ ~snap[b][u].lacking /\ UNCHANGED <<findings, count>>
    /\ job' = [job EXCEPT !.pc = "rows"]
    /\ UNCHANGED <<status, task, snap, cursor, eligible, seen, active, faults>>

\* The rows iter_legacy_batches has still to read.
RowsLeft(b, u) == {k \in RowKeys(snap[b][u]) : k > cursor[b][u]}

\* An observation that is known becomes active again.
WriteObservation(b, u, o) ==
    /\ seen' = [seen EXCEPT ![o] = b]
    /\ active' = active \cup {o}
    /\ count' = [count EXCEPT ![b][u].read = @ + 1, ![b][u].written = @ + 1]
    /\ UNCHANGED findings

RejectRow(b, u, k) ==
    LET f == Found(b, u, "legacy_row_unimportable", k)
    IN  /\ findings' = findings \cup {f}
        /\ count' = [count EXCEPT ![b][u].read = @ + 1, ![b][u].rejected = @ + 1,
                                  ![b][u].findings = IF f \in findings THEN @ ELSE @ + 1]
        /\ UNCHANGED <<seen, active>>

\* _prepare_row and _commit_batch of the next row: the observation or the finding,
\* the checkpoint and the counters in one transaction.
CommitRow(b, u) ==
    /\ At(b, "rows") /\ Current(u)
    /\ \E k \in RowsLeft(b, u) :
         /\ \A j \in RowsLeft(b, u) : k <= j
         /\ cursor' = [cursor EXCEPT ![b][u] = k]
         /\ \/ \E o \in snap[b][u].rows : Key[o] = k /\ WriteObservation(b, u, o)
            \/ k \in snap[b][u].bad /\ RejectRow(b, u, k)
    /\ UNCHANGED <<status, task, snap, eligible, job, faults>>

\* The completed, trusted task of u of the build started last, other than b.
Previous(b, u) ==
    {c \in Builds \ {b} :
       /\ task[c][u] = "COMPLETED" /\ <<c, u>> \in eligible
       /\ \A d \in Builds \ {b} : task[d][u] = "COMPLETED" /\ <<d, u>> \in eligible => d <= c}

NumRows(c) == Cardinality(c.rows) + Cardinality(c.bad)

\* Mutant: rows that could not be imported are forgotten.
TrustedWithRejections(b, u) ==
    /\ snap[b][u].complete
    /\ NumRows(snap[b][u]) > 0
    /\ \A c \in Previous(b, u) :
         count[c][u].read > 0 => 100 * NumRows(snap[b][u]) >= Retention * count[c][u].read

\* Why a source must not deactivate anything: it is not the whole university.
Trusted(b, u) ==
    /\ snap[b][u].complete
    /\ count[b][u].rejected = 0
    /\ NumRows(snap[b][u]) > 0
    /\ \A c \in Previous(b, u) :
         count[c][u].read > 0 => 100 * NumRows(snap[b][u]) >= Retention * count[c][u].read

\* _finalize_source.  The page kinds it also sets make no difference to any claim.
Finalize(b, u) ==
    /\ At(b, "rows") /\ Current(u) /\ RowsLeft(b, u) = {}
    /\ \/ /\ Trusted(b, u)
          /\ active' = {o \in active : Home[o] = u => seen[o] = b}
          /\ eligible' = eligible \cup {<<b, u>>}
          /\ UNCHANGED <<findings, count>>
       \/ /\ ~Trusted(b, u)
          /\ AddFinding(b, u, Found(b, u, "source_deactivation_blocked", 0))
          /\ eligible' = eligible \ {<<b, u>>}
          /\ UNCHANGED active
    /\ task' = [task EXCEPT ![b][u] = "COMPLETED"]
    /\ job' = [job EXCEPT !.pc = "source", !.left = @ \ {u}]
    /\ UNCHANGED <<status, snap, cursor, seen, faults>>

\* An exception in _ingest_source: the source fails, the others go on.
IngestFails(b, u) ==
    /\ job.build = b /\ job.pc \in {"source", "rows"} /\ Current(u)
    /\ faults < MaxFaults
    /\ faults' = faults + 1
    /\ job' = [job EXCEPT !.pc = "source", !.left = @ \ {u}, !.failed = TRUE]
    /\ UNCHANGED ingestVars

IngestDone(b) ==
    /\ At(b, "source") /\ job.left = {}
    /\ IF job.failed
       THEN /\ status' = [status EXCEPT ![b] = "FAILED"]
            /\ job' = NoJob
       ELSE /\ status' = [status EXCEPT ![b] = "CURATING"]
            /\ job' = Begin(b, "prepare")
    /\ UNCHANGED <<task, snap, cursor, count, eligible, seen, active, findings, faults>>

\* `resume`, or curate_build: the stage is chosen by a status that was read before the
\* lock was taken, so each stage is entered whatever the build's status is by now.
Resume(b, stage) ==
    /\ job = NoJob
    /\ status[b] # "none"
    /\ job' = Begin(b, stage)
    /\ UNCHANGED <<ingestVars, faults>>

\* The process is killed.
Crash ==
    /\ job # NoJob
    /\ faults < MaxFaults
    /\ faults' = faults + 1
    /\ job' = NoJob
    /\ UNCHANGED ingestVars

IngestStep(b) ==
    \/ \E univs \in SUBSET Universities : CreateBuild(b, univs)
    \/ BeginIngest(b) \/ SnapshotsDone(b) \/ IngestDone(b)
    \/ \E u \in Universities :
         \/ \E c \in Crawls[u] : TakeSnapshot(b, u, c)
         \/ SnapshotFails(b, u) \/ IngestFails(b, u)
         \/ BeginSource(b, u) \/ CommitRow(b, u) \/ Finalize(b, u)
    \/ \E stage \in {"ingest", "prepare"} : Resume(b, stage)
=============================================================================
