------------------------ MODULE CatalogCurationProofs ------------------------
(***************************************************************************)
(* Proofs, for any builds, universities, crawls and claims and any number  *)
(* of failures and overrides, of the properties of stages 1 and 2.         *)
(*                                                                         *)
(* IngestInv is the invariant of stage 1: what the process may still do to *)
(* the tasks of its build (IngestJob), what a task has before it has a     *)
(* snapshot (Fresh), where the last ingest of an observation is found      *)
(* (SeenInSnapshot), and the counters.  CurationInv adds that of stage 2:  *)
(* where merges lead (Roots), what a run holds while no override has       *)
(* changed (Unmerged), what a checkpoint of a pass promises (Passed), and  *)
(* what the process has made sure of when it begins a pass (CurationJob).  *)
(***************************************************************************)
EXTENDS CatalogCuration, FiniteSetTheorems, TLAPS

AnyCrawl == UNION {Crawls[u] : u \in Universities}
Counters == [read : Nat, written : Nat, rejected : Nat, findings : Nat]
Places == Passes \cup {"idle", "ingest", "snapshot", "source", "rows", "prepare"}
Jobs == [build : Builds \cup {0}, pc : Places, left : SUBSET Universities, failed : BOOLEAN]

IngestTypes ==
    /\ status \in [Builds -> {"none", "CREATED", "SNAPSHOTTING", "INGESTING", "CURATING",
                              "EMBEDDING", "FAILED"}]
    /\ task \in [Builds -> [Universities -> {"absent", "open", "COMPLETED"}]]
    /\ snap \in [Builds -> [Universities -> AnyCrawl \cup {NoCrawl}]]
    /\ \A b \in Builds, u \in Universities : snap[b][u] \in Crawls[u] \cup {NoCrawl}
    /\ cursor \in [Builds -> [Universities -> Nat]]
    /\ count \in [Builds -> [Universities -> Counters]]
    /\ seen \in [Observations -> Builds \cup {0}]
    /\ active \subseteq Observations
    /\ findings \subseteq Finding /\ IsFiniteSet(findings)
    /\ job \in Jobs

\* What is left of a loop over the tasks: all that is to be done, unless one has failed.
IngestJob ==
    /\ job.build = 0 => job.pc = "idle"
    /\ job.pc = "snapshot" =>
         /\ job.left \subseteq Unsnapped(job.build)
         /\ ~job.failed => Unsnapped(job.build) \subseteq job.left
    /\ job.pc \in {"source", "rows"} =>
         /\ Unsnapped(job.build) = {}
         /\ job.left \subseteq Open(job.build)
         /\ ~job.failed => Open(job.build) \subseteq job.left

\* A build has tasks when it has a row, and none is open once it has reached stage 2.
TasksDone ==
    \A b \in Builds :
        /\ status[b] = "none" => Tasks(b) = {}
        /\ status[b] = "CURATING" => Unsnapped(b) = {} /\ Open(b) = {}

\* Nothing is read, counted or found before there is a snapshot.
Fresh ==
    \A b \in Builds, u \in Universities :
        /\ task[b][u] = "absent" => snap[b][u] = NoCrawl
        /\ snap[b][u] = NoCrawl =>
             /\ task[b][u] # "COMPLETED" /\ cursor[b][u] = 0 /\ count[b][u] = NoRows
             /\ \A f \in findings : ~(f.build = b /\ f.univ = u)

\* The snapshot of the build that has seen an observation last has a row of it.
SeenInSnapshot ==
    \A o \in Observations :
        /\ o \in active => seen[o] # 0
        /\ seen[o] # 0 => /\ snap[seen[o]][Home[o]] # NoCrawl
                          /\ o \in snap[seen[o]][Home[o]].rows

IngestInv ==
    IngestTypes /\ IngestJob /\ TasksDone /\ Fresh /\ SeenInSnapshot /\ RowsCountedOnce

-----------------------------------------------------------------------------
ClaimRow == [ent : Entities, claim : Claim, obs : Observations]

CurationTypes ==
    /\ run \in [Builds -> {"none", "RUNNING", "COMPLETED", "FAILED"}]
    /\ frozen \in [Builds -> Nat] /\ version \in Nat
    /\ \A b \in Builds : frozen[b] <= version
    /\ ent \in [Entities -> {"none", "active", "review", "inactive", "merged"}]
    /\ root \in [Entities -> Entities]
    /\ assign \in [Builds -> [Observations -> Entities \cup {0}]]
    /\ historic \in [Observations -> Entities \cup {0}]
    /\ held \subseteq ClaimRow /\ live \subseteq ClaimRow
    /\ claimed \in [Builds -> [Observations -> Entities \cup {0}]]
    /\ canon \in [Builds -> [Entities -> [state : {"none", "active", "tombstone"},
                                          from : SUBSET Observations]]]
    /\ at \in [Builds -> [Sinks -> [Universities -> Nat]]]

\* merged_into_id leads to an entity that is not merged.
Roots ==
    \A e \in Entities :
        /\ root[root[e]] = root[e]
        /\ ent[e] = "merged" <=> root[e] # e

\* A run is only created when ingest is done, and nothing is written without one.
RunsBegun ==
    \A b \in Builds :
        IF run[b] = "none"
        THEN /\ \A o \in Observations : assign[b][o] = 0 /\ claimed[b][o] = 0
             /\ \A e \in Entities : canon[b][e] = NoRow
             /\ \A s \in Sinks, u \in Universities : at[b][s][u] = 0
        ELSE /\ Open(b) = {} /\ Unsnapped(b) = {} /\ status[b] # "none"

\* While the overrides are those of the run no entity of it has been merged, the field
\* claims are of the entity assigned, and a row is of an entity with an observation.
Unmerged ==
    \A b \in Builds : frozen[b] = version =>
        /\ \A o \in Observations : assign[b][o] # 0 => root[assign[b][o]] = assign[b][o]
        /\ \A o \in Observations : claimed[b][o] # 0 => claimed[b][o] = assign[b][o]
        /\ \A e \in Entities : canon[b][e].state = "active" =>
             \E o \in Observations : assign[b][o] = e

\* The observations a run that has not completed must not leave out.
Mine(b) == {o \in active \ late[b] : Home[o] \in Tasks(b) /\ run[b] # "COMPLETED"}

\* What the checkpoints promise.
Passed ==
    \A b \in Builds :
        /\ \A o \in Observations : assign[b][o] # 0 =>
             /\ o <= at[b]["identity"][Home[o]]
             /\ ent[assign[b][o]] # "none"
             /\ o <= at[b]["fields"][Home[o]] => claimed[b][o] # 0
        /\ \A u \in Universities :
             /\ at[b]["fields"][u] <= at[b]["identity"][u]
             /\ at[b]["canonical"][u] > 0 =>
                  \A o \in Mine(b) : assign[b][o] # 0 /\ claimed[b][o] # 0
        /\ \A o \in Mine(b) :
             /\ o <= at[b]["identity"][Home[o]] => assign[b][o] # 0
             /\ assign[b][o] # 0 /\ assign[b][o] <= at[b]["canonical"][Home[o]] =>
                  /\ canon[b][assign[b][o]].state = "active"
                  /\ o \in canon[b][assign[b][o]].from

\* What a pass may rely on: the passes before it are complete.
CurationJob ==
    /\ job.pc \in Passes => run[job.build] = "RUNNING" /\ frozen[job.build] = version
    /\ job.pc \in {"stale", "fields", "canonical", "tombstones", "finish"} =>
         \A o \in Mine(job.build) : assign[job.build][o] # 0
    /\ job.pc \in {"canonical", "tombstones", "finish"} =>
         \A o \in Mine(job.build) : claimed[job.build][o] # 0
    /\ job.pc \in {"tombstones", "finish"} =>
         \A o \in Mine(job.build) : assign[job.build][o] <= at[job.build]["canonical"][Home[o]]

CurationInv ==
    /\ IngestInv /\ CurationTypes /\ Roots /\ RunsBegun /\ Unmerged /\ Passed /\ CurationJob

Going == {"RUNNING", "FAILED"}

\* What a run that goes on has assigned is active, or was not by another build's doing.
Assigned ==
    \A b \in Builds :
        /\ run[b] \notin Going => late[b] = {}
        /\ run[b] \in Going =>
             \A o \in Observations : assign[b][o] # 0 => o \in active \cup late[b]

-----------------------------------------------------------------------------
(* Stage 1.                                                                *)

\* The counters of one task are replaced.
LEMMA CountUpdate ==
  ASSUME IngestTypes, NEW b \in Builds, NEW u \in Universities, NEW r \in Counters,
         count' = [count EXCEPT ![b][u] = r]
  PROVE  /\ count' \in [Builds -> [Universities -> Counters]]
         /\ \A c \in Builds, v \in Universities : <<c, v>> # <<b, u>> => count'[c][v] = count[c][v]
         /\ count'[b][u] = r
  BY DEF IngestTypes

\* The fields of a counters record are replaced one by one.
LEMMA CountersFields ==
  ASSUME NEW c \in Counters, NEW n \in Nat
  PROVE  /\ [c EXCEPT !.read = n] \in Counters /\ [c EXCEPT !.written = n] \in Counters
         /\ [c EXCEPT !.rejected = n] \in Counters /\ [c EXCEPT !.findings = n] \in Counters
  BY DEF Counters

\* A row is read.
LEMMA WrittenCount ==
  ASSUME NEW c \in Counters
  PROVE  LET r == [c EXCEPT !.read = @ + 1, !.written = @ + 1]
         IN  /\ r \in Counters /\ r.read = c.read + 1 /\ r.written = c.written + 1
             /\ r.rejected = c.rejected /\ r.findings = c.findings
<1> DEFINE r == [c EXCEPT !.read = @ + 1, !.written = @ + 1]
<1>1. r = [[c EXCEPT !.read = c.read + 1] EXCEPT !.written = c.written + 1]
  BY DEF Counters
<1>2. [c EXCEPT !.read = c.read + 1] \in Counters /\ c.written + 1 \in Nat
  BY DEF Counters
<1>3. r \in Counters
  BY <1>1, <1>2, CountersFields
<1>4. r.read = c.read + 1 /\ r.written = c.written + 1
  BY DEF Counters
<1>5. r.rejected = c.rejected /\ r.findings = c.findings
  BY DEF Counters
<1> QED
  BY <1>3, <1>4, <1>5

LEMMA RejectedCount ==
  ASSUME NEW c \in Counters, NEW n \in Nat
  PROVE  LET r == [c EXCEPT !.read = @ + 1, !.rejected = @ + 1, !.findings = n]
         IN  /\ r \in Counters /\ r.read = c.read + 1 /\ r.rejected = c.rejected + 1
             /\ r.written = c.written /\ r.findings = n
<1> DEFINE r == [c EXCEPT !.read = @ + 1, !.rejected = @ + 1, !.findings = n]
           q == [[c EXCEPT !.read = c.read + 1] EXCEPT !.rejected = c.rejected + 1]
<1>1. r = [q EXCEPT !.findings = n]
  BY DEF Counters
<1>2. [c EXCEPT !.read = c.read + 1] \in Counters /\ c.rejected + 1 \in Nat
  BY DEF Counters
<1>3. r \in Counters
  BY <1>1, <1>2, CountersFields
<1>4. r.read = c.read + 1 /\ r.rejected = c.rejected + 1
  BY DEF Counters
<1>5. r.written = c.written /\ r.findings = n
  BY DEF Counters
<1> QED
  BY <1>3, <1>4, <1>5

\* One new finding is counted once.
LEMMA AddFindingStep ==
  ASSUME IngestTypes, NEW b \in Builds, NEW u \in Universities, NEW f \in Finding,
         AddFinding(b, u, f)
  PROVE  /\ findings' \subseteq Finding /\ IsFiniteSet(findings')
         /\ count' \in [Builds -> [Universities -> Counters]]
         /\ \A c \in Builds, v \in Universities : <<c, v>> # <<b, u>> => count'[c][v] = count[c][v]
         /\ count'[b][u].read = count[b][u].read
         /\ count'[b][u].written = count[b][u].written
         /\ count'[b][u].rejected = count[b][u].rejected
         /\ count'[b][u].findings =
              IF f \in findings THEN count[b][u].findings ELSE count[b][u].findings + 1
<1>1. findings' \subseteq Finding
  BY DEF AddFinding, IngestTypes
<1>2. IsFiniteSet(findings')
  BY FS_AddElement DEF AddFinding, IngestTypes
<1> DEFINE r == [count[b][u] EXCEPT !.findings = IF f \in findings THEN @ ELSE @ + 1]
<1>3. count' = [count EXCEPT ![b][u] = r]
  BY DEF AddFinding
<1>4. count[b][u] \in Counters
  BY DEF IngestTypes
<1>7. r \in Counters
  BY <1>4 DEF Counters
<1>5. /\ r.read = count[b][u].read /\ r.written = count[b][u].written
      /\ r.rejected = count[b][u].rejected
      /\ r.findings = IF f \in findings THEN count[b][u].findings ELSE count[b][u].findings + 1
  BY <1>4 DEF Counters
<1> HIDE DEF r
<1>6. /\ count' \in [Builds -> [Universities -> Counters]]
      /\ \A c \in Builds, v \in Universities : <<c, v>> # <<b, u>> => count'[c][v] = count[c][v]
      /\ count'[b][u] = r
  BY <1>3, <1>7, CountUpdate
<1> QED
  BY <1>1, <1>2, <1>5, <1>6

\* A row that is imported, or not, is counted once.
LEMMA CommitRowStep ==
  ASSUME IngestTypes, NEW b \in Builds, NEW u \in Universities, CommitRow(b, u)
  PROVE  \E k \in RowsLeft(b, u) :
           /\ \A j \in RowsLeft(b, u) : k <= j
           /\ cursor' = [cursor EXCEPT ![b][u] = k]
           /\ count' \in [Builds -> [Universities -> Counters]]
           /\ \A c \in Builds, v \in Universities :
                <<c, v>> # <<b, u>> => count'[c][v] = count[c][v]
           /\ count'[b][u].read = count[b][u].read + 1
           /\ \/ /\ \E o \in snap[b][u].rows :
                      /\ Key[o] = k
                      /\ seen' = [seen EXCEPT ![o] = b] /\ active' = active \cup {o}
                 /\ count'[b][u].written = count[b][u].written + 1
                 /\ count'[b][u].rejected = count[b][u].rejected
                 /\ count'[b][u].findings = count[b][u].findings
                 /\ UNCHANGED findings
              \/ /\ k \in snap[b][u].bad
                 /\ count'[b][u].written = count[b][u].written
                 /\ count'[b][u].rejected = count[b][u].rejected + 1
                 /\ LET f == Found(b, u, "legacy_row_unimportable", k)
                    IN  /\ findings' = findings \cup {f}
                        /\ count'[b][u].findings = IF f \in findings THEN count[b][u].findings
                                                   ELSE count[b][u].findings + 1
                 /\ UNCHANGED <<seen, active>>
<1>1. PICK k \in RowsLeft(b, u) :
        /\ \A j \in RowsLeft(b, u) : k <= j
        /\ cursor' = [cursor EXCEPT ![b][u] = k]
        /\ \/ \E o \in snap[b][u].rows : Key[o] = k /\ WriteObservation(b, u, o)
           \/ k \in snap[b][u].bad /\ RejectRow(b, u, k)
  BY DEF CommitRow
<1>2. count[b][u] \in Counters
  BY DEF IngestTypes
<1>3. CASE \E o \in snap[b][u].rows : Key[o] = k /\ WriteObservation(b, u, o)
  <2>1. PICK o \in snap[b][u].rows : Key[o] = k /\ WriteObservation(b, u, o)
    BY <1>3
  <2> DEFINE r == [count[b][u] EXCEPT !.read = @ + 1, !.written = @ + 1]
  <2>2. count' = [count EXCEPT ![b][u] = r]
    BY <2>1 DEF WriteObservation
  <2>3. /\ r \in Counters
        /\ r.read = count[b][u].read + 1 /\ r.written = count[b][u].written + 1
        /\ r.rejected = count[b][u].rejected /\ r.findings = count[b][u].findings
    BY <1>2, WrittenCount
  <2> HIDE DEF r
  <2>4. /\ count' \in [Builds -> [Universities -> Counters]]
        /\ \A c \in Builds, v \in Universities : <<c, v>> # <<b, u>> => count'[c][v] = count[c][v]
        /\ count'[b][u] = r
    BY <2>2, <2>3, CountUpdate
  <2> QED
    BY <1>1, <2>1, <2>3, <2>4 DEF WriteObservation
<1>4. CASE k \in snap[b][u].bad /\ RejectRow(b, u, k)
  <2> DEFINE f == Found(b, u, "legacy_row_unimportable", k)
  <2> DEFINE n == IF f \in findings THEN count[b][u].findings ELSE count[b][u].findings + 1
             r == [count[b][u] EXCEPT !.read = @ + 1, !.rejected = @ + 1, !.findings = n]
  <2>1. n \in Nat
    BY <1>2 DEF Counters
  <2>2. count' = [count EXCEPT ![b][u] = r]
    BY <1>2, <1>4 DEF RejectRow, Counters
  <2>3. /\ r \in Counters
        /\ r.read = count[b][u].read + 1 /\ r.rejected = count[b][u].rejected + 1
        /\ r.written = count[b][u].written
        /\ r.findings = n
    <3> HIDE DEF n
    <3> QED
      BY <1>2, <2>1, RejectedCount
  <2> HIDE DEF r
  <2>4. /\ count' \in [Builds -> [Universities -> Counters]]
        /\ \A c \in Builds, v \in Universities : <<c, v>> # <<b, u>> => count'[c][v] = count[c][v]
        /\ count'[b][u] = r
    BY <2>2, <2>3, CountUpdate
  <2> QED
    BY <1>1, <1>4, <2>3, <2>4 DEF RejectRow
<1> QED
  BY <1>1, <1>3, <1>4

\* What the process may become.
LEMMA JobTypes ==
  ASSUME IngestTypes, NEW b \in Builds, NEW pc \in Places, NEW univs \in SUBSET Universities
  PROVE  /\ NoJob \in Jobs /\ Begin(b, pc) \in Jobs /\ GotoFor(pc, univs) \in Jobs
         /\ [job EXCEPT !.left = univs] \in Jobs
         /\ [job EXCEPT !.pc = pc] \in Jobs
         /\ [job EXCEPT !.pc = pc, !.left = univs] \in Jobs
<1>1. "idle" \in Places
  BY DEF Places
<1>2. job \in Jobs
  BY DEF IngestTypes
<1>3. NoJob \in Jobs /\ Begin(b, pc) \in Jobs
  BY <1>1 DEF NoJob, Begin, Jobs
<1>4. [job EXCEPT !.left = univs] \in Jobs /\ [job EXCEPT !.pc = pc] \in Jobs
  BY <1>2 DEF Jobs
<1>5. [job EXCEPT !.pc = pc, !.left = univs] \in Jobs
  BY <1>2 DEF Jobs
<1>6. [job EXCEPT !.pc = pc, !.left = univs, !.failed = FALSE] \in Jobs
  BY <1>2 DEF Jobs
<1> QED
  BY <1>3, <1>4, <1>5, <1>6 DEF GotoFor

\* The rows of a crawl database.
LEMMA CrawlRows ==
  ASSUME NEW c \in Crawl
  PROVE  /\ c.rows \subseteq Observations /\ c.bad \subseteq Nat \ {0}
         /\ RowKeys(c) \subseteq Nat \ {0}
         /\ \A o \in c.rows : Key[o] \in Nat \ {0}
<1>1. c.rows \subseteq Observations /\ c.bad \subseteq Nat \ {0}
  BY DEF Crawl
<1> QED
  BY <1>1, IngestAssumption DEF RowKeys

\* A source that is being read has a snapshot, and its task is open.
LEMMA CurrentSource ==
  ASSUME IngestInv, NEW b \in Builds, NEW u \in Universities,
         job.build = b, job.pc \in {"source", "rows"}, Current(u)
  PROVE  /\ task[b][u] = "open"
         /\ snap[b][u] # NoCrawl /\ snap[b][u] \in Crawls[u]
         /\ snap[b][u].rows \subseteq Observations /\ snap[b][u].bad \subseteq Nat \ {0}
         /\ RowKeys(snap[b][u]) \subseteq Nat \ {0}
<1>1. u \in Open(b) /\ u \notin Unsnapped(b)
  BY DEF Current, IngestInv, IngestJob
<1>2. /\ task[b][u] = "open"
      /\ snap[b][u] # NoCrawl /\ snap[b][u] \in Crawls[u]
  BY <1>1 DEF Open, Unsnapped, Tasks, IngestInv, IngestTypes
<1>3. snap[b][u] \in Crawl
  BY <1>2, CrawlsAssumption
<1> QED
  BY <1>2, <1>3, CrawlRows

\* What each step of stage 1 writes has its type.
LEMMA IngestTypesStep ==
  ASSUME IngestInv, NEW b \in Builds, IngestStep(b)
  PROVE  IngestTypes'
<1> USE IngestAssumption, CrawlsAssumption DEF ingestVars
<1>0. IngestTypes
  BY DEF IngestInv
<1>1. ASSUME NEW univs \in SUBSET Universities, CreateBuild(b, univs)
      PROVE  IngestTypes'
  <2>1. job' \in Jobs
    BY <1>0, <1>1, JobTypes DEF CreateBuild, Places
  <2> QED
    BY <1>0, <1>1, <2>1 DEF CreateBuild, IngestTypes
<1>2. ASSUME BeginIngest(b)
      PROVE  IngestTypes'
  <2>1. job' \in Jobs
    <3>1. Unsnapped(b) \subseteq Universities /\ Open(b) \subseteq Universities
      BY DEF Unsnapped, Tasks, Open
    <3>2. {"prepare", "snapshot", "source"} \subseteq Places
      BY DEF Places
    <3>3. /\ NoJob \in Jobs /\ Begin(b, "prepare") \in Jobs
          /\ GotoFor("snapshot", Unsnapped(b)) \in Jobs /\ GotoFor("source", Open(b)) \in Jobs
      BY <1>0, <3>1, <3>2, JobTypes
    <3> QED
      BY <1>2, <3>3 DEF BeginIngest
  <2>2. status' = status \/ \E s \in {"SNAPSHOTTING", "INGESTING"} :
                                status' = [status EXCEPT ![b] = s]
    BY <1>2 DEF BeginIngest
  <2> QED
    BY <1>0, <1>2, <2>1, <2>2 DEF BeginIngest, IngestTypes
<1>3. ASSUME SnapshotsDone(b)
      PROVE  IngestTypes'
  <2>1. job' \in Jobs
    <3>1. Open(b) \subseteq Universities /\ "source" \in Places
      BY DEF Open, Places
    <3>2. NoJob \in Jobs /\ GotoFor("source", Open(b)) \in Jobs
      BY <1>0, <3>1, JobTypes
    <3> QED
      BY <1>3, <3>2 DEF SnapshotsDone
  <2>2. \E s \in {"FAILED", "INGESTING"} : status' = [status EXCEPT ![b] = s]
    BY <1>3 DEF SnapshotsDone
  <2> QED
    BY <1>0, <1>3, <2>1, <2>2 DEF SnapshotsDone, IngestTypes
<1>4. ASSUME IngestDone(b)
      PROVE  IngestTypes'
  <2>1. job' \in Jobs
    <3>1. "prepare" \in Places
      BY DEF Places
    <3>2. NoJob \in Jobs /\ Begin(b, "prepare") \in Jobs
      BY <1>0, <3>1, JobTypes
    <3> QED
      BY <1>4, <3>2 DEF IngestDone
  <2>2. \E s \in {"FAILED", "CURATING"} : status' = [status EXCEPT ![b] = s]
    BY <1>4 DEF IngestDone
  <2> QED
    BY <1>0, <1>4, <2>1, <2>2 DEF IngestDone, IngestTypes
<1>5. ASSUME NEW u \in Universities, NEW c \in Crawls[u], TakeSnapshot(b, u, c)
      PROVE  IngestTypes'
  <2>1. c \in AnyCrawl
    BY DEF AnyCrawl
  <2>2. snap' \in [Builds -> [Universities -> AnyCrawl \cup {NoCrawl}]]
    BY <1>0, <1>5, <2>1 DEF TakeSnapshot, IngestTypes
  <2>3. \A d \in Builds, v \in Universities : snap'[d][v] \in Crawls[v] \cup {NoCrawl}
    BY <1>0, <1>5 DEF TakeSnapshot, IngestTypes
  <2>4. job' \in Jobs
    BY <1>0, <1>5 DEF TakeSnapshot, IngestTypes, Jobs
  <2> QED
    BY <1>0, <1>5, <2>2, <2>3, <2>4 DEF TakeSnapshot, IngestTypes
<1>6. ASSUME NEW u \in Universities, SnapshotFails(b, u) \/ IngestFails(b, u)
      PROVE  IngestTypes'
  <2>1. job' \in Jobs
    <3>1. CASE SnapshotFails(b, u)
      BY <1>0, <3>1 DEF SnapshotFails, IngestTypes, Jobs
    <3>2. CASE IngestFails(b, u)
      BY <1>0, <3>2 DEF IngestFails, IngestTypes, Jobs, Places
    <3> QED
      BY <1>6, <3>1, <3>2
  <2> QED
    BY <1>0, <1>6, <2>1 DEF SnapshotFails, IngestFails, IngestTypes
<1>7. ASSUME NEW u \in Universities, BeginSource(b, u)
      PROVE  IngestTypes'
  <2>1. Found(b, u, "source_capability_missing", 0) \in Finding
    BY DEF Found, Finding, Codes
  <2>2. /\ findings' \subseteq Finding /\ IsFiniteSet(findings')
        /\ count' \in [Builds -> [Universities -> Counters]]
    <3>1. CASE UNCHANGED <<findings, count>>
      BY <1>0, <3>1 DEF IngestTypes
    <3>2. CASE AddFinding(b, u, Found(b, u, "source_capability_missing", 0))
      BY <1>0, <2>1, <3>2, AddFindingStep
    <3> QED
      BY <1>7, <3>1, <3>2 DEF BeginSource
  <2>3. job' \in Jobs
    BY <1>0, <1>7 DEF BeginSource, IngestTypes, Jobs, Places
  <2> QED
    BY <1>0, <1>7, <2>2, <2>3 DEF BeginSource, IngestTypes
<1>8. ASSUME NEW u \in Universities, CommitRow(b, u)
      PROVE  IngestTypes'
  <2>1. UNCHANGED <<status, task, snap, eligible, job, faults>>
    BY <1>8 DEF CommitRow
  <2>2. PICK k \in RowsLeft(b, u) :
           /\ cursor' = [cursor EXCEPT ![b][u] = k]
           /\ count' \in [Builds -> [Universities -> Counters]]
           /\ \/ /\ \E o \in snap[b][u].rows :
                      seen' = [seen EXCEPT ![o] = b] /\ active' = active \cup {o}
                 /\ UNCHANGED findings
              \/ /\ findings' = findings \cup {Found(b, u, "legacy_row_unimportable", k)}
                 /\ UNCHANGED <<seen, active>>
    BY <1>0, <1>8, CommitRowStep
  <2>3. snap[b][u].rows \subseteq Observations /\ RowKeys(snap[b][u]) \subseteq Nat \ {0}
    BY <1>8, CurrentSource DEF CommitRow, At
  <2>4. k \in Nat
    BY <2>3 DEF RowsLeft
  <2>5. cursor' \in [Builds -> [Universities -> Nat]]
    BY <1>0, <2>2, <2>4 DEF IngestTypes
  <2>6. seen' \in [Observations -> Builds \cup {0}] /\ active' \subseteq Observations
    <3>1. CASE UNCHANGED <<seen, active>>
      BY <1>0, <3>1 DEF IngestTypes
    <3>2. ASSUME NEW o \in snap[b][u].rows,
                 seen' = [seen EXCEPT ![o] = b], active' = active \cup {o}
          PROVE  seen' \in [Observations -> Builds \cup {0}] /\ active' \subseteq Observations
      <4>1. o \in Observations
        BY <2>3
      <4>2. seen' \in [Observations -> Builds \cup {0}]
        BY <1>0, <3>2, <4>1 DEF IngestTypes
      <4>3. active' \subseteq Observations
        BY <1>0, <3>2, <4>1 DEF IngestTypes
      <4> QED
        BY <4>2, <4>3
    <3> QED
      BY <2>2, <3>1, <3>2
  <2>7. findings' \subseteq Finding /\ IsFiniteSet(findings')
    <3>1. Found(b, u, "legacy_row_unimportable", k) \in Finding
      BY <2>4 DEF Found, Finding, Codes
    <3> QED
      <4>1. findings \subseteq Finding /\ IsFiniteSet(findings)
        BY <1>0 DEF IngestTypes
      <4>2. \/ UNCHANGED findings
            \/ findings' = findings \cup {Found(b, u, "legacy_row_unimportable", k)}
        BY <2>2
      <4> QED
        BY <3>1, <4>1, <4>2, FS_AddElement
  <2> QED
    BY <1>0, <2>1, <2>2, <2>5, <2>6, <2>7 DEF IngestTypes
<1>9. ASSUME NEW u \in Universities, Finalize(b, u)
      PROVE  IngestTypes'
  <2>1. Found(b, u, "source_deactivation_blocked", 0) \in Finding
    BY DEF Found, Finding, Codes
  <2>2. /\ findings' \subseteq Finding /\ IsFiniteSet(findings')
        /\ count' \in [Builds -> [Universities -> Counters]]
    <3>1. CASE UNCHANGED <<findings, count>>
      BY <1>0, <3>1 DEF IngestTypes
    <3>2. CASE AddFinding(b, u, Found(b, u, "source_deactivation_blocked", 0))
      BY <1>0, <2>1, <3>2, AddFindingStep
    <3> QED
      BY <1>9, <3>1, <3>2 DEF Finalize
  <2>3. job' \in Jobs
    BY <1>0, <1>9 DEF Finalize, IngestTypes, Jobs, Places
  <2>4. active' \subseteq Observations
    BY <1>0, <1>9 DEF Finalize, IngestTypes
  <2>5. task' \in [Builds -> [Universities -> {"absent", "open", "COMPLETED"}]]
    BY <1>0, <1>9 DEF Finalize, IngestTypes
  <2> QED
    BY <1>0, <1>9, <2>2, <2>3, <2>4, <2>5 DEF Finalize, IngestTypes
<1>10. ASSUME NEW stage \in {"ingest", "prepare"}, Resume(b, stage)
       PROVE  IngestTypes'
  <2>1. job' \in Jobs
    BY <1>0, <1>10, JobTypes DEF Resume, Places
  <2> QED
    BY <1>0, <1>10, <2>1 DEF Resume, IngestTypes
<1> QED
  BY <1>1, <1>2, <1>3, <1>4, <1>5, <1>6, <1>7, <1>8, <1>9, <1>10 DEF IngestStep

\* No step of stage 1 loses track of a task that is left to do.
LEMMA IngestJobStep ==
  ASSUME IngestInv, NEW b \in Builds, IngestStep(b)
  PROVE  IngestJob' /\ TasksDone'
<1> USE IngestAssumption DEF ingestVars
<1>0. IngestTypes /\ IngestJob /\ TasksDone /\ b # 0
  BY DEF IngestInv
<1>1. ASSUME NEW univs \in SUBSET Universities, CreateBuild(b, univs)
      PROVE  IngestJob' /\ TasksDone'
  <2>1. IngestJob'
    BY <1>0, <1>1 DEF CreateBuild, Begin, IngestJob
  <2>2. TasksDone'
    BY <1>0, <1>1 DEF CreateBuild, IngestTypes, TasksDone, Unsnapped, Tasks, Open
  <2> QED
    BY <2>1, <2>2
<1>2. ASSUME BeginIngest(b)
      PROVE  IngestJob' /\ TasksDone'
  <2>1. UNCHANGED <<task, snap>> /\ job.build = b
    BY <1>2 DEF BeginIngest, At
  <2>2. IngestJob'
    <3>1. CASE job' = NoJob \/ job' = Begin(b, "prepare")
      BY <1>0, <3>1 DEF NoJob, Begin, IngestJob
    <3>2. CASE job' = GotoFor("snapshot", Unsnapped(b))
      BY <1>0, <2>1, <3>2 DEF GotoFor, IngestTypes, Jobs, IngestJob, Unsnapped, Tasks
    <3>3. CASE Unsnapped(b) = {} /\ job' = GotoFor("source", Open(b))
      BY <1>0, <2>1, <3>3 DEF GotoFor, IngestTypes, Jobs, IngestJob, Unsnapped, Tasks, Open
    <3> QED
      BY <1>2, <3>1, <3>2, <3>3 DEF BeginIngest
  <2>3. TasksDone'
    <3>1. status' = status \/ \E s \in {"SNAPSHOTTING", "INGESTING"} :
                                status' = [status EXCEPT ![b] = s]
      BY <1>2 DEF BeginIngest
    <3> QED
      BY <1>0, <2>1, <3>1 DEF IngestTypes, TasksDone, Unsnapped, Tasks, Open
  <2> QED
    BY <2>2, <2>3
<1>3. ASSUME SnapshotsDone(b)
      PROVE  IngestJob' /\ TasksDone'
  <2>1. UNCHANGED <<task, snap>> /\ job.build = b
    BY <1>3 DEF SnapshotsDone, At
  <2>2. IngestJob'
    <3>1. CASE job' = NoJob
      BY <3>1 DEF NoJob, IngestJob
    <3>2. CASE ~job.failed /\ job' = GotoFor("source", Open(b))
      <4>1. Unsnapped(b) = {}
        BY <1>0, <1>3, <3>2 DEF SnapshotsDone, At, IngestJob
      <4> QED
        BY <1>0, <2>1, <3>2, <4>1 DEF GotoFor, IngestTypes, Jobs, IngestJob, Unsnapped, Tasks, Open
    <3> QED
      BY <1>3, <3>1, <3>2 DEF SnapshotsDone
  <2>3. TasksDone'
    <3>1. \E s \in {"FAILED", "INGESTING"} : status' = [status EXCEPT ![b] = s]
      BY <1>3 DEF SnapshotsDone
    <3> QED
      BY <1>0, <2>1, <3>1 DEF IngestTypes, TasksDone, Unsnapped, Tasks, Open
  <2> QED
    BY <2>2, <2>3
<1>4. ASSUME IngestDone(b)
      PROVE  IngestJob' /\ TasksDone'
  <2>1. UNCHANGED <<task, snap>> /\ job.build = b
    BY <1>4 DEF IngestDone, At
  <2>2. IngestJob'
    BY <1>0, <1>4 DEF IngestDone, NoJob, Begin, IngestJob
  <2>3. ~job.failed => Unsnapped(b) = {} /\ Open(b) = {}
    BY <1>0, <1>4 DEF IngestDone, At, IngestJob
  <2>4. \/ status' = [status EXCEPT ![b] = "FAILED"]
        \/ ~job.failed /\ status' = [status EXCEPT ![b] = "CURATING"]
    BY <1>4 DEF IngestDone
  <2>5. TasksDone'
    BY <1>0, <2>1, <2>3, <2>4 DEF IngestTypes, TasksDone, Unsnapped, Tasks, Open
  <2> QED
    BY <2>2, <2>5
<1>5. ASSUME NEW u \in Universities, NEW c \in Crawls[u], TakeSnapshot(b, u, c)
      PROVE  IngestJob' /\ TasksDone'
  <2>1. c # NoCrawl
    BY CrawlsAssumption
  <2>2. UNCHANGED <<status, task>> /\ snap' = [snap EXCEPT ![b][u] = c] /\ At(b, "snapshot")
    BY <1>5 DEF TakeSnapshot
  <2>3. Unsnapped(b)' = Unsnapped(b) \ {u}
    BY <1>0, <2>1, <2>2 DEF IngestTypes, Unsnapped, Tasks
  <2>4. IngestJob'
    BY <1>0, <1>5, <2>3 DEF TakeSnapshot, At, IngestTypes, Jobs, IngestJob
  <2>5. TasksDone'
    BY <1>0, <2>1, <2>2 DEF IngestTypes, TasksDone, Unsnapped, Tasks, Open
  <2> QED
    BY <2>4, <2>5
<1>6. ASSUME NEW u \in Universities, SnapshotFails(b, u) \/ IngestFails(b, u)
      PROVE  IngestJob' /\ TasksDone'
  <2>1. UNCHANGED <<status, task, snap>>
    BY <1>6 DEF SnapshotFails, IngestFails
  <2>2. TasksDone'
    BY <1>0, <2>1 DEF TasksDone, Unsnapped, Tasks, Open
  <2>3. CASE SnapshotFails(b, u)
    BY <1>0, <2>1, <2>2, <2>3 DEF SnapshotFails, At, IngestTypes, Jobs, IngestJob, Unsnapped, Tasks
  <2>4. CASE IngestFails(b, u)
    BY <1>0, <2>1, <2>2, <2>4 DEF IngestFails, IngestTypes, Jobs, IngestJob, Unsnapped, Tasks, Open
  <2> QED
    BY <1>6, <2>3, <2>4
<1>7. ASSUME NEW u \in Universities, BeginSource(b, u) \/ CommitRow(b, u)
      PROVE  IngestJob' /\ TasksDone'
  <2>1. UNCHANGED <<status, task, snap>>
    BY <1>7 DEF BeginSource, CommitRow
  <2>2. job' \in {job, [job EXCEPT !.pc = "rows"]} /\ job.build = b /\ job.pc \in {"source", "rows"}
    BY <1>7 DEF BeginSource, CommitRow, At
  <2>3. IngestJob'
    <3>1. Unsnapped(b)' = Unsnapped(b) /\ Open(b)' = Open(b)
      BY <2>1 DEF Unsnapped, Tasks, Open
    <3>2. job'.build = b /\ job'.left = job.left /\ job'.failed = job.failed
      BY <1>0, <2>2 DEF IngestTypes, Jobs
    <3>3. job'.pc \in {"source", "rows"}
      BY <1>0, <2>2 DEF IngestTypes, Jobs
    <3> QED
      BY <1>0, <2>2, <3>1, <3>2, <3>3 DEF IngestJob
  <2>4. TasksDone'
    BY <1>0, <2>1 DEF TasksDone, Unsnapped, Tasks, Open
  <2> QED
    BY <2>3, <2>4
<1>8. ASSUME NEW u \in Universities, Finalize(b, u)
      PROVE  IngestJob' /\ TasksDone'
  <2>1. task' = [task EXCEPT ![b][u] = "COMPLETED"] /\ UNCHANGED <<status, snap>>
    BY <1>8 DEF Finalize
  <2>2. task[b][u] = "open"
    BY <1>8, CurrentSource DEF Finalize, At
  <2>3. Open(b)' = Open(b) \ {u} /\ Unsnapped(b)' = Unsnapped(b)
    BY <1>0, <2>1, <2>2 DEF IngestTypes, Open, Unsnapped, Tasks
  <2>4. IngestJob'
    BY <1>0, <1>8, <2>3 DEF Finalize, At, IngestTypes, Jobs, IngestJob
  <2>5. TasksDone'
    BY <1>0, <2>1, <2>2 DEF IngestTypes, TasksDone, Unsnapped, Tasks, Open
  <2> QED
    BY <2>4, <2>5
<1>9. ASSUME NEW stage \in {"ingest", "prepare"}, Resume(b, stage)
      PROVE  IngestJob' /\ TasksDone'
  <2>1. IngestJob'
    BY <1>0, <1>9 DEF Resume, Begin, IngestJob
  <2>2. TasksDone'
    BY <1>0, <1>9 DEF Resume, TasksDone, Unsnapped, Tasks, Open
  <2> QED
    BY <2>1, <2>2
<1> QED
  BY <1>1, <1>2, <1>3, <1>4, <1>5, <1>6, <1>7, <1>8, <1>9 DEF IngestStep

\* A task gets its snapshot before anything else.
LEMMA FreshStep ==
  ASSUME IngestInv, NEW b \in Builds, IngestStep(b)
  PROVE  Fresh'
<1> USE IngestAssumption, CrawlsAssumption DEF ingestVars
<1>0. IngestTypes /\ Fresh
  BY DEF IngestInv
<1>1. UNCHANGED <<task, snap, cursor, count, findings>> => Fresh'
  BY <1>0 DEF Fresh, NoRows
<1>2. CASE \/ BeginIngest(b) \/ SnapshotsDone(b) \/ IngestDone(b)
           \/ \E u \in Universities : SnapshotFails(b, u) \/ IngestFails(b, u)
           \/ \E stage \in {"ingest", "prepare"} : Resume(b, stage)
  <2>1. UNCHANGED <<task, snap, cursor, count, findings>>
    BY <1>2 DEF BeginIngest, SnapshotsDone, IngestDone, SnapshotFails, IngestFails, Resume
  <2> QED
    BY <1>1, <2>1
<1>3. ASSUME NEW univs \in SUBSET Universities, CreateBuild(b, univs)
      PROVE  Fresh'
  <2>1. \A u \in Universities : task[b][u] = "absent" /\ snap[b][u] = NoCrawl
    BY <1>0, <1>3 DEF CreateBuild, IngestInv, TasksDone, Tasks, Fresh
  <2> QED
    BY <1>0, <1>3, <2>1 DEF CreateBuild, IngestTypes, Fresh
<1>4. ASSUME NEW u \in Universities, NEW c \in Crawls[u], TakeSnapshot(b, u, c)
      PROVE  Fresh'
  <2>1. task[b][u] # "absent" /\ c # NoCrawl
    BY <1>4 DEF TakeSnapshot, At, Current, IngestInv, IngestJob, Unsnapped, Tasks
  <2> QED
    BY <1>0, <1>4, <2>1 DEF TakeSnapshot, IngestTypes, Fresh
<1>5. ASSUME NEW u \in Universities,
             BeginSource(b, u) \/ CommitRow(b, u) \/ Finalize(b, u)
      PROVE  Fresh'
  <2>1. snap[b][u] # NoCrawl /\ task[b][u] # "absent"
    BY <1>5, CurrentSource DEF BeginSource, CommitRow, Finalize, At
  <2>2. /\ UNCHANGED snap
        /\ \A c \in Builds, v \in Universities : <<c, v>> # <<b, u>> =>
             /\ task'[c][v] = task[c][v] /\ cursor'[c][v] = cursor[c][v]
             /\ count'[c][v] = count[c][v]
        /\ task'[b][u] # "absent"
        /\ \A f \in findings' : f \in findings \/ (f.build = b /\ f.univ = u)
    <3>1. CASE BeginSource(b, u)
      BY <1>0, <2>1, <3>1, AddFindingStep DEF BeginSource, Found, Finding, Codes, AddFinding
    <3>2. CASE CommitRow(b, u)
      <4>1. UNCHANGED <<snap, task>>
        BY <3>2 DEF CommitRow
      <4>2. PICK k \in RowsLeft(b, u) :
              /\ cursor' = [cursor EXCEPT ![b][u] = k]
              /\ \A c \in Builds, v \in Universities :
                   <<c, v>> # <<b, u>> => count'[c][v] = count[c][v]
              /\ \/ UNCHANGED findings
                 \/ findings' = findings \cup {Found(b, u, "legacy_row_unimportable", k)}
        BY <1>0, <3>2, CommitRowStep
      <4>3. \A f \in findings' : f \in findings \/ (f.build = b /\ f.univ = u)
        BY <4>2 DEF Found
      <4>4. \A c \in Builds, v \in Universities :
              <<c, v>> # <<b, u>> => cursor'[c][v] = cursor[c][v]
        BY <1>0, <4>2 DEF IngestTypes
      <4> QED
        BY <2>1, <4>1, <4>2, <4>3, <4>4
    <3>3. CASE Finalize(b, u)
      BY <1>0, <2>1, <3>3, AddFindingStep DEF Finalize, IngestTypes, Found, Finding, Codes, AddFinding
    <3> QED
      BY <1>5, <3>1, <3>2, <3>3
  <2> QED
    BY <1>0, <2>1, <2>2 DEF Fresh
<1> QED
  BY <1>2, <1>3, <1>4, <1>5 DEF IngestStep

\* An observation is only marked as seen by a build with a row of it.
LEMMA SeenStep ==
  ASSUME IngestInv, NEW b \in Builds, IngestStep(b)
  PROVE  SeenInSnapshot'
<1> USE IngestAssumption, CrawlsAssumption DEF ingestVars
<1>0. IngestTypes /\ SeenInSnapshot
  BY DEF IngestInv
<1>1. UNCHANGED <<snap, seen>> /\ active' \subseteq active => SeenInSnapshot'
  BY <1>0 DEF SeenInSnapshot
<1>2. CASE \/ \E univs \in SUBSET Universities : CreateBuild(b, univs)
           \/ BeginIngest(b) \/ SnapshotsDone(b) \/ IngestDone(b)
           \/ \E u \in Universities : \/ SnapshotFails(b, u) \/ IngestFails(b, u)
                                      \/ BeginSource(b, u) \/ Finalize(b, u)
           \/ \E stage \in {"ingest", "prepare"} : Resume(b, stage)
  <2>1. UNCHANGED <<snap, seen>> /\ active' \subseteq active
    BY <1>2 DEF CreateBuild, BeginIngest, SnapshotsDone, IngestDone, SnapshotFails, IngestFails,
                BeginSource, Finalize, Resume
  <2> QED
    BY <1>1, <2>1
<1>3. ASSUME NEW u \in Universities, NEW c \in Crawls[u], TakeSnapshot(b, u, c)
      PROVE  SeenInSnapshot'
  <2>1. snap[b][u] = NoCrawl
    BY <1>3 DEF TakeSnapshot, At, Current, IngestInv, IngestJob, Unsnapped
  <2>2. snap' = [snap EXCEPT ![b][u] = c] /\ UNCHANGED <<seen, active>>
    BY <1>3 DEF TakeSnapshot
  <2>3. \A o \in Observations : seen[o] # 0 => snap'[seen[o]][Home[o]] = snap[seen[o]][Home[o]]
    BY <1>0, <2>1, <2>2 DEF IngestTypes, SeenInSnapshot
  <2> QED
    BY <1>0, <2>2, <2>3 DEF SeenInSnapshot
<1>4. ASSUME NEW u \in Universities, CommitRow(b, u)
      PROVE  SeenInSnapshot'
  <2>1. /\ snap[b][u] # NoCrawl /\ snap[b][u] \in Crawls[u]
        /\ snap[b][u].rows \subseteq Observations
    BY <1>4, CurrentSource DEF CommitRow, At
  <2>2. UNCHANGED snap
    BY <1>4 DEF CommitRow
  <2>3. CASE UNCHANGED <<seen, active>>
    BY <1>1, <2>2, <2>3
  <2>4. ASSUME NEW o \in snap[b][u].rows, seen' = [seen EXCEPT ![o] = b], active' = active \cup {o}
        PROVE  SeenInSnapshot'
    <3>1. o \in Observations /\ Home[o] = u /\ b # 0
      BY <2>1
    <3>2. seen'[o] = b /\ \A p \in Observations \ {o} : seen'[p] = seen[p]
      BY <1>0, <2>4, <3>1 DEF IngestTypes
    <3>3. SeenInSnapshot
      BY <1>0
    <3>4. snap[seen'[o]][Home[o]] # NoCrawl /\ o \in snap[seen'[o]][Home[o]].rows /\ seen'[o] # 0
      BY <2>1, <2>4, <3>1, <3>2
    <3>5. active' = active \cup {o}
      BY <2>4
    <3> QED
      BY <2>2, <3>1, <3>2, <3>3, <3>4, <3>5 DEF SeenInSnapshot
  <2>5. \/ UNCHANGED <<seen, active>>
        \/ \E o \in snap[b][u].rows : seen' = [seen EXCEPT ![o] = b] /\ active' = active \cup {o}
    BY <1>4 DEF CommitRow, WriteObservation, RejectRow
  <2> QED
    BY <2>3, <2>4, <2>5
<1> QED
  BY <1>2, <1>3, <1>4 DEF IngestStep

-----------------------------------------------------------------------------
\* RowsCountedOnce of one task.
FindingsOf(b, u) == {f \in findings : f.build = b /\ f.univ = u}

Counted(b, u) ==
    /\ count[b][u].read = Cardinality(Before(b, u))
    /\ count[b][u].rejected = Cardinality(Before(b, u) \cap snap[b][u].bad)
    /\ count[b][u].written + count[b][u].rejected = count[b][u].read
    /\ count[b][u].findings = Cardinality(FindingsOf(b, u))
    /\ \A o \in snap[b][u].rows : Key[o] <= cursor[b][u] => seen[o] # 0
    /\ \A k \in snap[b][u].bad :
         k <= cursor[b][u] => Found(b, u, "legacy_row_unimportable", k) \in findings
    /\ task[b][u] = "COMPLETED" => RowsLeft(b, u) = {}

LEMMA CountedTasks ==
  RowsCountedOnce <=>
    \A b \in Builds, u \in Universities : snap[b][u] # NoCrawl => Counted(b, u)
BY DEF RowsCountedOnce, Counted, FindingsOf

\* The number of findings of a task when one is added.
LEMMA FindingsCount ==
  ASSUME IngestTypes, NEW b \in Builds, NEW u \in Universities, NEW f \in Finding,
         f.build = b, f.univ = u, findings' = findings \cup {f}
  PROVE  /\ Cardinality(FindingsOf(b, u)') =
              IF f \in findings THEN Cardinality(FindingsOf(b, u))
              ELSE Cardinality(FindingsOf(b, u)) + 1
         /\ \A c \in Builds, v \in Universities :
              <<c, v>> # <<b, u>> => FindingsOf(c, v)' = FindingsOf(c, v)
<1>1. FindingsOf(b, u)' = FindingsOf(b, u) \cup {f}
  BY DEF FindingsOf
<1>2. f \in FindingsOf(b, u) <=> f \in findings
  BY DEF FindingsOf
<1>3. IsFiniteSet(FindingsOf(b, u))
  BY FS_Subset DEF FindingsOf, IngestTypes
<1>4. Cardinality(FindingsOf(b, u) \cup {f}) =
        IF f \in FindingsOf(b, u) THEN Cardinality(FindingsOf(b, u))
        ELSE Cardinality(FindingsOf(b, u)) + 1
  BY <1>3, FS_AddElement
<1>5. \A c \in Builds, v \in Universities :
        <<c, v>> # <<b, u>> => FindingsOf(c, v)' = FindingsOf(c, v)
  BY DEF FindingsOf
<1> QED
  BY <1>1, <1>2, <1>4, <1>5

\* What a step does to other tasks cannot make their counters wrong.
LEMMA CountedFrame ==
  ASSUME NEW b \in Builds, NEW u \in Universities, Counted(b, u), snap[b][u] \in Crawl,
         snap'[b][u] = snap[b][u], cursor'[b][u] = cursor[b][u], count'[b][u] = count[b][u],
         task'[b][u] = task[b][u], FindingsOf(b, u)' = FindingsOf(b, u),
         findings \subseteq findings', \A o \in Observations : seen[o] # 0 => seen'[o] # 0
  PROVE  Counted(b, u)'
<1>1. Before(b, u)' = Before(b, u) /\ RowsLeft(b, u)' = RowsLeft(b, u)
  BY DEF Before, RowsLeft
<1>2. snap[b][u].rows \subseteq Observations
  BY DEF Crawl
<1> QED
  BY <1>1, <1>2 DEF Counted, Found

\* The next row is counted, and no row before it is left out.
LEMMA CommitRowCounted ==
  ASSUME IngestInv, NEW b \in Builds, NEW u \in Universities, CommitRow(b, u)
  PROVE  Counted(b, u)'
<1> USE IngestAssumption, CrawlsAssumption
<1>1. /\ task[b][u] = "open" /\ snap[b][u] # NoCrawl /\ snap[b][u] \in Crawls[u]
      /\ snap[b][u].rows \subseteq Observations /\ snap[b][u].bad \subseteq Nat \ {0}
      /\ RowKeys(snap[b][u]) \subseteq Nat \ {0}
  BY CurrentSource DEF CommitRow, At
<1>2. IngestTypes /\ Counted(b, u)
  BY <1>1, CountedTasks DEF IngestInv
<1>3. UNCHANGED <<snap, task>>
  BY DEF CommitRow
<1>4. PICK k \in RowsLeft(b, u) :
        /\ \A j \in RowsLeft(b, u) : k <= j
        /\ cursor' = [cursor EXCEPT ![b][u] = k]
        /\ count' \in [Builds -> [Universities -> Counters]]
        /\ count'[b][u].read = count[b][u].read + 1
        /\ \/ /\ \E o \in snap[b][u].rows : Key[o] = k /\ seen' = [seen EXCEPT ![o] = b]
              /\ count'[b][u].written = count[b][u].written + 1
              /\ count'[b][u].rejected = count[b][u].rejected
              /\ count'[b][u].findings = count[b][u].findings
              /\ UNCHANGED findings
           \/ /\ k \in snap[b][u].bad
              /\ count'[b][u].written = count[b][u].written
              /\ count'[b][u].rejected = count[b][u].rejected + 1
              /\ LET f == Found(b, u, "legacy_row_unimportable", k)
                 IN  /\ findings' = findings \cup {f}
                     /\ count'[b][u].findings = IF f \in findings THEN count[b][u].findings
                                                ELSE count[b][u].findings + 1
              /\ UNCHANGED seen
  BY <1>2, CommitRowStep
<1>5. /\ k \in RowKeys(snap[b][u]) /\ k \in Nat /\ k > cursor[b][u]
      /\ cursor[b][u] \in Nat /\ cursor'[b][u] = k
  <2>1. cursor \in [Builds -> [Universities -> Nat]]
    BY <1>2 DEF IngestTypes
  <2>2. cursor[b][u] \in Nat /\ cursor'[b][u] = k
    BY <1>4, <2>1
  <2>3. k \in RowKeys(snap[b][u]) /\ k > cursor[b][u]
    BY <1>4 DEF RowsLeft
  <2> QED
    BY <1>1, <2>2, <2>3
<1>6. \A j \in RowKeys(snap[b][u]) : j <= k => j <= cursor[b][u] \/ j = k
  <2> SUFFICES ASSUME NEW j \in RowKeys(snap[b][u]), j <= k, ~(j <= cursor[b][u])
               PROVE  j = k
    OBVIOUS
  <2>1. j \in Nat
    BY <1>1
  <2>2. j \in RowsLeft(b, u)
    BY <1>5, <2>1 DEF RowsLeft
  <2>3. k <= j
    BY <1>4, <2>2
  <2> QED
    BY <1>5, <2>1, <2>3
<1>7. Before(b, u)' = Before(b, u) \cup {k} /\ k \notin Before(b, u)
  BY <1>1, <1>3, <1>5, <1>6 DEF Before
<1>8. IsFiniteSet(Before(b, u))
  BY <1>1, <1>5, FS_BoundedSetOfNaturals DEF Before
<1>9. Cardinality(Before(b, u)') = Cardinality(Before(b, u)) + 1
  BY <1>7, <1>8, FS_AddElement
<1>10. \A f \in findings : f \in findings'
  BY <1>4
<1>11. count[b][u] \in Counters
  BY <1>2 DEF IngestTypes
<1>12. CASE /\ \E o \in snap[b][u].rows : Key[o] = k /\ seen' = [seen EXCEPT ![o] = b]
            /\ count'[b][u].written = count[b][u].written + 1
            /\ count'[b][u].rejected = count[b][u].rejected
            /\ count'[b][u].findings = count[b][u].findings
            /\ UNCHANGED findings
  <2>1. PICK o \in snap[b][u].rows : Key[o] = k /\ seen' = [seen EXCEPT ![o] = b]
    BY <1>12
  <2>2. o \in Observations /\ k \notin snap[b][u].bad /\ \A p \in snap[b][u].rows : Key[p] = k => p = o
    BY <1>1, <2>1
  <2>3. \A p \in Observations : p = o \/ seen[p] # 0 => seen'[p] # 0
    BY <1>2, <2>1, <2>2 DEF IngestTypes
  <2>4. Before(b, u)' \cap snap'[b][u].bad = Before(b, u) \cap snap[b][u].bad
    BY <1>3, <1>7, <2>2
  <2>5. /\ count'[b][u].read = Cardinality(Before(b, u)')
        /\ count'[b][u].written + count'[b][u].rejected = count'[b][u].read
    BY <1>2, <1>4, <1>9, <1>11, <1>12 DEF Counted, Counters
  <2>6. count'[b][u].rejected = Cardinality(Before(b, u)' \cap snap'[b][u].bad)
    BY <1>2, <1>12, <2>4 DEF Counted
  <2>7. count'[b][u].findings = Cardinality(FindingsOf(b, u)')
    BY <1>2, <1>12 DEF Counted, FindingsOf
  <2>8. \A p \in snap'[b][u].rows : Key[p] <= cursor'[b][u] => seen'[p] # 0
    <3> SUFFICES ASSUME NEW p \in snap[b][u].rows, Key[p] <= k
                 PROVE  seen'[p] # 0
      BY <1>3, <1>5
    <3>1. p \in Observations /\ Key[p] \in RowKeys(snap[b][u])
      BY <1>1 DEF RowKeys
    <3>2. Key[p] <= cursor[b][u] \/ p = o
      BY <1>6, <2>2, <3>1
    <3> QED
      BY <1>2, <2>3, <3>1, <3>2 DEF Counted
  <2>9. \A j \in snap'[b][u].bad :
          j <= cursor'[b][u] => Found(b, u, "legacy_row_unimportable", j) \in findings'
    <3> SUFFICES ASSUME NEW j \in snap[b][u].bad, j <= k
                 PROVE  Found(b, u, "legacy_row_unimportable", j) \in findings
      BY <1>3, <1>5, <1>12
    <3>1. j <= cursor[b][u]
      BY <1>6, <2>2 DEF RowKeys
    <3> QED
      BY <1>2, <3>1 DEF Counted
  <2>10. task'[b][u] # "COMPLETED"
    BY <1>1, <1>3
  <2> QED
    BY <2>5, <2>6, <2>7, <2>8, <2>9, <2>10 DEF Counted, Found
<1>13. CASE /\ k \in snap[b][u].bad
            /\ count'[b][u].written = count[b][u].written
            /\ count'[b][u].rejected = count[b][u].rejected + 1
            /\ LET f == Found(b, u, "legacy_row_unimportable", k)
               IN  /\ findings' = findings \cup {f}
                   /\ count'[b][u].findings = IF f \in findings THEN count[b][u].findings
                                              ELSE count[b][u].findings + 1
            /\ UNCHANGED seen
  <2> DEFINE f == Found(b, u, "legacy_row_unimportable", k)
  <2>1. f \in Finding /\ f.build = b /\ f.univ = u
    BY <1>5 DEF Found, Finding, Codes
  <2>2. \A p \in snap[b][u].rows : Key[p] # k
    BY <1>1, <1>13
  <2>3. Before(b, u)' \cap snap'[b][u].bad = (Before(b, u) \cap snap[b][u].bad) \cup {k}
    BY <1>3, <1>7, <1>13
  <2>4. Cardinality(Before(b, u)' \cap snap'[b][u].bad) =
          Cardinality(Before(b, u) \cap snap[b][u].bad) + 1
    <3>1. IsFiniteSet(Before(b, u) \cap snap[b][u].bad)
      <4>1. Before(b, u) \cap snap[b][u].bad \in SUBSET Before(b, u)
        OBVIOUS
      <4> QED
        BY <1>8, <4>1, FS_Subset
    <3> QED
      BY <1>7, <2>3, <3>1, FS_AddElement
  <2>5. /\ count'[b][u].read = Cardinality(Before(b, u)')
        /\ count'[b][u].written + count'[b][u].rejected = count'[b][u].read
    BY <1>2, <1>4, <1>9, <1>11, <1>13 DEF Counted, Counters
  <2>6. count'[b][u].rejected = Cardinality(Before(b, u)' \cap snap'[b][u].bad)
    BY <1>2, <1>13, <2>4 DEF Counted
  <2>7. count'[b][u].findings = Cardinality(FindingsOf(b, u)')
    BY <1>2, <1>13, <2>1, FindingsCount DEF Counted
  <2>8. \A p \in snap'[b][u].rows : Key[p] <= cursor'[b][u] => seen'[p] # 0
    <3> SUFFICES ASSUME NEW p \in snap[b][u].rows, Key[p] <= k
                 PROVE  seen[p] # 0
      BY <1>3, <1>5, <1>13
    <3>1. Key[p] <= cursor[b][u]
      BY <1>6, <2>2 DEF RowKeys
    <3> QED
      BY <1>2, <3>1 DEF Counted
  <2>9. \A j \in snap'[b][u].bad :
          j <= cursor'[b][u] => Found(b, u, "legacy_row_unimportable", j) \in findings'
    <3> SUFFICES ASSUME NEW j \in snap[b][u].bad, j <= k
                 PROVE  Found(b, u, "legacy_row_unimportable", j) \in findings'
      BY <1>3, <1>5
    <3>1. j <= cursor[b][u] \/ j = k
      BY <1>6 DEF RowKeys
    <3> QED
      BY <1>2, <1>10, <1>13, <3>1 DEF Counted
  <2>10. task'[b][u] # "COMPLETED"
    BY <1>1, <1>3
  <2> QED
    BY <2>5, <2>6, <2>7, <2>8, <2>9, <2>10 DEF Counted, Found
<1> QED
  BY <1>4, <1>12, <1>13

\* A finding of the source changes no other counter of its task.
LEMMA AddFindingCounted ==
  ASSUME IngestInv, NEW b \in Builds, NEW u \in Universities, Counted(b, u),
         NEW f \in Finding, f.build = b, f.univ = u, AddFinding(b, u, f),
         UNCHANGED <<snap, cursor, seen>>,
         task'[b][u] = "COMPLETED" => RowsLeft(b, u) = {}
  PROVE  Counted(b, u)'
<1>1. Before(b, u)' = Before(b, u) /\ RowsLeft(b, u)' = RowsLeft(b, u)
  BY DEF Before, RowsLeft
<1>2. IngestTypes /\ findings' = findings \cup {f}
  BY DEF AddFinding, IngestInv
<1>3. /\ count'[b][u].read = count[b][u].read
      /\ count'[b][u].written = count[b][u].written
      /\ count'[b][u].rejected = count[b][u].rejected
      /\ count'[b][u].findings =
           IF f \in findings THEN count[b][u].findings ELSE count[b][u].findings + 1
  BY <1>2, AddFindingStep
<1>4. count'[b][u].findings = Cardinality(FindingsOf(b, u)')
  BY <1>2, <1>3, FindingsCount DEF Counted
<1> QED
  BY <1>1, <1>2, <1>3, <1>4 DEF Counted, Found

\* No step of stage 1 counts a row twice or not at all.
LEMMA CountStep ==
  ASSUME IngestInv, NEW b \in Builds, IngestStep(b)
  PROVE  RowsCountedOnce'
<1> USE IngestAssumption, CrawlsAssumption DEF ingestVars
<1>0. IngestTypes /\ Fresh
  BY DEF IngestInv
<1>1. SUFFICES ASSUME NEW c \in Builds, NEW v \in Universities, snap'[c][v] # NoCrawl
               PROVE  Counted(c, v)'
  BY DEF RowsCountedOnce, Counted, FindingsOf
<1>2. snap[c][v] # NoCrawl => Counted(c, v) /\ snap[c][v] \in Crawl
  BY <1>0, CountedTasks DEF IngestInv, IngestTypes
<1>3. ASSUME snap'[c][v] = snap[c][v], cursor'[c][v] = cursor[c][v], count'[c][v] = count[c][v],
             task'[c][v] = task[c][v], FindingsOf(c, v)' = FindingsOf(c, v),
             findings \subseteq findings',
             \A o \in Observations : seen[o] # 0 => seen'[o] # 0
      PROVE  Counted(c, v)'
  BY <1>1, <1>2, <1>3, CountedFrame
<1>4. CASE \/ BeginIngest(b) \/ SnapshotsDone(b) \/ IngestDone(b)
           \/ \E u \in Universities : SnapshotFails(b, u) \/ IngestFails(b, u)
           \/ \E stage \in {"ingest", "prepare"} : Resume(b, stage)
  <2>1. UNCHANGED <<task, snap, cursor, count, findings, seen>>
    BY <1>4 DEF BeginIngest, SnapshotsDone, IngestDone, SnapshotFails, IngestFails, Resume
  <2> QED
    BY <1>3, <2>1 DEF FindingsOf
<1>5. ASSUME NEW univs \in SUBSET Universities, CreateBuild(b, univs)
      PROVE  Counted(c, v)'
  <2>1. snap[b][v] = NoCrawl
    BY <1>0, <1>5 DEF CreateBuild, IngestInv, TasksDone, Tasks, Fresh
  <2>2. UNCHANGED <<snap, cursor, count, findings, seen>>
    BY <1>5 DEF CreateBuild
  <2>3. c # b /\ task'[c][v] = task[c][v]
    BY <1>0, <1>1, <1>5, <2>1, <2>2 DEF CreateBuild, IngestTypes
  <2> QED
    BY <1>3, <2>2, <2>3 DEF FindingsOf
<1>6. ASSUME NEW u \in Universities, NEW d \in Crawls[u], TakeSnapshot(b, u, d)
      PROVE  Counted(c, v)'
  <2>1. UNCHANGED <<task, cursor, count, findings, seen>> /\ snap' = [snap EXCEPT ![b][u] = d]
    BY <1>6 DEF TakeSnapshot
  <2>2. CASE <<c, v>> # <<b, u>>
    <3>1. snap'[c][v] = snap[c][v]
      BY <1>0, <2>1, <2>2 DEF IngestTypes
    <3> QED
      BY <1>3, <2>1, <3>1 DEF FindingsOf
  <2>3. CASE c = b /\ v = u
    <3>1. snap[b][u] = NoCrawl
      BY <1>6 DEF TakeSnapshot, At, Current, IngestInv, IngestJob, Unsnapped
    <3>2. /\ task[b][u] # "COMPLETED" /\ cursor[b][u] = 0 /\ count[b][u] = NoRows
          /\ FindingsOf(b, u) = {}
      BY <1>0, <3>1 DEF Fresh, FindingsOf
    <3>3. snap'[b][u] = d /\ d \in Crawl
      BY <1>0, <2>1 DEF IngestTypes
    <3>4. d.bad \subseteq Nat \ {0} /\ \A o \in d.rows : Key[o] \in Nat \ {0}
      BY <3>3, CrawlRows
    <3>5. \A k \in RowKeys(d) : k \in Nat \ {0}
      BY <3>3, CrawlRows
    <3>6. Before(b, u)' = {}
      BY <2>1, <3>2, <3>3, <3>5 DEF Before
    <3>7. FindingsOf(b, u)' = {}
      BY <2>1, <3>2 DEF FindingsOf
    <3>8. \A o \in d.rows : ~(Key[o] <= 0)
      BY <3>4
    <3>9. \A k \in d.bad : ~(k <= 0)
      BY <3>4
    <3>10. Cardinality({}) = 0 /\ \A S : {} \cap S = {}
      BY FS_EmptySet
    <3> QED
      BY <2>1, <2>3, <3>2, <3>3, <3>6, <3>7, <3>8, <3>9, <3>10 DEF Counted, NoRows
  <2> QED
    BY <2>2, <2>3
<1>7. ASSUME NEW u \in Universities, BeginSource(b, u)
      PROVE  Counted(c, v)'
  <2> DEFINE f == Found(b, u, "source_capability_missing", 0)
  <2>1. UNCHANGED <<snap, task, cursor, seen>>
    BY <1>7 DEF BeginSource
  <2>2. f \in Finding /\ f.build = b /\ f.univ = u
    BY DEF Found, Finding, Codes
  <2> HIDE DEF f
  <2>3. CASE UNCHANGED <<findings, count>>
    BY <1>3, <2>1, <2>3 DEF FindingsOf
  <2>4. CASE AddFinding(b, u, f) /\ <<c, v>> # <<b, u>>
    <3>1. findings' = findings \cup {f}
      BY <2>4 DEF AddFinding
    <3>2. FindingsOf(c, v)' = FindingsOf(c, v)
      BY <2>2, <2>4, <3>1 DEF FindingsOf
    <3>3. count'[c][v] = count[c][v]
      <4>1. f \in Finding
        BY <2>2
      <4>2. \A e \in Builds, w \in Universities : <<e, w>> # <<b, u>> => count'[e][w] = count[e][w]
        BY <1>0, <2>4, <4>1, AddFindingStep
      <4> QED
        BY <2>4, <4>2
    <3> QED
      BY <1>3, <2>1, <3>1, <3>2, <3>3
  <2>5. CASE AddFinding(b, u, f) /\ c = b /\ v = u
    <3>1. Counted(b, u) /\ (task'[b][u] = "COMPLETED" => RowsLeft(b, u) = {})
      BY <1>1, <1>2, <2>1, <2>5 DEF Counted
    <3> QED
      BY <2>1, <2>2, <2>5, <3>1, AddFindingCounted
  <2> QED
    BY <1>7, <2>3, <2>4, <2>5 DEF BeginSource, f
<1>8. ASSUME NEW u \in Universities, CommitRow(b, u)
      PROVE  Counted(c, v)'
  <2>1. CASE c = b /\ v = u
    BY <1>8, <2>1, CommitRowCounted
  <2>2. CASE <<c, v>> # <<b, u>>
    <3>1. UNCHANGED <<snap, task>>
      BY <1>8 DEF CommitRow
    <3>2. PICK k \in RowsLeft(b, u) :
            /\ cursor' = [cursor EXCEPT ![b][u] = k]
            /\ count'[c][v] = count[c][v]
            /\ \/ UNCHANGED findings
               \/ findings' = findings \cup {Found(b, u, "legacy_row_unimportable", k)}
      BY <1>0, <1>8, <2>2, CommitRowStep
    <3>3. cursor'[c][v] = cursor[c][v]
      BY <1>0, <2>2, <3>2 DEF IngestTypes
    <3>4. FindingsOf(c, v)' = FindingsOf(c, v)
      BY <2>2, <3>2 DEF FindingsOf, Found
    <3>5. \A o \in Observations : seen[o] # 0 => seen'[o] # 0
      BY <1>0, <1>8 DEF CommitRow, WriteObservation, RejectRow, IngestTypes
    <3> QED
      BY <1>3, <3>1, <3>2, <3>3, <3>4, <3>5
  <2> QED
    BY <2>1, <2>2
<1>9. ASSUME NEW u \in Universities, Finalize(b, u)
      PROVE  Counted(c, v)'
  <2> DEFINE f == Found(b, u, "source_deactivation_blocked", 0)
  <2>1. /\ UNCHANGED <<snap, cursor, seen>> /\ task' = [task EXCEPT ![b][u] = "COMPLETED"]
        /\ RowsLeft(b, u) = {}
    BY <1>9 DEF Finalize
  <2>2. f \in Finding /\ f.build = b /\ f.univ = u
    BY DEF Found, Finding, Codes
  <2> HIDE DEF f
  <2>3. <<c, v>> # <<b, u>> => task'[c][v] = task[c][v]
    BY <1>0, <2>1 DEF IngestTypes
  <2>4. CASE AddFinding(b, u, f) /\ <<c, v>> # <<b, u>>
    <3>1. findings' = findings \cup {f}
      BY <2>4 DEF AddFinding
    <3>2. FindingsOf(c, v)' = FindingsOf(c, v)
      BY <2>2, <2>4, <3>1 DEF FindingsOf
    <3>3. count'[c][v] = count[c][v]
      <4>1. f \in Finding
        BY <2>2
      <4>2. \A e \in Builds, w \in Universities : <<e, w>> # <<b, u>> => count'[e][w] = count[e][w]
        BY <1>0, <2>4, <4>1, AddFindingStep
      <4> QED
        BY <2>4, <4>2
    <3> QED
      BY <1>3, <2>1, <2>3, <2>4, <3>1, <3>2, <3>3
  <2>5. CASE AddFinding(b, u, f) /\ c = b /\ v = u
    <3>1. Counted(b, u)
      BY <1>1, <1>2, <2>1, <2>5
    <3> QED
      BY <2>1, <2>2, <2>5, <3>1, AddFindingCounted
  <2>6. CASE UNCHANGED <<findings, count>> /\ <<c, v>> # <<b, u>>
    BY <1>3, <2>1, <2>3, <2>6 DEF FindingsOf
  <2>7. CASE UNCHANGED <<findings, count>> /\ c = b /\ v = u
    <3>1. Counted(b, u)
      BY <1>1, <1>2, <2>1, <2>7
    <3>2. Before(b, u)' = Before(b, u) /\ RowsLeft(b, u)' = {} /\ FindingsOf(b, u)' = FindingsOf(b, u)
      BY <2>1, <2>7 DEF Before, RowsLeft, FindingsOf
    <3> QED
      BY <2>1, <2>7, <3>1, <3>2 DEF Counted, Found
  <2> QED
    BY <1>9, <2>4, <2>5, <2>6, <2>7 DEF Finalize, f
<1> QED
  BY <1>4, <1>5, <1>6, <1>7, <1>8, <1>9 DEF IngestStep

\* Stage 1 preserves its invariant.
LEMMA IngestStepInv ==
  ASSUME IngestInv, NEW b \in Builds, IngestStep(b)
  PROVE  IngestInv'
BY IngestTypesStep, IngestJobStep, FreshStep, SeenStep, CountStep DEF IngestInv

-----------------------------------------------------------------------------
(* Stage 2.                                                                *)

\* The rows each pass has still to stream.
LEMMA PendingRows ==
  ASSUME NEW b \in Builds, NEW u \in Universities
  PROVE  /\ job.pc = "identity" => Pending(b, u) = Unassigned(b, u)
         /\ job.pc = "fields" => Pending(b, u) = Unclaimed(b, u)
         /\ job.pc = "canonical" => Pending(b, u) = Unmaterialized(b, u)
BY DEF Pending

\* What a step of stage 2 leaves alone of stage 1.
LEMMA CurationFrame ==
  ASSUME CurationInv, NEW b \in Builds, CurationStep(b)
  PROVE  /\ UNCHANGED <<task, snap, cursor, count, eligible, seen, active, findings>>
         /\ \/ status' = status
            \/ \E s \in {"CURATING", "FAILED", "EMBEDDING"} :
                 status' = [status EXCEPT ![b] = s] /\ (s = "CURATING" => run[b] # "none")
         /\ job' = NoJob \/ job' = job \/ (job.build = b /\ \E pc \in Passes : job' = GotoFor(pc, {}))
<1> USE DEF ingestVars, curationVars
<1>1. UNCHANGED <<task, snap, cursor, count, eligible, seen, active, findings>>
  BY ZenonT(60) DEF
       CurationStep, Prepare, CurationFails, FailRun, DropStaleClaims, PassDone, CopyTombstones,
       Finish, AssignObservation, AssignRefused, ClaimFields, Materialize
<1>2. \/ status' = status
      \/ \E s \in {"CURATING", "FAILED", "EMBEDDING"} :
           status' = [status EXCEPT ![b] = s] /\ (s = "CURATING" => run[b] # "none")
  <2>1. CASE Prepare(b)
    BY <2>1 DEF Prepare
  <2>2. CASE CurationFails(b) \/ Finish(b)
    BY <2>2 DEF CurationFails, FailRun, Finish
  <2>3. ASSUME NEW u \in Universities, NEW o \in Observations, NEW e \in Entities,
               AssignRefused(b, u, o, e)
        PROVE  \E s \in {"CURATING", "FAILED", "EMBEDDING"} :
                 status' = [status EXCEPT ![b] = s] /\ (s = "CURATING" => run[b] # "none")
    BY <2>3 DEF AssignRefused, FailRun
  <2> QED
    BY ZenonT(60), <2>1, <2>2, <2>3 DEF CurationStep, DropStaleClaims, PassDone, CopyTombstones,
         AssignObservation, ClaimFields, Materialize
<1>3. job' = NoJob \/ job' = job \/ (job.build = b /\ \E pc \in Passes : job' = GotoFor(pc, {}))
  <2>1. CASE Prepare(b)
    BY <2>1 DEF Prepare, At, Passes
  <2>2. CASE PassDone(b)
    <3>1. After(job.pc) \in Passes
      BY DEF After, Passes
    <3> QED
      BY <2>2, <3>1 DEF PassDone
  <2>3. CASE DropStaleClaims(b) \/ CopyTombstones(b)
    BY <2>3 DEF DropStaleClaims, CopyTombstones, At, Passes
  <2> QED
    BY ZenonT(60), <2>1, <2>2, <2>3 DEF
         CurationStep, CurationFails, FailRun, Finish, AssignObservation, AssignRefused,
         ClaimFields, Materialize
<1> QED
  BY <1>1, <1>2, <1>3

\* Stage 2 and what people do preserve the invariant of stage 1.
LEMMA IngestKept ==
  ASSUME CurationInv,
         UNCHANGED <<task, snap, cursor, count, seen, active, findings>>,
         \/ status' = status
         \/ \E b \in Builds, s \in {"CURATING", "FAILED", "EMBEDDING"} :
              status' = [status EXCEPT ![b] = s] /\ (s = "CURATING" => run[b] # "none"),
         \/ job' = NoJob \/ job' = job
         \/ job.build # 0 /\ \E pc \in Passes : job' = GotoFor(pc, {})
  PROVE  IngestInv'
<1>1. IngestInv
  BY DEF CurationInv
<1>2. job' \in Jobs
  <2>1. Passes \subseteq Places /\ {} \in SUBSET Universities
    BY DEF Places
  <2>2. ASSUME NEW pc \in Passes, job.build # 0
        PROVE  NoJob \in Jobs /\ GotoFor(pc, {}) \in Jobs
    BY <1>1, <2>1, <2>2, JobTypes DEF IngestInv, IngestTypes, Jobs
  <2>3. NoJob \in Jobs
    BY DEF NoJob, Jobs, Places
  <2> QED
    BY <1>1, <2>2, <2>3 DEF IngestInv, IngestTypes
<1>3. IngestTypes'
  BY <1>1, <1>2 DEF IngestInv, IngestTypes
<1>4. IngestJob'
  <2>1. CASE job' = NoJob
    BY <2>1 DEF NoJob, IngestJob
  <2>2. CASE job' = job
    BY <1>1, <2>2 DEF IngestInv, IngestJob, Unsnapped, Tasks, Open
  <2>3. ASSUME NEW pc \in Passes, job.build # 0, job' = GotoFor(pc, {})
        PROVE  IngestJob'
    <3>1. job'.pc = pc /\ job'.build = job.build
      BY <1>1, <2>3 DEF GotoFor, IngestInv, IngestTypes, Jobs
    <3>2. pc \notin {"idle", "snapshot", "source", "rows"}
      BY DEF Passes
    <3> QED
      BY <2>3, <3>1, <3>2 DEF IngestJob
  <2> QED
    BY <2>1, <2>2, <2>3
<1>5. TasksDone'
  BY <1>1 DEF CurationInv, RunsBegun, IngestInv, IngestTypes, TasksDone, Unsnapped, Tasks, Open
<1>6. Fresh'
  BY <1>1 DEF IngestInv, Fresh, NoRows
<1>7. SeenInSnapshot'
  BY <1>1 DEF IngestInv, SeenInSnapshot
<1>8. RowsCountedOnce'
  <2>1. SUFFICES ASSUME NEW c \in Builds, NEW v \in Universities, snap'[c][v] # NoCrawl
                 PROVE  Counted(c, v)'
    BY DEF RowsCountedOnce, Counted, FindingsOf
  <2>2. Counted(c, v) /\ snap[c][v] \in Crawl
    BY <1>1, <2>1, CountedTasks, CrawlsAssumption DEF IngestInv, IngestTypes
  <2>3. FindingsOf(c, v)' = FindingsOf(c, v)
    BY DEF FindingsOf
  <2> QED
    BY <2>2, <2>3, CountedFrame
<1> QED
  BY <1>3, <1>4, <1>5, <1>6, <1>7, <1>8 DEF IngestInv

\* What each step of stage 2 writes has its type.
LEMMA CurationTypesStep ==
  ASSUME CurationInv, NEW b \in Builds, CurationStep(b)
  PROVE  CurationTypes'
<1> USE IngestAssumption, CurationAssumption DEF ingestVars, curationVars
<1>0. CurationTypes
  BY DEF CurationInv
<1>1. CASE Prepare(b)
  <2>1. run' \in {run, [run EXCEPT ![b] = "RUNNING"]} /\ frozen' \in {frozen, [frozen EXCEPT ![b] = version]}
    BY <1>1 DEF Prepare
  <2>2. /\ run' \in [Builds -> {"none", "RUNNING", "COMPLETED", "FAILED"}]
        /\ frozen' \in [Builds -> Nat] /\ \A c \in Builds : frozen'[c] <= version
    BY <1>0, <2>1 DEF CurationTypes
  <2> QED
    BY <1>0, <1>1, <2>2 DEF Prepare, CurationTypes
<1>2. CASE \/ CurationFails(b) \/ Finish(b)
           \/ \E u \in Universities, o \in Observations, e \in Entities : AssignRefused(b, u, o, e)
  <2>1. /\ \E s \in {"FAILED", "COMPLETED"} : run' = [run EXCEPT ![b] = s]
        /\ UNCHANGED <<frozen, version, ent, root, assign, historic, held, live, claimed, canon, at>>
    BY <1>2 DEF CurationFails, AssignRefused, FailRun, Finish
  <2> QED
    BY <1>0, <2>1 DEF CurationTypes
<1>3. CASE DropStaleClaims(b) \/ PassDone(b)
  <2>1. /\ live' \subseteq live
        /\ UNCHANGED <<run, frozen, version, ent, root, assign, historic, held, claimed, canon, at>>
    BY <1>3 DEF DropStaleClaims, PassDone
  <2> QED
    BY <1>0, <2>1 DEF CurationTypes
<1>4. CASE CopyTombstones(b)
  <2>1. UNCHANGED <<run, frozen, version, root, assign, historic, held, live, claimed, at>>
    BY <1>4 DEF CopyTombstones
  <2>2. ent' \in [Entities -> {"none", "active", "review", "inactive", "merged"}]
    BY <1>0, <1>4 DEF CopyTombstones, CurationTypes
  <2>3. canon' \in [Builds -> [Entities -> [state : {"none", "active", "tombstone"},
                                            from : SUBSET Observations]]]
    BY <1>0, <1>4 DEF CopyTombstones, CurationTypes
  <2> QED
    BY <1>0, <2>1, <2>2, <2>3 DEF CurationTypes
<1>5. ASSUME NEW u \in Universities, NEW o \in Observations, NEW e \in Entities,
             AssignObservation(b, u, o, e)
      PROVE  CurationTypes'
  <2>1. UNCHANGED <<run, frozen, version, root, claimed, canon>> /\ o \in Nat
    BY <1>5 DEF AssignObservation
  <2>2. at' \in [Builds -> [Sinks -> [Universities -> Nat]]]
    BY <1>0, <1>5, <2>1 DEF AssignObservation, CurationTypes, Sinks
  <2>3. CASE UNCHANGED <<assign, historic, ent, held, live>>
    BY <1>0, <2>1, <2>2, <2>3 DEF CurationTypes
  <2>4. CASE /\ assign' = [assign EXCEPT ![b][o] = e] /\ historic' = [historic EXCEPT ![o] = e]
             /\ ent' = [ent EXCEPT ![e] = StatusAfter(e, o)] /\ WriteClaims(e, o)
    <3>1. assign' \in [Builds -> [Observations -> Entities \cup {0}]]
      BY <1>0, <2>4 DEF CurationTypes
    <3>2. historic' \in [Observations -> Entities \cup {0}]
      BY <1>0, <2>4 DEF CurationTypes
    <3>3. ent' \in [Entities -> {"none", "active", "review", "inactive", "merged"}]
      <4>1. StatusAfter(e, o) \in {"none", "active", "review", "inactive", "merged"}
        BY <1>0 DEF StatusAfter, NewStatus, CurationTypes
      <4> QED
        BY <1>0, <2>4, <4>1 DEF CurationTypes
    <3>4. \A c \in Claims[o] : Row(e, c, o) \in ClaimRow
      <4>1. Claims[o] \subseteq Claim
        OBVIOUS
      <4> QED
        BY <4>1 DEF Row, ClaimRow
    <3>5. held' \subseteq ClaimRow /\ live' \subseteq ClaimRow
      BY <1>0, <2>4, <3>4 DEF WriteClaims, CurationTypes
    <3> QED
      BY <1>0, <2>1, <2>2, <3>1, <3>2, <3>3, <3>5 DEF CurationTypes
  <2> QED
    BY <1>5, <2>3, <2>4 DEF AssignObservation
<1>6. ASSUME NEW u \in Universities, NEW o \in Observations, ClaimFields(b, u, o)
      PROVE  CurationTypes'
  <2>1. UNCHANGED <<run, frozen, version, ent, root, assign, historic, held, live, canon>> /\ o \in Nat
    BY <1>6 DEF ClaimFields
  <2>2. at' \in [Builds -> [Sinks -> [Universities -> Nat]]]
    BY <1>0, <1>6, <2>1 DEF ClaimFields, CurationTypes, Sinks
  <2>3. assign[b][o] # 0
    BY <1>6, PendingRows DEF ClaimFields, At, Streams, Unclaimed
  <2>4. root[assign[b][o]] \in Entities
    <3>1. assign[b][o] \in Entities
      BY <1>0, <2>3 DEF CurationTypes
    <3> QED
      BY <1>0, <3>1 DEF CurationTypes
  <2>5. claimed' \in [Builds -> [Observations -> Entities \cup {0}]]
    BY <1>0, <1>6, <2>4 DEF ClaimFields, CurationTypes
  <2> QED
    BY <1>0, <2>1, <2>2, <2>5 DEF CurationTypes
<1>7. ASSUME NEW u \in Universities, NEW e \in Entities, Materialize(b, u, e)
      PROVE  CurationTypes'
  <2>1. UNCHANGED <<run, frozen, version, ent, root, assign, historic, held, live, claimed>> /\ e \in Nat
    BY <1>7 DEF Materialize
  <2>2. at' \in [Builds -> [Sinks -> [Universities -> Nat]]]
    BY <1>0, <1>7, <2>1 DEF Materialize, CurationTypes, Sinks
  <2>3. Sources(b, root[e]) \subseteq Observations /\ root[e] \in Entities
    BY <1>0 DEF Sources, CurationTypes
  <2>4. canon' \in [Builds -> [Entities -> [state : {"none", "active", "tombstone"},
                                            from : SUBSET Observations]]]
    BY <1>0, <1>7, <2>3 DEF Materialize, CurationTypes
  <2> QED
    BY <1>0, <2>1, <2>2, <2>4 DEF CurationTypes
<1> QED
  BY <1>1, <1>2, <1>3, <1>4, <1>5, <1>6, <1>7 DEF CurationStep

\* The entity an observation is assigned to is not merged.
LEMMA MatchRoots ==
  ASSUME CurationTypes, Roots, NEW o \in Observations, NEW e \in Entities,
         IF Match(o) = {} THEN ent[e] = "none" ELSE e \in Match(o)
  PROVE  root[e] = e
<1>1. CASE Match(o) = {}
  BY <1>1 DEF Roots
<1>2. CASE Match(o) # {}
  <2>1. e \in Match(o)
    BY <1>2
  <2>2. \A r \in live : root[r.ent] \in Entities /\ root[root[r.ent]] = root[r.ent]
    BY DEF CurationTypes, ClaimRow, Roots
  <2>3. CASE historic[o] # 0
    BY <2>1, <2>3 DEF Match, CurationTypes, Roots
  <2>4. CASE historic[o] = 0
    <3>1. e \in strong_targets(o) \cup weak_targets(o)
      BY <2>1, <2>4 DEF Match
    <3> QED
      BY <2>2, <3>1 DEF strong_targets, weak_targets, Kept
  <2> QED
    BY <2>3, <2>4
<1> QED
  BY <1>1, <1>2

\* No step of stage 2 merges an entity.
LEMMA RootsStep ==
  ASSUME CurationInv, NEW b \in Builds, CurationStep(b)
  PROVE  Roots'
<1> USE DEF ingestVars, curationVars
<1>0. CurationTypes /\ Roots
  BY DEF CurationInv
<1>1. UNCHANGED root
  BY ZenonT(60) DEF
       CurationStep, Prepare, CurationFails, FailRun, DropStaleClaims, PassDone, CopyTombstones,
       Finish, AssignObservation, AssignRefused, ClaimFields, Materialize
<1>2. \A e \in Entities : ent'[e] = "merged" <=> ent[e] = "merged"
  <2>1. CASE UNCHANGED ent
    BY <2>1
  <2>2. CASE CopyTombstones(b)
    BY <1>0, <2>2 DEF CopyTombstones, CurationTypes
  <2>3. ASSUME NEW u \in Universities, NEW o \in Observations, NEW e \in Entities,
               AssignObservation(b, u, o, e), ~UNCHANGED ent
        PROVE  \A f \in Entities : ent'[f] = "merged" <=> ent[f] = "merged"
    <3>1. /\ IF Match(o) = {} THEN ent[e] = "none" ELSE e \in Match(o)
          /\ ent' = [ent EXCEPT ![e] = StatusAfter(e, o)]
      BY <2>3 DEF AssignObservation
    <3>2. ent[e] # "merged"
      BY <1>0, <3>1, MatchRoots DEF Roots
    <3>3. StatusAfter(e, o) # "merged"
      BY <3>2 DEF StatusAfter, NewStatus
    <3> QED
      BY <1>0, <3>1, <3>2, <3>3 DEF CurationTypes
  <2> QED
    BY <2>1, <2>2, <2>3 DEF CurationStep, Prepare, CurationFails, FailRun, DropStaleClaims,
         PassDone, Finish, AssignRefused, ClaimFields, Materialize
<1> QED
  BY <1>0, <1>1, <1>2 DEF Roots

\* The process in a pass works for a run that has begun.
LEMMA InPass ==
  ASSUME CurationInv, NEW b \in Builds, job.build = b, job.pc \in Passes
  PROVE  /\ run[b] = "RUNNING" /\ frozen[b] = version
         /\ Open(b) = {} /\ Unsnapped(b) = {} /\ status[b] # "none"
BY DEF CurationInv, CurationJob, RunsBegun

\* Only the first command creates a run, when no task is open.
LEMMA RunsBegunStep ==
  ASSUME CurationInv, NEW b \in Builds, CurationStep(b)
  PROVE  RunsBegun'
<1> USE IngestAssumption, CurationAssumption DEF ingestVars, curationVars
<1>0. CurationTypes /\ RunsBegun /\ IngestTypes /\ TasksDone
  BY DEF CurationInv, IngestInv
<1>1. \A c \in Builds : /\ Open(c)' = Open(c) /\ Unsnapped(c)' = Unsnapped(c)
                        /\ status[c] # "none" => status'[c] # "none"
  BY <1>0, CurationFrame DEF Open, Unsnapped, Tasks, IngestTypes
<1>2. CASE Prepare(b)
  <2>1. run' = run \/ /\ run' = [run EXCEPT ![b] = "RUNNING"]
                      /\ run[b] = "none" => status[b] = "CURATING"
    BY <1>2 DEF Prepare
  <2>2. run'[b] = "none" \/ run' = run \/ (Open(b) = {} /\ Unsnapped(b) = {} /\ status[b] # "none")
    BY <1>0, <2>1 DEF CurationTypes, RunsBegun, TasksDone
  <2>3. UNCHANGED <<assign, claimed, canon, at>> /\ \A c \in Builds \ {b} : run'[c] = run[c]
    BY <1>0, <1>2, <2>1 DEF Prepare, CurationTypes
  <2>4. run'[b] = "none" => run[b] = "none"
    BY <1>0, <2>1 DEF CurationTypes
  <2> QED
    BY <1>0, <1>1, <2>2, <2>3, <2>4 DEF RunsBegun, NoRow
<1>3. CASE \/ CurationFails(b) \/ Finish(b)
           \/ \E u \in Universities, o \in Observations, e \in Entities : AssignRefused(b, u, o, e)
  <2>1. /\ \E s \in {"FAILED", "COMPLETED"} : run' = [run EXCEPT ![b] = s]
        /\ UNCHANGED <<assign, claimed, canon, at>>
    BY <1>3 DEF CurationFails, AssignRefused, FailRun, Finish
  <2>2. job.build = b /\ job.pc \in Passes
    BY <1>3 DEF CurationFails, AssignRefused, Finish, At, Passes
  <2>3. Open(b) = {} /\ Unsnapped(b) = {} /\ status[b] # "none"
    BY <2>2, InPass
  <2> QED
    BY <1>0, <1>1, <2>1, <2>3 DEF CurationTypes, RunsBegun, NoRow
<1>4. CASE \/ DropStaleClaims(b) \/ PassDone(b) \/ CopyTombstones(b)
           \/ \E u \in Universities :
                \/ \E o \in Observations, e \in Entities : AssignObservation(b, u, o, e)
                \/ \E o \in Observations : ClaimFields(b, u, o)
                \/ \E e \in Entities : Materialize(b, u, e)
  <2>1. job.build = b /\ job.pc \in Passes /\ UNCHANGED run
    BY <1>4 DEF DropStaleClaims, PassDone, CopyTombstones, AssignObservation, ClaimFields,
                Materialize, At, Passes, Sinks
  <2>2. run[b] # "none"
    BY <2>1, InPass
  <2>3. \A c \in Builds \ {b} : /\ assign'[c] = assign[c] /\ claimed'[c] = claimed[c]
                                /\ canon'[c] = canon[c] /\ at'[c] = at[c]
    <3>1. CASE DropStaleClaims(b) \/ PassDone(b)
      BY <3>1 DEF DropStaleClaims, PassDone
    <3>2. CASE CopyTombstones(b)
      BY <1>0, <3>2 DEF CopyTombstones, CurationTypes
    <3>3. ASSUME NEW u \in Universities, NEW o \in Observations, NEW e \in Entities,
                 AssignObservation(b, u, o, e)
          PROVE  \A c \in Builds \ {b} : /\ assign'[c] = assign[c] /\ claimed'[c] = claimed[c]
                                         /\ canon'[c] = canon[c] /\ at'[c] = at[c]
      <4>1. UNCHANGED <<claimed, canon>> /\ at' = [at EXCEPT ![b]["identity"][u] = o]
        BY <3>3 DEF AssignObservation
      <4>2. assign' = assign \/ assign' = [assign EXCEPT ![b][o] = e]
        BY <3>3 DEF AssignObservation
      <4> QED
        BY <1>0, <4>1, <4>2 DEF CurationTypes
    <3>4. CASE \E u \in Universities, o \in Observations : ClaimFields(b, u, o)
      BY <1>0, <3>4 DEF ClaimFields, CurationTypes
    <3>5. CASE \E u \in Universities, e \in Entities : Materialize(b, u, e)
      BY <1>0, <3>5 DEF Materialize, CurationTypes
    <3> QED
      BY <1>4, <3>1, <3>2, <3>3, <3>4, <3>5
  <2>4. SUFFICES ASSUME NEW c \in Builds
                 PROVE  IF run'[c] = "none"
                        THEN /\ \A o \in Observations : assign'[c][o] = 0 /\ claimed'[c][o] = 0
                             /\ \A e \in Entities : canon'[c][e] = NoRow
                             /\ \A s \in Sinks, u \in Universities : at'[c][s][u] = 0
                        ELSE Open(c)' = {} /\ Unsnapped(c)' = {} /\ status'[c] # "none"
    BY DEF RunsBegun, NoRow
  <2>5. CASE c = b
    BY <1>0, <1>1, <2>1, <2>2, <2>5 DEF RunsBegun
  <2>6. CASE c # b
    BY <1>0, <1>1, <2>1, <2>3, <2>6 DEF RunsBegun
  <2> QED
    BY <2>5, <2>6
<1> QED
  BY <1>2, <1>3, <1>4 DEF CurationStep

\* The rows of the build at work are of its own entities; nothing else is written.
LEMMA UnmergedStep ==
  ASSUME CurationInv, NEW b \in Builds, CurationStep(b)
  PROVE  Unmerged'
<1>7. UNCHANGED <<frozen, version, root, assign, claimed, canon>> => Unmerged'
  BY DEF CurationInv, Unmerged
<1> USE IngestAssumption, CurationAssumption DEF ingestVars, curationVars
<1>0. CurationTypes /\ Roots /\ RunsBegun /\ Unmerged
  BY DEF CurationInv
<1>1. CASE Prepare(b)
  <2>1. UNCHANGED <<version, root, assign, claimed, canon>>
    BY <1>1 DEF Prepare
  <2>2. frozen' = frozen \/ (run[b] = "none" /\ frozen' = [frozen EXCEPT ![b] = version])
    BY <1>1 DEF Prepare
  <2>3. run[b] = "none" => /\ \A o \in Observations : assign[b][o] = 0 /\ claimed[b][o] = 0
                           /\ \A e \in Entities : canon[b][e].state # "active"
    BY <1>0 DEF RunsBegun, NoRow
  <2> QED
    BY <1>0, <2>1, <2>2, <2>3 DEF CurationTypes, Unmerged
<1>2. CASE \/ CurationFails(b) \/ Finish(b) \/ DropStaleClaims(b) \/ PassDone(b)
           \/ \E u \in Universities, o \in Observations, e \in Entities : AssignRefused(b, u, o, e)
  <2>1. UNCHANGED <<frozen, version, root, assign, claimed, canon>>
    BY <1>2 DEF CurationFails, AssignRefused, FailRun, Finish, DropStaleClaims, PassDone
  <2> QED
    BY <1>7, <2>1
<1>3. CASE CopyTombstones(b)
  <2>1. UNCHANGED <<frozen, version, root, assign, claimed>>
    BY <1>3 DEF CopyTombstones
  <2>2. \A c \in Builds, e \in Entities :
          canon'[c][e].state = "active" => canon[c][e].state = "active"
    BY <1>0, <1>3 DEF CopyTombstones, CurationTypes
  <2> QED
    BY <1>0, <2>1, <2>2 DEF Unmerged
<1>4. ASSUME NEW u \in Universities, NEW o \in Observations, NEW e \in Entities,
             AssignObservation(b, u, o, e)
      PROVE  Unmerged'
  <2>1. UNCHANGED <<frozen, version, root, claimed, canon>>
    BY <1>4 DEF AssignObservation
  <2>2. CASE UNCHANGED assign
    BY <1>0, <2>1, <2>2 DEF Unmerged
  <2>3. CASE /\ assign[b][o] = 0 /\ assign' = [assign EXCEPT ![b][o] = e]
             /\ IF Match(o) = {} THEN ent[e] = "none" ELSE e \in Match(o)
    <3>1. root[e] = e
      BY <1>0, <2>3, MatchRoots
    <3>2. /\ assign'[b][o] = e
          /\ \A c \in Builds, p \in Observations :
               <<c, p>> # <<b, o>> => assign'[c][p] = assign[c][p]
      BY <1>0, <2>3 DEF CurationTypes
    <3>3. \A c \in Builds, p \in Observations : frozen[c] = version /\ assign'[c][p] # 0 =>
            root[assign'[c][p]] = assign'[c][p]
      <4> SUFFICES ASSUME NEW c \in Builds, NEW p \in Observations, frozen[c] = version,
                          assign'[c][p] # 0
                   PROVE  root[assign'[c][p]] = assign'[c][p]
        OBVIOUS
      <4>1. CASE c = b /\ p = o
        BY <3>1, <3>2, <4>1
      <4>2. CASE <<c, p>> # <<b, o>>
        BY <1>0, <3>2, <4>2 DEF Unmerged
      <4> QED
        BY <4>1, <4>2
    <3>4. \A c \in Builds, p \in Observations :
            assign[c][p] # 0 => assign'[c][p] = assign[c][p]
      BY <2>3, <3>2
    <3>5. \A c \in Builds, p \in Observations : frozen[c] = version /\ claimed[c][p] # 0 =>
            claimed[c][p] = assign'[c][p]
      BY <1>0, <3>4 DEF Unmerged
    <3>6. \A c \in Builds, f \in Entities : frozen[c] = version /\ canon[c][f].state = "active" =>
            \E p \in Observations : assign'[c][p] = f
      <4> SUFFICES ASSUME NEW c \in Builds, NEW f \in Entities, frozen[c] = version,
                          canon[c][f].state = "active"
                   PROVE  \E p \in Observations : assign'[c][p] = f
        OBVIOUS
      <4>1. PICK p \in Observations : assign[c][p] = f
        BY <1>0 DEF Unmerged
      <4>2. f # 0
        OBVIOUS
      <4> QED
        BY <3>4, <4>1, <4>2
    <3> QED
      BY <2>1, <3>3, <3>5, <3>6 DEF Unmerged
  <2> QED
    BY <1>4, <2>2, <2>3 DEF AssignObservation
<1>5. ASSUME NEW u \in Universities, NEW o \in Observations, ClaimFields(b, u, o)
      PROVE  Unmerged'
  <2>1. /\ UNCHANGED <<frozen, version, root, assign, canon>>
        /\ claimed' = [claimed EXCEPT ![b][o] = root[assign[b][o]]]
    BY <1>5 DEF ClaimFields
  <2>2. assign[b][o] # 0 /\ frozen[b] = version
    BY <1>5, PendingRows, InPass DEF ClaimFields, At, Streams, Unclaimed, Passes
  <2>3. root[assign[b][o]] = assign[b][o]
    BY <1>0, <2>2 DEF Unmerged
  <2> QED
    BY <1>0, <2>1, <2>2, <2>3 DEF CurationTypes, Unmerged
<1>6. ASSUME NEW u \in Universities, NEW e \in Entities, Materialize(b, u, e)
      PROVE  Unmerged'
  <2>1. /\ UNCHANGED <<frozen, version, root, assign, claimed>>
        /\ canon' = [canon EXCEPT ![b][root[e]] =
                       [state |-> "active", from |-> Sources(b, root[e])]]
    BY <1>6 DEF Materialize
  <2>2. frozen[b] = version
    BY <1>6, InPass DEF Materialize, At, Passes
  <2>3. PICK p \in Observations : assign[b][p] = e
    BY <1>6, PendingRows DEF Materialize, At, Streams, Unmaterialized
  <2>4. root[e] = e
    BY <1>0, <2>2, <2>3 DEF Unmerged
  <2>5. \A c \in Builds, f \in Entities :
          canon'[c][f].state = "active" => canon[c][f].state = "active" \/ (c = b /\ f = e)
    BY <1>0, <2>1, <2>4 DEF CurationTypes
  <2> QED
    BY <1>0, <2>1, <2>3, <2>5 DEF Unmerged
<1> QED
  BY <1>1, <1>2, <1>3, <1>4, <1>5, <1>6 DEF CurationStep

\* A run is not taken back, and a completed one stays.
LEMMA RunKept ==
  ASSUME CurationInv, NEW b \in Builds, CurationStep(b), NEW c \in Builds
  PROVE  /\ run[c] # "none" => run'[c] # "none"
         /\ run[c] = "COMPLETED" => run'[c] = "COMPLETED"
         /\ run'[c] \in {"none", "COMPLETED"} \cup Going
<1>0. CurationTypes
  BY DEF CurationInv
<1>1. CASE Prepare(b)
  <2>1. run' = run \/ (run[b] # "COMPLETED" /\ run' = [run EXCEPT ![b] = "RUNNING"])
    BY <1>1 DEF Prepare
  <2> QED
    BY <1>0, <2>1 DEF CurationTypes, Going
<1>2. CASE \/ CurationFails(b) \/ Finish(b)
           \/ \E u \in Universities, o \in Observations, e \in Entities : AssignRefused(b, u, o, e)
  <2>1. \E s \in {"FAILED", "COMPLETED"} : run' = [run EXCEPT ![b] = s]
    BY <1>2 DEF CurationFails, AssignRefused, FailRun, Finish
  <2>2. job.build = b /\ job.pc \in Passes
    BY <1>2 DEF CurationFails, AssignRefused, Finish, At, Passes
  <2>3. run[b] = "RUNNING"
    BY <2>2, InPass
  <2> QED
    BY <1>0, <2>1, <2>3 DEF CurationTypes, Going
<1>3. CASE UNCHANGED run
  BY <1>0, <1>3 DEF CurationTypes, Going
<1> QED
  BY <1>1, <1>2, <1>3 DEF CurationStep, DropStaleClaims, PassDone, CopyTombstones,
       AssignObservation, ClaimFields, Materialize, curationVars

\* A step of stage 2 adds nothing to what a run must not leave out.
LEMMA MineStep ==
  ASSUME CurationInv, Assigned, Remember, NEW b \in Builds, CurationStep(b), NEW c \in Builds
  PROVE  Mine(c)' \subseteq Mine(c)
<1>1. UNCHANGED <<active, task>>
  BY CurationFrame
<1>2. /\ run[c] # "none" => run'[c] # "none"
      /\ run[c] = "COMPLETED" => run'[c] = "COMPLETED"
      /\ run'[c] \in {"none", "COMPLETED"} \cup Going
  BY RunKept
<1>3. run'[c] # "COMPLETED" => late[c] \subseteq late'[c]
  <2>1. CASE run'[c] \in Going
    BY <2>1 DEF Remember, Going
  <2>2. CASE run'[c] = "none"
    BY <1>2, <2>2 DEF Assigned, Going
  <2> QED
    BY <1>2, <2>1, <2>2
<1> QED
  BY <1>1, <1>2, <1>3 DEF Mine, Tasks

\* No pass moves its checkpoint past a row it has not handled.
LEMMA PassedStep ==
  ASSUME CurationInv, Assigned, Remember, NEW b \in Builds, CurationStep(b)
  PROVE  Passed'
<1>1. UNCHANGED <<active, seen>> /\ \A c \in Builds : Mine(c)' \subseteq Mine(c)
  BY CurationFrame, MineStep
<1>2. UNCHANGED <<assign, claimed, canon, at, ent>> => Passed'
  BY <1>1 DEF CurationInv, Passed
<1> USE IngestAssumption, CurationAssumption DEF ingestVars, curationVars
<1>3. CurationTypes /\ Unmerged /\ Passed /\ \A c \in Builds : Mine(c) \subseteq Observations
  BY DEF CurationInv, IngestInv, IngestTypes, Mine
<1>31. \A c \in Builds, o \in Observations : assign[c][o] # 0 => assign[c][o] \in Entities
  BY <1>3 DEF CurationTypes
<1>32. \A c \in Builds, u \in Universities :
         /\ at[c]["identity"][u] \in Nat /\ at[c]["fields"][u] \in Nat
         /\ at[c]["canonical"][u] \in Nat
  BY <1>3 DEF CurationTypes, Sinks
<1>33. \A e \in Entities : root[e] \in Entities
  BY <1>3 DEF CurationTypes
<1>4. CASE \/ Prepare(b) \/ CurationFails(b) \/ Finish(b) \/ DropStaleClaims(b) \/ PassDone(b)
           \/ \E u \in Universities, o \in Observations, e \in Entities : AssignRefused(b, u, o, e)
  <2>1. UNCHANGED <<assign, claimed, canon, at, ent>>
    BY <1>4 DEF Prepare, CurationFails, AssignRefused, FailRun, Finish, DropStaleClaims, PassDone
  <2> QED
    BY <1>2, <2>1
<1>5. CASE CopyTombstones(b)
  <2>1. UNCHANGED <<assign, claimed, at>>
    BY <1>5 DEF CopyTombstones
  <2>2. \A e \in Entities : ent[e] # "none" => ent'[e] # "none"
    BY <1>3, <1>5 DEF CopyTombstones, CurationTypes
  <2>3. \A c \in Builds, e \in Entities :
          canon[c][e].state = "active" => canon'[c][e] = canon[c][e]
    BY <1>3, <1>5 DEF CopyTombstones, CurationTypes
  <2>5. ASSUME NEW c \in Builds, NEW o \in Mine(c),
               assign[c][o] # 0, assign[c][o] <= at[c]["canonical"][Home[o]]
        PROVE  /\ canon'[c][assign[c][o]].state = "active"
               /\ o \in canon'[c][assign[c][o]].from
    <3>1. canon[c][assign[c][o]].state = "active" /\ o \in canon[c][assign[c][o]].from
      BY <1>3, <2>5 DEF Passed
    <3>2. assign[c][o] \in Entities
      BY <1>3, <1>31, <2>5
    <3>3. canon'[c][assign[c][o]] = canon[c][assign[c][o]]
      BY <2>3, <3>1, <3>2
    <3> QED
      BY <3>1, <3>3
  <2>6. \A c \in Builds, o \in Observations : assign[c][o] # 0 => ent'[assign[c][o]] # "none"
    BY <1>3, <1>31, <2>2 DEF Passed
  <2> QED
    BY ZenonT(60), <1>1, <1>3, <2>1, <2>5, <2>6 DEF Passed
<1>6. ASSUME NEW u \in Universities, NEW o \in Observations, NEW e \in Entities,
             AssignObservation(b, u, o, e)
      PROVE  Passed'
  <2>1. UNCHANGED <<claimed, canon>> /\ at' = [at EXCEPT ![b]["identity"][u] = o]
    BY <1>6 DEF AssignObservation
  <2>2. /\ o \in active /\ Home[o] = u /\ o > at[b]["identity"][u]
        /\ \A p \in active : Home[p] = u /\ p > at[b]["identity"][u] => o <= p
    BY <1>6, PendingRows DEF AssignObservation, At, Streams, Unassigned
  <2>3. /\ at'[b]["identity"][u] = o
        /\ \A c \in Builds, v \in Universities :
             <<c, v>> # <<b, u>> => at'[c]["identity"][v] = at[c]["identity"][v]
        /\ \A c \in Builds, v \in Universities :
             at'[c]["fields"][v] = at[c]["fields"][v] /\ at'[c]["canonical"][v] = at[c]["canonical"][v]
    BY <1>3, <2>1 DEF CurationTypes, Sinks
  <2>4. assign[b][o] = 0
    BY <1>3, <2>2 DEF Passed, CurationTypes, Sinks
  <2>5. /\ assign' = [assign EXCEPT ![b][o] = e]
        /\ ent' = [ent EXCEPT ![e] = StatusAfter(e, o)]
    BY <1>6, <2>4 DEF AssignObservation
  <2>6. /\ assign'[b][o] = e
        /\ \A c \in Builds, p \in Observations :
             <<c, p>> # <<b, o>> => assign'[c][p] = assign[c][p]
    BY <1>3, <2>5 DEF CurationTypes
  <2>7. ent'[e] # "none" /\ \A f \in Entities : ent[f] # "none" => ent'[f] # "none"
    BY <1>3, <2>5 DEF StatusAfter, NewStatus, CurationTypes
  <2>8. \A c \in Builds, v \in Universities : at[c]["identity"][v] <= at'[c]["identity"][v]
    <3>1. \A c \in Builds, v \in Universities : at[c]["identity"][v] \in Nat
      BY <1>3 DEF CurationTypes, Sinks
    <3>2. o > at[b]["identity"][u] /\ o \in Nat
      BY <2>2
    <3>3. at'[b]["identity"][u] = o
      BY <2>3
    <3>4. ASSUME NEW c \in Builds, NEW v \in Universities, c # b \/ v # u
          PROVE  at'[c]["identity"][v] = at[c]["identity"][v]
      <4>1. <<c, v>> # <<b, u>>
        BY <3>4
      <4> QED
        BY <2>3, <4>1
    <3>5. at[b]["identity"][u] <= at'[b]["identity"][u]
      <4>1. at[b]["identity"][u] \in Nat /\ o \in Nat /\ o > at[b]["identity"][u]
        BY ZenonT(60), <3>1, <3>2
      <4>2. at[b]["identity"][u] <= o
        BY <4>1
      <4> QED
        BY ZenonT(60), <3>3, <4>2
    <3>6. ASSUME NEW c \in Builds, NEW v \in Universities, c # b \/ v # u
          PROVE  at[c]["identity"][v] <= at'[c]["identity"][v]
      <4>1. at[c]["identity"][v] \in Nat
        BY ZenonT(60), <3>1
      <4>2. at[c]["identity"][v] <= at[c]["identity"][v]
        BY <4>1
      <4> QED
        BY ZenonT(60), <3>4, <3>6, <4>2
    <3> QED
      BY ZenonT(60), <3>5, <3>6
  <2>9. \A c \in Builds, p \in Observations :
          assign[c][p] # 0 => assign'[c][p] = assign[c][p] /\ assign[c][p] \in Entities
    <3>1. ASSUME NEW c \in Builds, NEW p \in Observations, assign[c][p] # 0
          PROVE  assign'[c][p] = assign[c][p]
      <4>1. <<c, p>> # <<b, o>>
        BY <2>4, <3>1
      <4> QED
        BY <2>6, <4>1
    <3> QED
      BY <1>31, <3>1
  <2>10. \A c \in Builds, v \in Universities :
           /\ at[c]["identity"][v] \in Nat /\ at'[c]["identity"][v] \in Nat
           /\ at[c]["fields"][v] \in Nat /\ at[c]["canonical"][v] \in Nat
    BY <1>3, CurationTypesStep DEF CurationTypes, Sinks
  <2>11. ASSUME NEW c \in Builds, NEW p \in Observations, assign'[c][p] # 0
         PROVE  /\ p <= at'[c]["identity"][Home[p]]
                /\ ent'[assign'[c][p]] # "none"
                /\ p <= at'[c]["fields"][Home[p]] => claimed[c][p] # 0
    <3>1. CASE c = b /\ p = o
      <4>1. at[b]["fields"][u] <= at[b]["identity"][u]
        BY <1>3 DEF Passed
      <4>2. ~(o <= at'[b]["fields"][u])
        <5>1. at'[b]["fields"][u] = at[b]["fields"][u] /\ o > at[b]["identity"][u]
          BY <2>2, <2>3
        <5>2. at[b]["fields"][u] \in Nat /\ at[b]["identity"][u] \in Nat /\ o \in Nat
          BY <2>10
        <5> QED
          BY <4>1, <5>1, <5>2
      <4> QED
        BY <2>2, <2>3, <2>6, <2>7, <3>1, <4>2
    <3>2. CASE <<c, p>> # <<b, o>>
      <4>1. assign[c][p] # 0 /\ assign'[c][p] = assign[c][p]
        BY <2>6, <2>11, <3>2
      <4>2. p <= at[c]["identity"][Home[p]] /\ ent[assign[c][p]] # "none"
        BY <1>3, <4>1 DEF Passed
      <4>3. p <= at'[c]["identity"][Home[p]]
        <5>1. at[c]["identity"][Home[p]] <= at'[c]["identity"][Home[p]]
          BY <2>8
        <5>2. p \in Nat /\ at[c]["identity"][Home[p]] \in Nat /\ at'[c]["identity"][Home[p]] \in Nat
          BY <2>10
        <5> QED
          BY <4>2, <5>1, <5>2
      <4>4. p <= at[c]["fields"][Home[p]] => claimed[c][p] # 0
        BY <1>3, <4>1 DEF Passed
      <4>5. at'[c]["fields"][Home[p]] = at[c]["fields"][Home[p]]
        BY <2>3
      <4>6. ent'[assign[c][p]] # "none"
        BY <2>7, <2>9, <4>1, <4>2
      <4> QED
        BY <4>1, <4>3, <4>4, <4>5, <4>6
    <3> QED
      BY <3>1, <3>2
  <2>12. ASSUME NEW c \in Builds, NEW v \in Universities
         PROVE  /\ at'[c]["fields"][v] <= at'[c]["identity"][v]
                /\ at'[c]["canonical"][v] > 0 =>
                     \A p \in Mine(c) : assign'[c][p] # 0 /\ claimed[c][p] # 0
    <3>1. at[c]["fields"][v] <= at[c]["identity"][v]
      BY <1>3 DEF Passed
    <3>2. at'[c]["fields"][v] <= at'[c]["identity"][v]
      <4>1. /\ at'[c]["fields"][v] = at[c]["fields"][v]
            /\ at[c]["identity"][v] <= at'[c]["identity"][v]
        BY <2>3, <2>8
      <4>2. at[c]["fields"][v] \in Nat /\ at[c]["identity"][v] \in Nat /\ at'[c]["identity"][v] \in Nat
        BY <2>10
      <4> QED
        BY <3>1, <4>1, <4>2
    <3>3. at[c]["canonical"][v] > 0 => \A p \in Mine(c) : assign[c][p] # 0 /\ claimed[c][p] # 0
      BY <1>3 DEF Passed
    <3> QED
      <4>1. at'[c]["canonical"][v] = at[c]["canonical"][v]
        BY <2>3
      <4>2. \A p \in Mine(c) : assign[c][p] # 0 => assign'[c][p] # 0
        BY <1>3, <2>9
      <4> QED
        BY <3>2, <3>3, <4>1, <4>2
  <2>13. ASSUME NEW c \in Builds, NEW p \in Mine(c), p <= at'[c]["identity"][Home[p]]
         PROVE  assign'[c][p] # 0
    <3>1. p \in Observations /\ p \in active
      BY <1>3 DEF Mine
    <3>2. CASE c = b /\ p = o
      BY <2>6, <3>2
    <3>3. CASE c = b /\ p # o /\ Home[p] = u
      <4>1. p <= at[b]["identity"][u]
        <5>1. p <= o /\ p # o /\ (p > at[b]["identity"][u] => o <= p)
          <6>1. p <= at'[b]["identity"][u]
            BY <2>13, <3>3
          <6>2. p > at[b]["identity"][u] => o <= p
            BY <2>2, <3>1, <3>3
          <6> QED
            BY <2>3, <3>3, <6>1, <6>2
        <5>2. p \in Nat /\ o \in Nat /\ at[b]["identity"][u] \in Nat
          BY <2>10, <3>1
        <5> QED
          BY <5>1, <5>2
      <4> QED
        BY <1>3, <2>9, <3>1, <3>3, <4>1 DEF Passed
    <3>4. CASE c # b \/ Home[p] # u
      <4>1. p <= at[c]["identity"][Home[p]]
        BY <2>3, <2>13, <3>1, <3>4
      <4> QED
        BY <1>3, <2>9, <3>1, <4>1 DEF Passed
    <3> QED
      BY <3>2, <3>3, <3>4
  <2>14. ASSUME NEW c \in Builds, NEW p \in Mine(c), assign'[c][p] # 0,
                assign'[c][p] <= at'[c]["canonical"][Home[p]]
         PROVE  /\ canon[c][assign'[c][p]].state = "active"
                /\ p \in canon[c][assign'[c][p]].from
    <3>1. p \in Observations
      BY <1>3
    <3>2. CASE c = b /\ p = o
      <4>1. at[b]["canonical"][u] > 0
        <5>1. e <= at[b]["canonical"][u]
          <6>1. assign'[b][o] = e /\ at'[b]["canonical"][u] = at[b]["canonical"][u] /\ Home[o] = u
            BY <2>2, <2>3, <2>6
          <6> QED
            BY <2>14, <3>2, <6>1
        <5>2. e \in Nat /\ e # 0 /\ at[b]["canonical"][u] \in Nat
          BY <2>10
        <5> QED
          BY <5>1, <5>2
      <4>2. assign[b][o] # 0
        BY <1>3, <2>14, <3>2, <4>1 DEF Passed
      <4> QED
        BY <2>4, <4>2
    <3>3. CASE <<c, p>> # <<b, o>>
      <4>1. assign'[c][p] = assign[c][p] /\ at'[c]["canonical"][Home[p]] = at[c]["canonical"][Home[p]]
        <5>1. assign'[c][p] = assign[c][p]
          BY <2>6, <3>1, <3>3
        <5>2. Home[p] \in Universities
          BY <3>1
        <5> QED
          BY <2>3, <5>1, <5>2
      <4>2. assign[c][p] # 0 /\ assign[c][p] <= at[c]["canonical"][Home[p]]
        BY <2>14, <4>1
      <4>3. canon[c][assign[c][p]].state = "active" /\ p \in canon[c][assign[c][p]].from
        BY <1>3, <2>14, <4>2 DEF Passed
      <4> QED
        BY <4>1, <4>3
    <3> QED
      BY <3>2, <3>3
  <2> QED
    BY <1>1, <2>1, <2>11, <2>12, <2>13, <2>14 DEF Passed
<1>7. ASSUME NEW u \in Universities, NEW o \in Observations, ClaimFields(b, u, o)
      PROVE  Passed'
  <2>1. /\ UNCHANGED <<assign, canon, ent>>
        /\ claimed' = [claimed EXCEPT ![b][o] = root[assign[b][o]]]
        /\ at' = [at EXCEPT ![b]["fields"][u] = o]
    BY <1>7 DEF ClaimFields
  <2>2. /\ Home[o] = u /\ assign[b][o] # 0 /\ o > at[b]["fields"][u]
        /\ \A p \in Observations :
             Home[p] = u /\ assign[b][p] # 0 /\ p > at[b]["fields"][u] => o <= p
    BY <1>7, PendingRows DEF ClaimFields, At, Streams, Unclaimed
  <2>3. /\ at'[b]["fields"][u] = o
        /\ \A c \in Builds, v \in Universities :
             <<c, v>> # <<b, u>> => at'[c]["fields"][v] = at[c]["fields"][v]
        /\ \A c \in Builds, v \in Universities :
             /\ at'[c]["identity"][v] = at[c]["identity"][v]
             /\ at'[c]["canonical"][v] = at[c]["canonical"][v]
    BY <1>3, <2>1 DEF CurationTypes, Sinks
  <2>4. root[assign[b][o]] \in Entities
    BY <1>31, <1>33, <2>2
  <2>5. /\ claimed'[b][o] # 0
        /\ \A c \in Builds, p \in Observations : claimed[c][p] # 0 => claimed'[c][p] # 0
    BY <1>3, <2>1, <2>4 DEF CurationTypes
  <2>6. ASSUME NEW c \in Builds, NEW p \in Observations, assign[c][p] # 0,
               p <= at'[c]["fields"][Home[p]]
        PROVE  claimed'[c][p] # 0
    <3>1. CASE c = b /\ Home[p] = u
      <4>1. p <= o /\ (p > at[b]["fields"][u] => o <= p)
        BY <2>2, <2>3, <2>6, <3>1
      <4>2. p \in Nat /\ o \in Nat /\ at[b]["fields"][u] \in Nat
        BY <1>3 DEF CurationTypes, Sinks
      <4>3. p <= at[b]["fields"][u] \/ p = o
        BY <4>1, <4>2
      <4>4. p <= at[b]["fields"][u] => claimed[b][p] # 0
        BY <1>3, <2>6, <3>1 DEF Passed
      <4> QED
        BY <2>5, <3>1, <4>3, <4>4
    <3>2. CASE c # b \/ Home[p] # u
      <4>1. p <= at[c]["fields"][Home[p]]
        BY ZenonT(60), <2>3, <2>6, <3>2
      <4>2. claimed[c][p] # 0
        BY <1>3, <2>6, <4>1 DEF Passed
      <4> QED
        BY <2>5, <4>2
    <3> QED
      BY <3>1, <3>2
  <2>7. o <= at[b]["identity"][u]
    BY <1>3, <2>2 DEF Passed
  <2>8. ASSUME NEW c \in Builds, NEW v \in Universities
        PROVE  at'[c]["fields"][v] <= at'[c]["identity"][v]
    <3>1. at[c]["fields"][v] <= at[c]["identity"][v]
      BY <1>3 DEF Passed
    <3>2. at'[c]["identity"][v] = at[c]["identity"][v]
      BY <2>3
    <3>3. CASE c = b /\ v = u
      BY <2>3, <2>7, <3>2, <3>3
    <3>4. CASE <<c, v>> # <<b, u>>
      BY <2>3, <3>1, <3>2, <3>4
    <3> QED
      BY <3>3, <3>4
  <2>9. ASSUME NEW c \in Builds, NEW v \in Universities, at[c]["canonical"][v] > 0,
               NEW p \in Mine(c)
        PROVE  assign[c][p] # 0 /\ claimed'[c][p] # 0
    <3>1. assign[c][p] # 0 /\ claimed[c][p] # 0
      BY <1>3, <2>9 DEF Passed
    <3> QED
      BY <1>3, <2>5, <3>1
  <2>10. \A c \in Builds, p \in Observations : assign[c][p] # 0 =>
           p <= at[c]["identity"][Home[p]] /\ ent[assign[c][p]] # "none"
    BY <1>3 DEF Passed
  <2>11. \A c \in Builds : \A p \in Mine(c) :
           /\ p <= at[c]["identity"][Home[p]] => assign[c][p] # 0
           /\ assign[c][p] # 0 /\ assign[c][p] <= at[c]["canonical"][Home[p]] =>
                /\ canon[c][assign[c][p]].state = "active"
                /\ p \in canon[c][assign[c][p]].from
    BY <1>3 DEF Passed
  <2>12. ASSUME NEW c \in Builds, NEW p \in Observations, assign'[c][p] # 0
         PROVE  /\ p <= at'[c]["identity"][Home[p]]
                /\ ent'[assign'[c][p]] # "none"
                /\ p <= at'[c]["fields"][Home[p]] => claimed'[c][p] # 0
    <3>1. Home[p] \in Universities /\ assign[c][p] # 0
      BY <2>1, <2>12
    <3>2. p <= at[c]["identity"][Home[p]] /\ ent[assign[c][p]] # "none"
      BY <2>10, <3>1
    <3>3. at'[c]["identity"][Home[p]] = at[c]["identity"][Home[p]]
      BY <2>3, <3>1
    <3>4. p <= at'[c]["fields"][Home[p]] => claimed'[c][p] # 0
      BY <2>6, <3>1
    <3> QED
      BY <2>1, <3>2, <3>3, <3>4
  <2>13. ASSUME NEW c \in Builds, NEW v \in Universities
         PROVE  /\ at'[c]["fields"][v] <= at'[c]["identity"][v]
                /\ at'[c]["canonical"][v] > 0 =>
                     \A p \in Mine(c) : assign'[c][p] # 0 /\ claimed'[c][p] # 0
    BY <2>1, <2>3, <2>8, <2>9
  <2>14. ASSUME NEW c \in Builds, NEW p \in Mine(c)
         PROVE  /\ p <= at'[c]["identity"][Home[p]] => assign'[c][p] # 0
                /\ assign'[c][p] # 0 /\ assign'[c][p] <= at'[c]["canonical"][Home[p]] =>
                     /\ canon'[c][assign'[c][p]].state = "active"
                     /\ p \in canon'[c][assign'[c][p]].from
    BY <1>3, <2>1, <2>3, <2>11
  <2> QED
    BY ZenonT(60), <1>1, <2>12, <2>13, <2>14 DEF Passed
<1>8. ASSUME NEW u \in Universities, NEW e \in Entities, Materialize(b, u, e)
      PROVE  Passed'
  <2>1. /\ UNCHANGED <<assign, claimed, ent, root>>
        /\ canon' = [canon EXCEPT ![b][root[e]] =
                       [state |-> "active", from |-> Sources(b, root[e])]]
        /\ at' = [at EXCEPT ![b]["canonical"][u] = e]
    BY <1>8 DEF Materialize
  <2>2. /\ \E o \in Observations : assign[b][o] = e
        /\ \A p \in Observations :
             Home[p] = u /\ assign[b][p] > at[b]["canonical"][u] => e <= assign[b][p]
    BY <1>8, PendingRows DEF Materialize, At, Streams, Unmaterialized
  <2>3. frozen[b] = version /\ \A o \in Mine(b) : assign[b][o] # 0 /\ claimed[b][o] # 0
    BY <1>8 DEF Materialize, At, CurationInv, CurationJob, Passes
  <2>4. root[e] = e
    <3>1. \A o \in Observations : assign[b][o] # 0 => root[assign[b][o]] = assign[b][o]
      BY <1>3, <2>3 DEF Unmerged
    <3> QED
      BY <2>2, <3>1
  <2>5. /\ at'[b]["canonical"][u] = e
        /\ \A c \in Builds, v \in Universities :
             <<c, v>> # <<b, u>> => at'[c]["canonical"][v] = at[c]["canonical"][v]
        /\ \A c \in Builds, v \in Universities :
             /\ at'[c]["identity"][v] = at[c]["identity"][v]
             /\ at'[c]["fields"][v] = at[c]["fields"][v]
    BY <1>3, <2>1 DEF CurationTypes, Sinks
  <2>6. /\ canon'[b][e] = [state |-> "active", from |-> Sources(b, e)]
        /\ \A c \in Builds, f \in Entities : <<c, f>> # <<b, e>> => canon'[c][f] = canon[c][f]
    BY <1>3, <2>1, <2>4 DEF CurationTypes
  <2>7. \A p \in Mine(b) : assign[b][p] = e => p \in Sources(b, e)
    <3>1. \A p \in Observations : claimed[b][p] # 0 => claimed[b][p] = assign[b][p]
      BY <1>3, <2>3 DEF Unmerged
    <3> QED
      BY <1>3, <2>3, <2>4, <3>1 DEF Sources
  <2>8. ASSUME NEW c \in Builds, NEW p \in Mine(c), assign[c][p] # 0,
               assign[c][p] <= at'[c]["canonical"][Home[p]]
        PROVE  /\ canon'[c][assign[c][p]].state = "active"
               /\ p \in canon'[c][assign[c][p]].from
    <3>1. p \in Observations /\ assign[c][p] \in Entities
      <4>1. p \in Observations
        BY <1>3
      <4> QED
        BY <1>31, <2>8, <4>1
    <3>2. CASE c = b /\ assign[c][p] = e
      BY <2>6, <2>7, <3>2
    <3>3. CASE <<c, assign[c][p]>> # <<b, e>>
      <4>1. assign[c][p] <= at[c]["canonical"][Home[p]]
        <5>1. CASE c = b /\ Home[p] = u
          <6>1. assign[b][p] <= e /\ assign[b][p] # e
            BY <2>5, <2>8, <3>3, <5>1
          <6>2. assign[b][p] > at[b]["canonical"][u] => e <= assign[b][p]
            BY <2>2, <3>1, <5>1
          <6>3. assign[b][p] \in Nat /\ e \in Nat /\ at[b]["canonical"][u] \in Nat
            <7>1. assign[b][p] \in Nat /\ e \in Nat
              BY <3>1, <5>1
            <7> QED
              BY <1>32, <7>1
          <6> QED
            BY <5>1, <6>1, <6>2, <6>3
        <5>2. CASE c # b \/ Home[p] # u
          BY ZenonT(60), <2>5, <2>8, <3>1, <5>2
        <5> QED
          BY <5>1, <5>2
      <4>2. canon[c][assign[c][p]].state = "active" /\ p \in canon[c][assign[c][p]].from
        BY <1>3, <2>8, <4>1 DEF Passed
      <4> QED
        BY <2>6, <3>1, <3>3, <4>2
    <3> QED
      BY <3>2, <3>3
  <2>9. ASSUME NEW c \in Builds, NEW v \in Universities, at'[c]["canonical"][v] > 0
        PROVE  \A p \in Mine(c) : assign[c][p] # 0 /\ claimed[c][p] # 0
    <3>1. CASE c = b
      BY <2>3, <3>1
    <3>2. CASE c # b
      <4>1. at[c]["canonical"][v] > 0
        BY <2>5, <2>9, <3>2
      <4> QED
        BY <1>3, <4>1 DEF Passed
    <3> QED
      BY <3>1, <3>2
  <2>10. \A c \in Builds, p \in Observations : assign[c][p] # 0 =>
           /\ p <= at[c]["identity"][Home[p]] /\ ent[assign[c][p]] # "none"
           /\ p <= at[c]["fields"][Home[p]] => claimed[c][p] # 0
    BY <1>3 DEF Passed
  <2>11. \A c \in Builds, v \in Universities : at[c]["fields"][v] <= at[c]["identity"][v]
    BY <1>3 DEF Passed
  <2>12. \A c \in Builds : \A p \in Mine(c) : p <= at[c]["identity"][Home[p]] => assign[c][p] # 0
    BY <1>3 DEF Passed
  <2>13. ASSUME NEW c \in Builds, NEW p \in Observations, assign'[c][p] # 0
         PROVE  /\ p <= at'[c]["identity"][Home[p]]
                /\ ent'[assign'[c][p]] # "none"
                /\ p <= at'[c]["fields"][Home[p]] => claimed'[c][p] # 0
    <3>1. Home[p] \in Universities /\ assign[c][p] # 0
      BY <2>1, <2>13
    <3>2. /\ p <= at[c]["identity"][Home[p]] /\ ent[assign[c][p]] # "none"
          /\ p <= at[c]["fields"][Home[p]] => claimed[c][p] # 0
      BY <2>10, <3>1
    <3>3. /\ at'[c]["identity"][Home[p]] = at[c]["identity"][Home[p]]
          /\ at'[c]["fields"][Home[p]] = at[c]["fields"][Home[p]]
      BY <2>5, <3>1
    <3> QED
      BY <2>1, <3>2, <3>3
  <2>14. ASSUME NEW c \in Builds, NEW v \in Universities
         PROVE  /\ at'[c]["fields"][v] <= at'[c]["identity"][v]
                /\ at'[c]["canonical"][v] > 0 =>
                     \A p \in Mine(c) : assign'[c][p] # 0 /\ claimed'[c][p] # 0
    BY <2>1, <2>5, <2>9, <2>11
  <2>15. ASSUME NEW c \in Builds, NEW p \in Mine(c)
         PROVE  /\ p <= at'[c]["identity"][Home[p]] => assign'[c][p] # 0
                /\ assign'[c][p] # 0 /\ assign'[c][p] <= at'[c]["canonical"][Home[p]] =>
                     /\ canon'[c][assign'[c][p]].state = "active"
                     /\ p \in canon'[c][assign'[c][p]].from
    BY <1>3, <2>1, <2>5, <2>8, <2>12
  <2> QED
    BY ZenonT(60), <1>1, <2>13, <2>14, <2>15 DEF Passed
<1> QED
  BY <1>4, <1>5, <1>6, <1>7, <1>8 DEF CurationStep


\* Each of them is a row of a task of the build.
LEMMA MineTasks ==
  ASSUME CurationInv, NEW b \in Builds, NEW o \in Mine(b)
  PROVE  o \in Observations /\ o \in active /\ Home[o] \in Tasks(b)
BY DEF CurationInv, IngestInv, IngestTypes, Mine

\* When a pass has nothing left to stream, every observation of the build that no other
\* build touched meanwhile is behind the checkpoint of the pass.
LEMMA PassComplete ==
  ASSUME CurationInv, NEW b \in Builds, job.build = b, job.pc \in Sinks,
         \A u \in Tasks(b) : Pending(b, u) = {}, NEW o \in Mine(b)
  PROVE  /\ assign[b][o] # 0
         /\ job.pc \in {"fields", "canonical"} => claimed[b][o] # 0
         /\ job.pc = "canonical" => assign[b][o] <= at[b]["canonical"][Home[o]]
<1> USE IngestAssumption, CurationAssumption
<1>1. o \in Observations /\ o \in active /\ Home[o] \in Tasks(b) /\ Home[o] \in Universities
  BY MineTasks DEF Tasks
<1>2. Pending(b, Home[o]) = {}
  BY <1>1
<1>3. /\ o \in Nat /\ at[b]["identity"][Home[o]] \in Nat /\ at[b]["fields"][Home[o]] \in Nat
      /\ at[b]["canonical"][Home[o]] \in Nat /\ assign[b][o] \in Nat
  <2>1. at \in [Builds -> [Sinks -> [Universities -> Nat]]]
    BY DEF CurationInv, CurationTypes
  <2>2. assign[b][o] \in Entities \cup {0}
    BY <1>1 DEF CurationInv, CurationTypes
  <2>3. \A c \in Builds, u \in Universities :
          /\ at[c]["identity"][u] \in Nat /\ at[c]["fields"][u] \in Nat
          /\ at[c]["canonical"][u] \in Nat
    BY <2>1 DEF Sinks
  <2>4. o \in Nat
    BY <1>1
  <2>5. assign[b][o] \in Nat
    <3>1. Entities \cup {0} \subseteq Nat
      BY CurationAssumption
    <3> QED
      BY <2>2, <3>1
  <2> QED
    BY <1>1, <2>3, <2>4, <2>5
<1>4. CASE job.pc = "identity"
  <2>1. ~(o > at[b]["identity"][Home[o]])
    BY ZenonT(60), <1>1, <1>2, <1>4, PendingRows DEF Unassigned
  <2>2. o <= at[b]["identity"][Home[o]]
    BY <1>3, <2>1
  <2>3. assign[b][o] # 0
    BY <2>2 DEF CurationInv, Passed
  <2> QED
    BY <1>4, <2>3
<1>5. CASE job.pc = "fields"
  <2>1. assign[b][o] # 0
    BY <1>5 DEF CurationInv, CurationJob
  <2>2. ~(o > at[b]["fields"][Home[o]])
    BY ZenonT(60), <1>1, <1>2, <1>5, <2>1, PendingRows DEF Unclaimed
  <2>3. o <= at[b]["fields"][Home[o]]
    BY <1>3, <2>2
  <2>4. claimed[b][o] # 0
    BY <1>1, <2>1, <2>3 DEF CurationInv, Passed
  <2> QED
    BY <1>5, <2>1, <2>4
<1>6. CASE job.pc = "canonical"
  <2>1. assign[b][o] # 0 /\ claimed[b][o] # 0
    BY <1>6 DEF CurationInv, CurationJob
  <2>2. ~(assign[b][o] > at[b]["canonical"][Home[o]])
    <3>1. Unmaterialized(b, Home[o]) = {}
      BY <1>1, <1>2, <1>6, PendingRows
    <3>2. assign[b][o] > at[b]["canonical"][Home[o]] => assign[b][o] \in Unmaterialized(b, Home[o])
      BY <1>1 DEF Unmaterialized
    <3> QED
      BY <3>1, <3>2
  <2>3. assign[b][o] <= at[b]["canonical"][Home[o]]
    BY <1>3, <2>2
  <2> QED
    BY <2>1, <2>3
<1> QED
  BY <1>4, <1>5, <1>6 DEF Sinks

\* A pass begins when the one before it has nothing left.
LEMMA CurationJobStep ==
  ASSUME CurationInv, Assigned, Remember, NEW b \in Builds, CurationStep(b)
  PROVE  CurationJob'
<1>1. Mine(b)' \subseteq Mine(b) /\ \A o \in Mine(b) : o \in Observations
  BY MineStep, MineTasks
<1>2. job' = NoJob => CurationJob'
  BY DEF NoJob, CurationJob, Passes
<1> USE IngestAssumption, CurationAssumption DEF ingestVars, curationVars
<1>3. CurationTypes /\ CurationJob /\ job \in Jobs
  BY DEF CurationInv, IngestInv, IngestTypes
<1>4. ASSUME NEW pc \in Passes, job.build = b, job' = GotoFor(pc, {})
      PROVE  job'.build = b /\ job'.pc = pc
  BY <1>3, <1>4 DEF GotoFor, Jobs
<1>5. CASE Prepare(b)
  <2>1. CASE job' = NoJob
    BY <1>2, <2>1
  <2>2. CASE /\ job' = GotoFor("identity", {}) /\ run' = [run EXCEPT ![b] = "RUNNING"]
             /\ frozen'[b] = version /\ version' = version
    <3>1. job'.build = b /\ job'.pc = "identity"
      BY <1>4, <1>5, <2>2 DEF Prepare, At, Passes
    <3>2. run'[b] = "RUNNING"
      BY <1>3, <2>2 DEF CurationTypes
    <3> QED
      BY <2>2, <3>1, <3>2 DEF CurationJob
  <2> QED
    BY <1>3, <1>5, <2>1, <2>2 DEF Prepare, CurationTypes
<1>6. CASE \/ CurationFails(b) \/ Finish(b)
           \/ \E u \in Universities, o \in Observations, e \in Entities : AssignRefused(b, u, o, e)
  <2>1. job' = NoJob
    BY <1>6 DEF CurationFails, AssignRefused, FailRun, Finish
  <2> QED
    BY <1>2, <2>1
<1>7. CASE PassDone(b)
  <2>1. /\ job.build = b /\ job.pc \in Sinks /\ \A u \in Tasks(b) : Pending(b, u) = {}
        /\ job' = GotoFor(After(job.pc), {}) /\ UNCHANGED curationVars
    BY <1>7 DEF PassDone
  <2>2. After(job.pc) \in Passes /\ job.pc \in Passes
    BY <2>1 DEF After, Passes, Sinks
  <2>3. job'.build = b /\ job'.pc = After(job.pc)
    BY <1>4, <2>1, <2>2
  <2>4. run[b] = "RUNNING" /\ frozen[b] = version
    BY <1>3, <2>1, <2>2 DEF CurationJob
  <2>5. \A o \in Mine(b) :
          /\ assign[b][o] # 0
          /\ job.pc \in {"fields", "canonical"} => claimed[b][o] # 0
          /\ job.pc = "canonical" => assign[b][o] <= at[b]["canonical"][Home[o]]
    BY <2>1, PassComplete
  <2>6. /\ After(job.pc) \in {"canonical", "tombstones", "finish"} =>
             job.pc \in {"fields", "canonical"}
        /\ After(job.pc) \in {"tombstones", "finish"} => job.pc = "canonical"
    BY <2>1 DEF After, Sinks
  <2> QED
    BY <1>1, <2>1, <2>3, <2>4, <2>5, <2>6 DEF CurationJob
<1>8. CASE DropStaleClaims(b) \/ CopyTombstones(b)
  <2>1. UNCHANGED <<run, frozen, version, assign, claimed, at>> /\ job.build = b
    BY <1>8 DEF DropStaleClaims, CopyTombstones, At
  <2>2. \/ job.pc = "stale" /\ job'.build = b /\ job'.pc = "fields"
        \/ job.pc = "tombstones" /\ job'.build = b /\ job'.pc = "finish"
    BY <1>4, <1>8, <2>1 DEF DropStaleClaims, CopyTombstones, At, Passes
  <2> QED
    BY <1>1, <1>3, <2>1, <2>2 DEF CurationJob, Passes
<1>9. CASE \/ \E u \in Universities, o \in Observations, e \in Entities : AssignObservation(b, u, o, e)
           \/ \E u \in Universities, o \in Observations : ClaimFields(b, u, o)
  <2>1. UNCHANGED <<run, frozen, version, job>> /\ job.build = b
    BY <1>9 DEF AssignObservation, ClaimFields, At
  <2>2. \/ job.pc = "identity"
        \/ job.pc = "fields" /\ UNCHANGED assign
    BY <1>9 DEF AssignObservation, ClaimFields, At
  <2> QED
    BY <1>1, <1>3, <2>1, <2>2 DEF CurationJob, Passes
<1>10. CASE \E u \in Universities, e \in Entities : Materialize(b, u, e)
  <2>1. UNCHANGED <<run, frozen, version, job, assign, claimed>> /\ job.build = b /\ job.pc = "canonical"
    BY <1>10 DEF Materialize, At
  <2> QED
    BY <1>1, <1>3, <2>1 DEF CurationJob, Passes
<1> QED
  BY <1>5, <1>6, <1>7, <1>8, <1>9, <1>10 DEF CurationStep

\* Stage 2 preserves the invariant.
LEMMA CurationStepInv ==
  ASSUME CurationInv, Assigned, Remember, NEW b \in Builds, CurationStep(b)
  PROVE  CurationInv'
<1>1. IngestInv'
  <2>1. job.build = b => job.build # 0
    BY IngestAssumption
  <2> QED
    BY <2>1, CurationFrame, IngestKept
<1> QED
  BY <1>1, CurationTypesStep, RootsStep, RunsBegunStep, UnmergedStep, PassedStep, CurationJobStep
     DEF CurationInv

\* What stage 1 leaves alone of the builds that are past it.
LEMMA IngestFrame ==
  ASSUME CurationInv, NEW b \in Builds, IngestStep(b)
  PROVE  /\ job'.pc \notin Passes
         /\ \A c \in Builds : status[c] # "none" =>
              /\ status'[c] # "none"
              /\ Open(c)' \subseteq Open(c) /\ Unsnapped(c)' \subseteq Unsnapped(c)
         /\ \A c \in Builds : status[c] # "none" => Tasks(c)' \subseteq Tasks(c)
<1> USE IngestAssumption, CrawlsAssumption DEF ingestVars
<1>0. IngestInv /\ IngestTypes /\ job \in Jobs
  BY DEF CurationInv, IngestInv, IngestTypes
<1>1. job'.pc \notin Passes
  <2>1. /\ NoJob.pc = "idle" /\ \A pc \in Places : Begin(b, pc).pc = pc
        /\ \A pc \in Places, S \in SUBSET Universities : GotoFor(pc, S).pc = pc
    BY <1>0 DEF NoJob, Begin, GotoFor, Jobs
  <2>2. \A pc \in {"idle", "ingest", "snapshot", "source", "rows", "prepare"} :
          pc \in Places /\ pc \notin Passes
    BY DEF Places, Passes
  <2>3. Unsnapped(b) \in SUBSET Universities /\ Open(b) \in SUBSET Universities
    BY DEF Unsnapped, Open, Tasks
  <2>4. CASE \E univs \in SUBSET Universities : CreateBuild(b, univs)
    BY <2>1, <2>2, <2>4 DEF CreateBuild
  <2>5. CASE BeginIngest(b)
    BY <2>1, <2>2, <2>3, <2>5 DEF BeginIngest
  <2>6. CASE SnapshotsDone(b) \/ IngestDone(b)
    BY <2>1, <2>2, <2>3, <2>6 DEF SnapshotsDone, IngestDone
  <2>7. CASE \E stage \in {"ingest", "prepare"} : Resume(b, stage)
    BY <2>1, <2>2, <2>7 DEF Resume
  <2>8. CASE \E u \in Universities :
               \/ \E c \in Crawls[u] : TakeSnapshot(b, u, c)
               \/ SnapshotFails(b, u) \/ CommitRow(b, u)
    <3>1. job'.pc = job.pc /\ job.pc \in {"snapshot", "rows"}
      BY <1>0, <2>8 DEF TakeSnapshot, SnapshotFails, CommitRow, At, Jobs
    <3> QED
      BY <2>2, <3>1
  <2>9. CASE \E u \in Universities : IngestFails(b, u) \/ BeginSource(b, u) \/ Finalize(b, u)
    <3>1. job'.pc \in {"source", "rows"}
      BY ZenonT(60), <1>0, <2>9 DEF IngestFails, BeginSource, Finalize, Jobs
    <3> QED
      BY <2>2, <3>1
  <2> QED
    BY <2>4, <2>5, <2>6, <2>7, <2>8, <2>9 DEF IngestStep
<1>2. \A c \in Builds : status[c] # "none" => status'[c] # "none"
  <2>1. \/ status' = status
        \/ \E s \in {"CREATED", "SNAPSHOTTING", "INGESTING", "FAILED", "CURATING"} :
             status' = [status EXCEPT ![b] = s]
    <3>1. CASE \/ BeginIngest(b) \/ SnapshotsDone(b) \/ IngestDone(b)
               \/ \E univs \in SUBSET Universities : CreateBuild(b, univs)
      BY <3>1 DEF CreateBuild, BeginIngest, SnapshotsDone, IngestDone
    <3>2. ASSUME NEW u \in Universities,
                 \/ \E c \in Crawls[u] : TakeSnapshot(b, u, c)
                 \/ BeginSource(b, u) \/ CommitRow(b, u) \/ Finalize(b, u)
          PROVE  status' = status
      BY <3>2 DEF TakeSnapshot, BeginSource, CommitRow, Finalize
    <3>3. ASSUME NEW u \in Universities, SnapshotFails(b, u) \/ IngestFails(b, u)
          PROVE  status' = status
      BY <3>3 DEF SnapshotFails, IngestFails
    <3>4. ASSUME NEW stage \in {"ingest", "prepare"}, Resume(b, stage)
          PROVE  status' = status
      BY <3>4 DEF Resume
    <3> QED
      BY <3>1, <3>2, <3>3, <3>4 DEF IngestStep
  <2> QED
    BY <1>0, <2>1 DEF IngestTypes
<1>3. CASE \/ BeginIngest(b) \/ SnapshotsDone(b) \/ IngestDone(b)
           \/ \E u \in Universities : SnapshotFails(b, u) \/ IngestFails(b, u) \/ BeginSource(b, u)
           \/ \E stage \in {"ingest", "prepare"} : Resume(b, stage)
  <2>1. UNCHANGED <<task, snap, seen, active>>
    <3>1. CASE BeginIngest(b) \/ SnapshotsDone(b) \/ IngestDone(b)
      BY <3>1 DEF BeginIngest, SnapshotsDone, IngestDone
    <3>2. ASSUME NEW u \in Universities, SnapshotFails(b, u) \/ IngestFails(b, u) \/ BeginSource(b, u)
          PROVE  UNCHANGED <<task, snap, seen, active>>
      BY <3>2 DEF SnapshotFails, IngestFails, BeginSource
    <3>3. ASSUME NEW stage \in {"ingest", "prepare"}, Resume(b, stage)
          PROVE  UNCHANGED <<task, snap, seen, active>>
      BY <3>3 DEF Resume
    <3> QED
      BY <1>3, <3>1, <3>2, <3>3
  <2> QED
    BY <1>1, <1>2, <2>1 DEF Open, Unsnapped, Tasks
<1>4. ASSUME NEW univs \in SUBSET Universities, CreateBuild(b, univs)
      PROVE  \A c \in Builds : status[c] # "none" =>
               /\ Open(c)' \subseteq Open(c) /\ Unsnapped(c)' \subseteq Unsnapped(c)
               /\ Tasks(c)' \subseteq Tasks(c)
  <2>1. UNCHANGED snap
    BY <1>4 DEF CreateBuild
  <2>2. \A c \in Builds : status[c] # "none" => task'[c] = task[c]
    BY <1>0, <1>4 DEF CreateBuild, IngestTypes
  <2> QED
    BY <2>1, <2>2 DEF Open, Unsnapped, Tasks
<1>5. ASSUME NEW u \in Universities, NEW d \in Crawls[u], TakeSnapshot(b, u, d)
      PROVE  \A c \in Builds : /\ Open(c)' \subseteq Open(c) /\ Unsnapped(c)' \subseteq Unsnapped(c)
                               /\ Tasks(c)' \subseteq Tasks(c)
  <2>1. UNCHANGED task /\ snap' = [snap EXCEPT ![b][u] = d] /\ d # NoCrawl
    BY <1>5 DEF TakeSnapshot
  <2>2. \A c \in Builds, v \in Universities : snap'[c][v] = NoCrawl => snap[c][v] = NoCrawl
    BY <1>0, <2>1 DEF IngestTypes
  <2> QED
    BY <2>1, <2>2 DEF Open, Unsnapped, Tasks
<1>6. ASSUME NEW u \in Universities, Finalize(b, u)
      PROVE  \A c \in Builds : /\ Open(c)' \subseteq Open(c) /\ Unsnapped(c)' \subseteq Unsnapped(c)
                               /\ Tasks(c)' \subseteq Tasks(c)
  <2>1. UNCHANGED snap /\ task' = [task EXCEPT ![b][u] = "COMPLETED"]
    BY <1>6 DEF Finalize
  <2>2. task[b][u] = "open"
    BY <1>0, <1>6, CurrentSource DEF Finalize, At
  <2>3. \A c \in Builds, v \in Universities :
          /\ task'[c][v] = "open" => task[c][v] = "open"
          /\ task'[c][v] # "absent" => task[c][v] # "absent"
    BY <1>0, <2>1, <2>2 DEF IngestTypes
  <2> QED
    BY <2>1, <2>3 DEF Open, Unsnapped, Tasks
<1>7. ASSUME NEW u \in Universities, CommitRow(b, u)
      PROVE  \A c \in Builds : /\ Open(c)' \subseteq Open(c) /\ Unsnapped(c)' \subseteq Unsnapped(c)
                               /\ Tasks(c)' \subseteq Tasks(c)
  BY <1>7 DEF CommitRow, Open, Unsnapped, Tasks
<1> QED
  BY <1>1, <1>2, <1>3, <1>4, <1>5, <1>6, <1>7 DEF IngestStep

\* Stage 1 preserves the invariant of stage 2.
LEMMA IngestCurationInv ==
  ASSUME CurationInv, Remember, NEW b \in Builds, IngestStep(b), UNCHANGED curationVars
  PROVE  CurationInv'
<1>1. IngestInv'
  BY IngestStepInv DEF CurationInv
<1>2. CurationTypes' /\ Roots' /\ Unmerged'
  BY DEF CurationInv, curationVars, CurationTypes, Roots, Unmerged
<1>3. RunsBegun'
  <2>1. \A c \in Builds : run[c] # "none" => Open(c)' = {} /\ Unsnapped(c)' = {} /\ status'[c] # "none"
    BY IngestFrame DEF CurationInv, RunsBegun
  <2> QED
    BY <2>1 DEF CurationInv, curationVars, RunsBegun
<1>4. CurationJob'
  BY IngestFrame DEF CurationJob, Passes
<1>5. Passed'
  <2>1. UNCHANGED <<assign, claimed, canon, at, ent>>
    BY DEF curationVars
  <2>2. \A c \in Builds : Mine(c)' \subseteq Observations
    BY <1>1 DEF IngestInv, IngestTypes, Mine
  <2>3. ASSUME NEW c \in Builds, run[c] # "none"
        PROVE  Mine(c)' \subseteq Mine(c)
    <3>1. Tasks(c)' \subseteq Tasks(c) /\ run'[c] = run[c]
      BY <2>3, IngestFrame DEF CurationInv, RunsBegun, curationVars
    <3>2. run[c] \in {"RUNNING", "FAILED", "COMPLETED"}
      BY <2>3 DEF CurationInv, CurationTypes
    <3>3. run[c] # "COMPLETED" => active' \ late'[c] \subseteq active \ late[c]
      BY <3>1, <3>2 DEF Remember
    <3> QED
      BY <3>1, <3>3 DEF Mine
  <2>4. \A c \in Builds : run[c] = "none" =>
          /\ \A o \in Observations : assign[c][o] = 0
          /\ \A u \in Universities : /\ at[c]["identity"][u] = 0
                                     /\ at[c]["canonical"][u] = 0
    BY DEF CurationInv, RunsBegun, Sinks
  <2>5. ASSUME NEW c \in Builds, NEW u \in Universities, at[c]["canonical"][u] > 0, NEW o \in Mine(c)'
        PROVE  assign[c][o] # 0 /\ claimed[c][o] # 0
    <3>1. run[c] # "none"
      BY <2>4, <2>5
    <3>2. o \in Mine(c)
      BY <2>3, <3>1
    <3> QED
      BY <2>5, <3>2 DEF CurationInv, Passed
  <2>6. ASSUME NEW c \in Builds, NEW o \in Mine(c)', o <= at[c]["identity"][Home[o]]
        PROVE  assign[c][o] # 0
    <3>1. o \in Observations /\ o \in Nat \ {0} /\ Home[o] \in Universities
      BY <2>2, IngestAssumption
    <3>2. run[c] # "none"
      BY <2>4, <2>6, <3>1
    <3>3. o \in Mine(c)
      BY <2>3, <3>2
    <3> QED
      BY <2>6, <3>3 DEF CurationInv, Passed
  <2>7. ASSUME NEW c \in Builds, NEW o \in Mine(c)', assign[c][o] # 0,
               assign[c][o] <= at[c]["canonical"][Home[o]]
        PROVE  canon[c][assign[c][o]].state = "active" /\ o \in canon[c][assign[c][o]].from
    <3>1. run[c] # "none"
      BY <2>2, <2>4, <2>7
    <3>2. o \in Mine(c)
      BY <2>3, <3>1
    <3> QED
      BY <2>7, <3>2 DEF CurationInv, Passed
  <2>8. \A c \in Builds :
          /\ \A o \in Observations : assign[c][o] # 0 =>
               /\ o <= at[c]["identity"][Home[o]]
               /\ ent[assign[c][o]] # "none"
               /\ o <= at[c]["fields"][Home[o]] => claimed[c][o] # 0
          /\ \A u \in Universities : at[c]["fields"][u] <= at[c]["identity"][u]
    BY DEF CurationInv, Passed
  <2> QED
    BY <2>1, <2>5, <2>6, <2>7, <2>8 DEF Passed
<1> QED
  BY <1>1, <1>2, <1>3, <1>4, <1>5 DEF CurationInv

-----------------------------------------------------------------------------
(* Crashes, overrides and merges.                                          *)

\* What leaves the observations, the tasks and the runs alone forgets nothing.
LEMMA MineKept ==
  ASSUME CurationInv, Assigned, Remember, UNCHANGED <<active, task, run>>, NEW b \in Builds
  PROVE  Mine(b)' \subseteq Mine(b)
<1>1. run[b] \in Going => late'[b] = late[b]
  BY DEF Remember, Going
<1>2. run[b] \notin Going => late[b] = {}
  BY DEF Assigned
<1> QED
  BY <1>1, <1>2 DEF Mine, Tasks

\* A crash leaves only the process behind.
LEMMA CrashInv ==
  ASSUME CurationInv, Assigned, Remember, Crash, UNCHANGED curationVars
  PROVE  CurationInv'
<1>1. /\ UNCHANGED <<status, task, snap, cursor, count, seen, active, findings>>
      /\ job' = NoJob
  BY DEF Crash, ingestVars
<1>2. IngestInv'
  BY <1>1, IngestKept
<1>3. CurationTypes' /\ Roots' /\ Unmerged'
  BY DEF CurationInv, curationVars, CurationTypes, Roots, Unmerged
<1>4. RunsBegun'
  BY <1>1 DEF CurationInv, curationVars, RunsBegun, Open, Unsnapped, Tasks
<1>5. Passed'
  <2>1. UNCHANGED <<run, assign, claimed, canon, at, ent>>
    BY DEF curationVars
  <2> QED
    BY <1>1, <2>1, MineKept DEF CurationInv, Passed
<1>6. CurationJob'
  BY <1>1 DEF CurationJob, NoJob, Passes
<1> QED
  BY <1>2, <1>3, <1>4, <1>5, <1>6 DEF CurationInv

\* After an override no run is under the manifest of today.
LEMMA OverrideFrozen ==
  ASSUME CurationTypes, version' = version + 1, UNCHANGED frozen
  PROVE  /\ version' \in Nat /\ \A b \in Builds : frozen'[b] <= version' /\ frozen'[b] # version'
BY DEF CurationTypes

\* An override that merges nothing.
LEMMA RecordOverrideInv ==
  ASSUME CurationInv, Assigned, Remember, RecordOverride
  PROVE  CurationInv'
<1>1. /\ UNCHANGED <<status, task, snap, cursor, count, seen, active, findings, job>> /\ job = NoJob
      /\ UNCHANGED <<run, frozen, ent, root, assign, historic, held, live, claimed, canon, at>>
      /\ version' = version + 1
  BY DEF RecordOverride, ingestVars
<1>2. IngestInv'
  BY <1>1, IngestKept
<1>3. /\ version' \in Nat
      /\ \A b \in Builds : frozen'[b] <= version' /\ frozen'[b] # version'
  BY <1>1, OverrideFrozen DEF CurationInv
<1>4. CurationTypes'
  BY <1>1, <1>3 DEF CurationInv, CurationTypes
<1>5. Roots' /\ Unmerged'
  BY <1>1, <1>3 DEF CurationInv, Roots, Unmerged
<1>6. RunsBegun'
  BY <1>1 DEF CurationInv, RunsBegun, Open, Unsnapped, Tasks
<1>7. Passed'
  BY <1>1, MineKept DEF CurationInv, Passed
<1>8. CurationJob'
  BY <1>1 DEF CurationJob, NoJob, Passes
<1> QED
  BY <1>2, <1>4, <1>5, <1>6, <1>7, <1>8 DEF CurationInv

\* A merge leads everything that led to the source to the end of the target's merges.
LEMMA MergeInv ==
  ASSUME CurationInv, Assigned, Remember, NEW s \in Entities, NEW t \in Entities,
         MergeEntities(s, t)
  PROVE  CurationInv'
<1>1. /\ UNCHANGED <<status, task, snap, cursor, count, seen, active, findings, job>> /\ job = NoJob
      /\ UNCHANGED <<run, frozen, assign, historic, held, live, claimed, canon, at>>
      /\ version' = version + 1
      /\ ent[s] \notin {"none", "merged"} /\ root[t] # s
      /\ ent' = [ent EXCEPT ![s] = "merged"]
      /\ root' = [e \in Entities |-> IF root[e] = s THEN root[t] ELSE root[e]]
  BY DEF MergeEntities, ingestVars
<1>2. IngestInv'
  BY <1>1, IngestKept
<1>3. /\ version' \in Nat
      /\ \A b \in Builds : frozen'[b] <= version' /\ frozen'[b] # version'
  BY <1>1, OverrideFrozen DEF CurationInv
<1>4. CurationTypes /\ Roots
  BY DEF CurationInv
<1>5. /\ ent' \in [Entities -> {"none", "active", "review", "inactive", "merged"}]
      /\ root' \in [Entities -> Entities]
      /\ \A e \in Entities : ent[e] # "none" => ent'[e] # "none"
  BY <1>1, <1>4 DEF CurationTypes
<1>6. CurationTypes'
  BY <1>1, <1>3, <1>4, <1>5 DEF CurationTypes
<1>7. Roots'
  <2>1. root[t] \in Entities /\ root[root[t]] = root[t] /\ root[s] = s
    BY <1>1, <1>4 DEF CurationTypes, Roots
  <2>2. ASSUME NEW e \in Entities
        PROVE  root'[root'[e]] = root'[e] /\ (ent'[e] = "merged" <=> root'[e] # e)
    <3>1. root[e] \in Entities /\ root[root[e]] = root[e] /\ (ent[e] = "merged" <=> root[e] # e)
      BY <1>4 DEF CurationTypes, Roots
    <3>2. \A f \in Entities : root'[f] = IF root[f] = s THEN root[t] ELSE root[f]
      BY <1>1
    <3>3. ent'[s] = "merged" /\ (e # s => ent'[e] = ent[e])
      BY <1>1, <1>4 DEF CurationTypes
    <3> QED
      BY <1>1, <2>1, <3>1, <3>2, <3>3
  <2> QED
    BY <2>2 DEF Roots
<1>8. Unmerged'
  BY <1>3 DEF Unmerged
<1>9. RunsBegun'
  BY <1>1 DEF CurationInv, RunsBegun, Open, Unsnapped, Tasks
<1>10. Passed'
  <2>1. \A b \in Builds, o \in Observations : assign[b][o] # 0 => assign[b][o] \in Entities
    BY <1>4 DEF CurationTypes
  <2>2. \A b \in Builds : Mine(b)' \subseteq Mine(b)
    BY <1>1, MineKept
  <2>3. \A b \in Builds, o \in Observations : assign[b][o] # 0 => ent'[assign[b][o]] # "none"
    BY <1>5, <2>1 DEF CurationInv, Passed
  <2> QED
    BY <1>1, <2>2, <2>3 DEF CurationInv, Passed
<1>11. CurationJob'
  BY <1>1 DEF CurationJob, NoJob, Passes
<1> QED
  BY <1>2, <1>6, <1>7, <1>8, <1>9, <1>10, <1>11 DEF CurationInv

-----------------------------------------------------------------------------
(* The invariant and the properties.                                       *)

\* Init.
LEMMA InitInv == Init => CurationInv
<1> SUFFICES ASSUME Init PROVE CurationInv
  OBVIOUS
<1> USE IngestAssumption, CrawlsAssumption, CurationAssumption DEF Init, IngestInit
<1>1. IngestTypes
  <2>1. NoJob \in Jobs
    BY DEF NoJob, Jobs, Places
  <2>2. NoRows \in Counters
    BY DEF NoRows, Counters
  <2>3. IsFiniteSet({})
    BY FS_EmptySet
  <2> QED
    BY <2>1, <2>2, <2>3 DEF IngestTypes
<1>2. IngestJob /\ TasksDone /\ Fresh /\ SeenInSnapshot
  BY DEF IngestJob, TasksDone, Fresh, SeenInSnapshot, NoJob, Tasks
<1>3. RowsCountedOnce
  BY DEF RowsCountedOnce
<1>4. CurationTypes
  <2>1. NoRow \in [state : {"none", "active", "tombstone"}, from : SUBSET Observations]
    BY DEF NoRow
  <2> QED
    BY <2>1 DEF CurationTypes
<1>5. Roots /\ RunsBegun /\ Unmerged
  BY DEF Roots, RunsBegun, Unmerged, NoRow
<1>6. Passed
  BY DEF Passed, Mine, Sinks
<1>7. CurationJob
  BY DEF CurationJob, NoJob, Passes
<1> QED
  BY <1>1, <1>2, <1>3, <1>4, <1>5, <1>6, <1>7 DEF CurationInv, IngestInv

\* A step that changes nothing.
LEMMA StutterInv ==
  ASSUME CurationInv, UNCHANGED vars
  PROVE  CurationInv'
<1>1. /\ UNCHANGED <<status, task, snap, cursor, count, seen, active, findings, job, late>>
      /\ UNCHANGED <<run, frozen, version, ent, root, assign, historic, held, live, claimed, canon, at>>
  BY DEF vars, ingestVars, curationVars
<1>2. IngestInv'
  BY <1>1, IngestKept
<1>3. CurationTypes' /\ Roots' /\ Unmerged'
  BY <1>1 DEF CurationInv, CurationTypes, Roots, Unmerged
<1>4. RunsBegun'
  BY <1>1 DEF CurationInv, RunsBegun, Open, Unsnapped, Tasks
<1>5. Passed'
  BY <1>1 DEF CurationInv, Passed, Mine, Tasks
<1>6. CurationJob'
  BY <1>1 DEF CurationInv, CurationJob, Mine, Tasks
<1> QED
  BY <1>2, <1>3, <1>4, <1>5, <1>6 DEF CurationInv

\* Every step preserves the invariant of both stages.
LEMMA StepInv == CurationInv /\ Assigned /\ [Next]_vars => CurationInv'
<1> SUFFICES ASSUME CurationInv, Assigned, [Next]_vars PROVE CurationInv'
  OBVIOUS
<1>1. CASE Crash /\ UNCHANGED curationVars /\ Remember
  BY <1>1, CrashInv
<1>2. CASE (\E b \in Builds : IngestStep(b)) /\ UNCHANGED curationVars /\ Remember
  BY <1>2, IngestCurationInv
<1>3. CASE (\E b \in Builds : CurationStep(b)) /\ Remember
  BY <1>3, CurationStepInv
<1>4. CASE RecordOverride /\ Remember
  BY <1>4, RecordOverrideInv
<1>5. CASE (\E s, t \in Entities : MergeEntities(s, t)) /\ Remember
  BY <1>5, MergeInv
<1>6. CASE UNCHANGED vars
  BY <1>6, StutterInv
<1> QED
  BY <1>1, <1>2, <1>3, <1>4, <1>5, <1>6 DEF Next, Step

\* Only the identity pass assigns, and only what is active.
LEMMA AssignedStep == CurationInv /\ Assigned /\ [Next]_vars => Assigned'
<1> SUFFICES ASSUME CurationInv, Assigned, [Next]_vars PROVE Assigned'
  OBVIOUS
<1> USE IngestAssumption, CurationAssumption
<1>1. CASE UNCHANGED vars
  BY <1>1 DEF vars, ingestVars, curationVars, Assigned
<1>2. ASSUME Remember,
             \A c \in Builds : run'[c] \in Going =>
               \A o \in Observations : assign'[c][o] # 0 =>
                 o \in active \/ (run[c] \in Going /\ assign[c][o] # 0)
      PROVE  Assigned'
  <2>1. \A c \in Builds : run'[c] \notin Going => late'[c] = {}
    BY <1>2 DEF Remember, Going
  <2>2. ASSUME NEW c \in Builds, run'[c] \in Going, NEW o \in Observations, assign'[c][o] # 0
        PROVE  o \in active' \cup late'[c]
    <3>1. late'[c] = late[c] \cup (active \ active') \cup (active' \ active)
      BY <1>2, <2>2 DEF Remember, Going
    <3>2. o \in active \cup late[c]
      BY <1>2, <2>2 DEF Assigned
    <3> QED
      BY <3>1, <3>2
  <2> QED
    BY <2>1, <2>2 DEF Assigned
<1>3. CASE Remember /\ UNCHANGED <<run, assign>>
  BY <1>2, <1>3
<1>4. ASSUME Remember, NEW b \in Builds, CurationStep(b)
      PROVE  Assigned'
  <2>0. CurationTypes /\ RunsBegun
    BY DEF CurationInv
  <2>1. CASE Prepare(b)
    <3>1. UNCHANGED assign /\ (run' = run \/ run' = [run EXCEPT ![b] = "RUNNING"])
          /\ (run' # run => run[b] \in Going \cup {"none"})
      BY <2>0, <2>1 DEF Prepare, CurationTypes, Going
    <3>2. run[b] = "none" => \A o \in Observations : assign[b][o] = 0
      BY <2>0 DEF RunsBegun
    <3>3. \A c \in Builds : c # b => run'[c] = run[c]
      BY <2>0, <3>1 DEF CurationTypes
    <3> QED
      BY <1>2, <1>4, <3>1, <3>2, <3>3
  <2>2. CASE \/ CurationFails(b) \/ Finish(b)
             \/ \E u \in Universities, o \in Observations, e \in Entities : AssignRefused(b, u, o, e)
    <3>1. UNCHANGED assign /\ \E s \in {"FAILED", "COMPLETED"} : run' = [run EXCEPT ![b] = s]
      BY <2>2 DEF CurationFails, AssignRefused, FailRun, Finish
    <3>2. run[b] \in Going
      BY <2>2, InPass DEF CurationFails, AssignRefused, Finish, At, Passes, Going
    <3>3. \A c \in Builds : c # b => run'[c] = run[c]
      BY <2>0, <3>1 DEF CurationTypes
    <3> QED
      BY <1>2, <1>4, <3>1, <3>2, <3>3
  <2>3. ASSUME NEW u \in Universities, NEW o \in Observations, NEW e \in Entities,
               AssignObservation(b, u, o, e)
        PROVE  Assigned'
    <3>1. UNCHANGED run /\ (assign' = assign \/ assign' = [assign EXCEPT ![b][o] = e])
      BY <2>3 DEF AssignObservation
    <3>2. o \in active
      BY <2>3, PendingRows DEF AssignObservation, At, Streams, Unassigned
    <3>3. \A c \in Builds, p \in Observations : assign'[c][p] = assign[c][p] \/ p = o
      <4>1. CASE assign' = assign
        BY <4>1
      <4>2. CASE assign' = [assign EXCEPT ![b][o] = e]
        <5>1. assign \in [Builds -> [Observations -> Entities \cup {0}]]
          BY <2>0 DEF CurationTypes
        <5> HIDE IngestAssumption, CurationAssumption
        <5> QED
          BY <4>2, <5>1
      <4> QED
        BY <3>1, <4>1, <4>2
    <3> QED
      BY <1>2, <1>4, <3>1, <3>2, <3>3
  <2>4. CASE UNCHANGED <<run, assign>>
    BY <1>3, <1>4, <2>4
  <2> QED
    BY <1>4, <2>1, <2>2, <2>3, <2>4 DEF CurationStep, DropStaleClaims, PassDone, CopyTombstones,
         ClaimFields, Materialize, curationVars
<1>5. CASE /\ Remember
           /\ \/ UNCHANGED curationVars \/ RecordOverride
              \/ \E s, t \in Entities : MergeEntities(s, t)
  <2>1. UNCHANGED <<run, assign>>
    BY <1>5 DEF RecordOverride, MergeEntities, curationVars
  <2> QED
    BY <1>3, <1>5, <2>1
<1> QED
  BY <1>1, <1>4, <1>5 DEF Next, Step

\* The inductive invariant of ingest and curation, from the checkpoints that each stage
\* resumes at and the manifest that _prepare_run compares.
THEOREM Invariance == Spec => [](CurationInv /\ Assigned)
<1>1. Init => Assigned
  BY DEF Init, Assigned, Going
<1> QED
  BY InitInv, StepInv, AssignedStep, <1>1, PTL DEF Spec

\* Every row up to the checkpoint of a source was read once and became an observation or
\* a finding, however often _ingest_source is interrupted (_commit_batch).
THEOREM RowsCountedOnceAlways == Spec => []RowsCountedOnce
<1>1. CurationInv => RowsCountedOnce
  BY DEF CurationInv, IngestInv
<1> QED
  BY Invariance, <1>1, PTL

\* A source that is trusted has the whole university: no row of it was rejected.
LEMMA TrustedWhole ==
  ASSUME IngestInv, NEW b \in Builds, NEW u \in Universities, snap[b][u] \in Crawls[u],
         RowsLeft(b, u) = {}, Trusted(b, u)
  PROVE  snap[b][u].complete /\ snap[b][u].bad = {}
<1>1. /\ snap[b][u] \in Crawl /\ snap[b][u] # NoCrawl /\ IsFiniteSet(snap[b][u].bad)
  BY CrawlsAssumption
<1>2. RowKeys(snap[b][u]) \subseteq Nat /\ snap[b][u].bad \subseteq RowKeys(snap[b][u])
  BY <1>1, CrawlRows DEF RowKeys
<1>3. cursor[b][u] \in Nat
  BY DEF IngestInv, IngestTypes
<1>4. Before(b, u) \cap snap[b][u].bad = snap[b][u].bad
  BY <1>2, <1>3 DEF Before, RowsLeft
<1>5. count[b][u].rejected = Cardinality(Before(b, u) \cap snap[b][u].bad)
  BY <1>1 DEF IngestInv, RowsCountedOnce
<1>6. Cardinality(snap[b][u].bad) = 0
  BY <1>4, <1>5 DEF Trusted
<1> QED
  BY <1>1, <1>6, FS_EmptySet DEF Trusted

\* Only the end of a source deactivates.
LEMMA DeactivatesFinalize ==
  ASSUME CurationInv, [Next]_vars, NEW o \in active, o \notin active'
  PROVE  \E b \in Builds, u \in Universities : Finalize(b, u)
<1>1. CASE UNCHANGED active
  BY <1>1
<1>2. CASE \E b \in Builds : CurationStep(b)
  <2>1. UNCHANGED active
    BY <1>2, CurationFrame
  <2> QED
    BY <2>1
<1>3. ASSUME NEW b \in Builds, IngestStep(b)
      PROVE  \E c \in Builds, u \in Universities : Finalize(c, u)
  <2>1. CASE \E u \in Universities : CommitRow(b, u)
    <3>1. active \subseteq active'
      <4>1. UNCHANGED active \/ \E p \in Observations : active' = active \cup {p}
        BY ZenonT(60), <2>1 DEF CommitRow, WriteObservation, RejectRow
      <4> QED
        BY <4>1
    <3> QED
      BY <3>1
  <2>2. CASE \/ BeginIngest(b) \/ SnapshotsDone(b) \/ IngestDone(b)
             \/ \E univs \in SUBSET Universities : CreateBuild(b, univs)
             \/ \E stage \in {"ingest", "prepare"} : Resume(b, stage)
    <3>1. UNCHANGED active
      BY <2>2 DEF BeginIngest, SnapshotsDone, IngestDone, CreateBuild, Resume, ingestVars
    <3> QED
      BY <3>1
  <2>3. CASE \E u \in Universities :
               \/ \E c \in Crawls[u] : TakeSnapshot(b, u, c)
               \/ SnapshotFails(b, u) \/ IngestFails(b, u) \/ BeginSource(b, u)
    <3>1. UNCHANGED active
      BY <2>3 DEF TakeSnapshot, SnapshotFails, IngestFails, BeginSource, ingestVars
    <3> QED
      BY <3>1
  <2> QED
    BY <1>3, <2>1, <2>2, <2>3 DEF IngestStep
<1>4. CASE Crash \/ RecordOverride \/ (\E s, t \in Entities : MergeEntities(s, t)) \/ UNCHANGED vars
  <2>1. UNCHANGED active
    BY <1>4 DEF Crash, RecordOverride, MergeEntities, vars, ingestVars
  <2> QED
    BY <1>1, <2>1
<1> QED
  BY <1>2, <1>3, <1>4 DEF Next, Step

\* Nothing is deactivated but by a whole, complete crawl that does not have it, or that a
\* build resumed late shares with the one that ingested it since (_finalize_source).
THEOREM DeactivationJustifiedAlways == Spec => DeactivationJustified
<1>1. ASSUME CurationInv, [Next]_vars
      PROVE  DeactivatesGone
  <2> SUFFICES ASSUME NEW o \in active, o \notin active'
               PROVE  /\ snap[job.build][Home[o]].complete /\ snap[job.build][Home[o]].bad = {}
                      /\ o \in snap[job.build][Home[o]].rows =>
                           seen[o] # job.build /\ o \in snap[seen[o]][Home[o]].rows
    BY DEF DeactivatesGone
  <2>1. PICK b \in Builds, u \in Universities : Finalize(b, u)
    BY <1>1, DeactivatesFinalize
  <2>2. job.build = b /\ RowsLeft(b, u) = {} /\ Trusted(b, u) /\ Home[o] = u /\ seen[o] # b
    BY <2>1 DEF Finalize, At
  <2>3. IngestInv /\ snap[b][u] \in Crawls[u]
    BY <1>1, <2>1, CurrentSource DEF CurationInv, Finalize, At
  <2>4. snap[b][u].complete /\ snap[b][u].bad = {}
    BY <2>2, <2>3, TrustedWhole
  <2>5. o \in snap[seen[o]][Home[o]].rows
    BY <2>3 DEF IngestInv, IngestTypes, SeenInSnapshot
  <2> QED
    BY <2>2, <2>4, <2>5
<1>2. CurationInv /\ [Next]_vars => [DeactivatesGone]_vars
  BY <1>1
<1> QED
  BY Invariance, <1>2, PTL DEF Spec, DeactivationJustified

\* Only the end of the passes completes a run.
LEMMA CompletesFinish ==
  ASSUME CurationInv, [Next]_vars, NEW b \in Builds, run[b] # "COMPLETED", run'[b] = "COMPLETED"
  PROVE  Finish(b)
<1>1. CASE UNCHANGED run
  BY <1>1
<1>2. ASSUME NEW c \in Builds, CurationStep(c)
      PROVE  Finish(b)
  <2>1. CASE Finish(c)
    BY <2>1 DEF Finish, CurationInv, CurationTypes
  <2>2. CASE \/ Prepare(c) \/ CurationFails(c)
             \/ \E u \in Universities, o \in Observations, e \in Entities : AssignRefused(c, u, o, e)
    <3>1. run' = run \/ \E s \in {"RUNNING", "FAILED"} : run' = [run EXCEPT ![c] = s]
      BY <2>2 DEF Prepare, CurationFails, AssignRefused, FailRun
    <3> QED
      BY <3>1 DEF CurationInv, CurationTypes
  <2>3. CASE UNCHANGED run
    BY <2>3
  <2> QED
    BY <1>2, <2>1, <2>2, <2>3 DEF CurationStep, DropStaleClaims, PassDone, CopyTombstones,
         AssignObservation, ClaimFields, Materialize, curationVars
<1>3. CASE RecordOverride \/ (\E s, t \in Entities : MergeEntities(s, t)) \/ UNCHANGED vars
           \/ UNCHANGED curationVars
  <2>1. UNCHANGED run
    BY <1>3 DEF RecordOverride, MergeEntities, vars, curationVars
  <2> QED
    BY <1>1, <2>1
<1> QED
  BY <1>2, <1>3 DEF Next, Step

\* A run that completes has assigned every active observation and made the rows of the
\* entities these belong to, and of no others, but for what other builds activated or
\* deactivated while it was interrupted (_finish_run).
THEOREM CuratedConsistentAlways == Spec => CuratedConsistent
<1>1. ASSUME CurationInv, Assigned, [Next]_vars, NEW b \in Builds,
             run[b] # "COMPLETED", run'[b] = "COMPLETED"
      PROVE  /\ \A o \in active \ late[b] : Home[o] \in Tasks(b) =>
                  /\ assign[b][o] # 0
                  /\ canon[b][root[assign[b][o]]].state = "active"
                  /\ o \in canon[b][root[assign[b][o]]].from
             /\ \A e \in Entities : canon[b][e].state = "active" =>
                  /\ ent[e] \notin {"none", "merged"}
                  /\ \E o \in active \cup late[b] : assign[b][o] # 0 /\ root[assign[b][o]] = e
  <2>1. At(b, "finish")
    BY <1>1, CompletesFinish DEF Finish
  <2>2. frozen[b] = version /\ run[b] \in Going
    BY <1>1, <2>1, InPass DEF At, Passes, Going
  <2>3. \A o \in Mine(b) : assign[b][o] # 0 /\ assign[b][o] <= at[b]["canonical"][Home[o]]
    BY <1>1, <2>1 DEF At, CurationInv, CurationJob
  <2>4. \A o \in Observations : assign[b][o] # 0 => root[assign[b][o]] = assign[b][o]
    BY <1>1, <2>2 DEF CurationInv, Unmerged
  <2>5. ASSUME NEW o \in active \ late[b], Home[o] \in Tasks(b)
        PROVE  /\ assign[b][o] # 0
               /\ canon[b][root[assign[b][o]]].state = "active"
               /\ o \in canon[b][root[assign[b][o]]].from
    <3>1. o \in Mine(b)
      BY <1>1, <2>5 DEF Mine
    <3>2. o \in Observations
      BY <1>1, <3>1, MineTasks
    <3>3. assign[b][o] # 0 /\ assign[b][o] <= at[b]["canonical"][Home[o]]
      BY <2>3, <3>1
    <3>4. canon[b][assign[b][o]].state = "active" /\ o \in canon[b][assign[b][o]].from
      BY <1>1, <3>1, <3>3 DEF CurationInv, Passed
    <3> QED
      BY <2>4, <3>2, <3>3, <3>4
  <2>6. ASSUME NEW e \in Entities, canon[b][e].state = "active"
        PROVE  /\ ent[e] \notin {"none", "merged"}
               /\ \E o \in active \cup late[b] : assign[b][o] # 0 /\ root[assign[b][o]] = e
    <3>1. PICK o \in Observations : assign[b][o] = e
      BY <1>1, <2>2, <2>6 DEF CurationInv, Unmerged
    <3>2. e # 0
      BY CurationAssumption
    <3>3. root[e] = e
      BY <2>4, <3>1, <3>2
    <3>4. ent[e] # "none"
      BY <1>1, <3>1, <3>2 DEF CurationInv, Passed
    <3>5. ent[e] # "merged"
      BY <1>1, <3>3 DEF CurationInv, Roots
    <3>6. o \in active \cup late[b]
      BY <1>1, <2>2, <3>1, <3>2 DEF Assigned
    <3> QED
      BY <3>1, <3>2, <3>3, <3>4, <3>5, <3>6
  <2> QED
    BY <2>5, <2>6
<1>2. ASSUME CurationInv, Assigned, [Next]_vars
      PROVE  [CompletesWhole]_vars
  BY <1>1, <1>2 DEF CompletesWhole
<1> QED
  BY Invariance, <1>2, PTL DEF Spec, CuratedConsistent
=============================================================================
