--------------------------- MODULE CatalogCuration ---------------------------
(***************************************************************************)
(* Stage 2 of a catalog build: every active observation of the build's     *)
(* universities is assigned to the professor it is about, the entity; its  *)
(* fields are claimed for that entity, and the entities are materialized   *)
(* as the canonical professors of the build (catalog/curation.py).  People *)
(* merge entities and override fields and roles in between                 *)
(* (catalog/overrides.py).                                                 *)
(*                                                                         *)
(* The three passes stream rows in ID order behind a checkpoint for each   *)
(* university.  Observations, entities and claims belong to the catalog,   *)
(* assignments, field claims and canonical rows to a build.  The values of *)
(* the fields, and so the wording of the overrides, are left out.          *)
(***************************************************************************)
EXTENDS CatalogIngest

CONSTANTS
    Entities,      \* entity IDs, numbered in their order
    Claims,        \* Claims[o]: the identity claims of an observation
    MaxOverrides   \* bound: merges and overrides in one behaviour

\* The kinds of claims: a public researcher ID is strong, the others are weak.
Claim == [kind : {"external_identity", "listing_name_url", "weak_org_name", "email"},
          value : Nat]

ASSUME CurationAssumption ==
    /\ Entities \subseteq Nat \ {0}
    /\ Claims \in [Observations -> SUBSET Claim]
    /\ MaxOverrides \in Nat

VARIABLES
    run,       \* run[b]: curation_runs.status ("none": no row)
    frozen,    \* frozen[b]: the override manifest of the run
    version,   \* the override manifest now: every override makes a new one
    ent,       \* ent[e]: entities.status ("none": no row)
    root,      \* root[e]: where following merged_into_id from e ends
    assign,    \* assign[b][o]: entity_observations (0: no row)
    historic,  \* historic[o]: the entity of its latest row (0: none)
    held,      \* identity_claims
    live,      \* the ones with active = 1
    claimed,   \* claimed[b][o]: the entity of the field claims from o (0: none)
    canon,     \* canon[b][e]: canonical_professors, with the observations it is from
    at,        \* at[b][sink][u]: last_key of the sink's checkpoint
    late       \* late[b]: history: see Remember

curationVars == <<run, frozen, version, ent, root, assign, historic, held, live,
                  claimed, canon, at>>
vars == <<ingestVars, curationVars, late, job, faults>>

NoRow == [state |-> "none", from |-> {}]
Sinks == {"identity", "fields", "canonical"}

Init ==
    /\ IngestInit
    /\ run = [b \in Builds |-> "none"]
    /\ frozen = [b \in Builds |-> 0]
    /\ version = 0
    /\ ent = [e \in Entities |-> "none"]
    /\ root = [e \in Entities |-> e]
    /\ assign = [b \in Builds |-> [o \in Observations |-> 0]]
    /\ historic = [o \in Observations |-> 0]
    /\ held = {} /\ live = {}
    /\ claimed = [b \in Builds |-> [o \in Observations |-> 0]]
    /\ canon = [b \in Builds |-> [e \in Entities |-> NoRow]]
    /\ at = [b \in Builds |-> [s \in Sinks |-> [u \in Universities |-> 0]]]
    /\ late = [b \in Builds |-> {}]

-----------------------------------------------------------------------------
(* The run.                                                                *)

\* Mutant: the run goes on under the overrides of today.
PrepareAnyManifest(b) ==
    /\ At(b, "prepare")
    /\ \/ /\ \/ run[b] = "none" /\ status[b] # "CURATING"
             \/ run[b] = "COMPLETED"
          /\ job' = NoJob
          /\ UNCHANGED <<status, run, frozen>>
       \/ /\ run[b] # "COMPLETED" /\ (run[b] = "none" => status[b] = "CURATING")
          /\ run' = [run EXCEPT ![b] = "RUNNING"]
          /\ frozen' = [frozen EXCEPT ![b] = version]
          /\ status' = [status EXCEPT ![b] = "CURATING"]
          /\ job' = GotoFor("identity", {})
    /\ UNCHANGED <<task, snap, cursor, count, eligible, seen, active, findings, faults,
                   version, ent, root, assign, historic, held, live, claimed, canon, at>>

\* _prepare_run.  A run whose overrides have changed since is never continued, and
\* a completed one is left as it is.
Prepare(b) ==
    /\ At(b, "prepare")
    /\ \/ /\ \/ run[b] = "none" /\ status[b] # "CURATING"
             \/ run[b] # "none" /\ frozen[b] # version
             \/ run[b] = "COMPLETED" /\ frozen[b] = version
          /\ job' = NoJob
          /\ UNCHANGED <<status, run, frozen>>
       \/ /\ run[b] = "none" /\ status[b] = "CURATING"
          /\ run' = [run EXCEPT ![b] = "RUNNING"]
          /\ frozen' = [frozen EXCEPT ![b] = version]
          /\ job' = GotoFor("identity", {})
          /\ UNCHANGED status
       \/ /\ run[b] \in {"RUNNING", "FAILED"} /\ frozen[b] = version
          /\ run' = [run EXCEPT ![b] = "RUNNING"]
          /\ status' = [status EXCEPT ![b] = "CURATING"]
          /\ job' = GotoFor("identity", {})
          /\ UNCHANGED frozen
    /\ UNCHANGED <<task, snap, cursor, count, eligible, seen, active, findings, faults,
                   version, ent, root, assign, historic, held, live, claimed, canon, at>>

\* _fail_run
FailRun(b) ==
    /\ run' = [run EXCEPT ![b] = "FAILED"]
    /\ status' = [status EXCEPT ![b] = "FAILED"]
    /\ job' = NoJob
    /\ UNCHANGED <<task, snap, cursor, count, eligible, seen, active, findings,
                   frozen, version, ent, root, assign, historic, held, live, claimed, canon, at>>

Passes == {"identity", "stale", "fields", "canonical", "tombstones", "finish"}

\* Any exception in a pass.
CurationFails(b) ==
    /\ job.build = b /\ job.pc \in Passes
    /\ faults < MaxFaults
    /\ faults' = faults + 1
    /\ FailRun(b)

-----------------------------------------------------------------------------
(* The identity pass.                                                      *)

Kept(o, kinds) == {r \in live : r.claim \in Claims[o] /\ r.claim.kind \in kinds}

\* _claim_targets: the entities that hold a live claim equal to one of the observation's.
strong_targets(o) == {root[r.ent] : r \in Kept(o, {"external_identity"})}
weak_targets(o) == {root[r.ent] : r \in Kept(o, {"listing_name_url", "weak_org_name"})}

\* _candidate_conflicts: the entity has another listing page or another address.
candidate_conflicts(e, o) ==
    \E c \in Claims[o] :
        /\ c.kind \in {"listing_name_url", "email"}
        /\ \E r \in live : r.ent = e /\ r.claim.kind = c.kind
        /\ \A r \in live : r.ent = e /\ r.claim.kind = c.kind => r.claim # c

\* The entity an observation belongs to: the one it had, or the only one its claims
\* name; the empty set when a new entity is made for it.
Match(o) ==
    IF historic[o] # 0 THEN {root[historic[o]]}
    ELSE IF strong_targets(o) # {}
    THEN {e \in strong_targets(o) : strong_targets(o) = {e}}
    ELSE {e \in weak_targets(o) : weak_targets(o) = {e} /\ ~candidate_conflicts(e, o)}

\* A new entity is for review when there were candidates.
NewStatus(o) == IF strong_targets(o) \cup weak_targets(o) = {} THEN "active" ELSE "review"

StatusAfter(e, o) ==
    IF ent[e] = "none" THEN NewStatus(o) ELSE IF ent[e] = "inactive" THEN "active" ELSE ent[e]

Row(e, c, o) == [ent |-> e, claim |-> c, obs |-> o]
Strong(o) == {c \in Claims[o] : c.kind = "external_identity"}

\* The live strong claims of the observation that its entity, or others, hold.
Own(e, o) == {r \in live : r.claim \in Strong(o) /\ root[r.ent] = e}
Taken(e, o) == {c \in Strong(o) : \E r \in live : r.claim = c /\ root[r.ent] # e}

\* An inactive row of a claim that another entity has taken cannot be activated: the
\* index ux_identity_active_strong refuses it.
Refused(e, o) == \E c \in Taken(e, o) : Row(e, c, o) \in held

\* The claims move to this observation; a strong claim of another entity stays there.
WriteClaims(e, o) ==
    LET new == {Row(e, c, o) : c \in Claims[o] \ Taken(e, o)}
    IN  /\ held' = (held \ {r \in Own(e, o) : Row(e, r.claim, o) \notin held}) \cup new
        /\ live' = (live \ Own(e, o)) \cup new

\* The rows a pass has still to stream, and the university it is at: the first one with
\* such rows, for the rows of an earlier one do not come back during the pass.
Unassigned(b, u) == {o \in active : Home[o] = u /\ o > at[b]["identity"][u]}

Unclaimed(b, u) == {o \in Observations : Home[o] = u /\ assign[b][o] # 0 /\ o > at[b]["fields"][u]}

Unmaterialized(b, u) ==
    {assign[b][o] : o \in {p \in Observations : Home[p] = u /\ assign[b][p] > at[b]["canonical"][u]}}

Pending(b, u) ==
    CASE job.pc = "identity" -> Unassigned(b, u)
      [] job.pc = "fields" -> Unclaimed(b, u)
      [] OTHER -> Unmaterialized(b, u)

Streams(b, u, x) ==
    /\ u \in Tasks(b)
    /\ x \in Pending(b, u) /\ \A y \in Pending(b, u) : x <= y
    /\ \A v \in Tasks(b) : v < u => Pending(b, v) = {}

\* _assign_observation and its checkpoint.  An observation with a row in the build
\* is passed over.
AssignObservation(b, u, o, e) ==
    /\ At(b, "identity") /\ Streams(b, u, o)
    /\ \/ /\ assign[b][o] # 0 /\ e = assign[b][o]
          /\ UNCHANGED <<assign, historic, ent, held, live>>
       \/ /\ assign[b][o] = 0
          /\ IF Match(o) = {} THEN ent[e] = "none" ELSE e \in Match(o)
          /\ ~Refused(e, o)
          /\ assign' = [assign EXCEPT ![b][o] = e]
          /\ historic' = [historic EXCEPT ![o] = e]
          /\ ent' = [ent EXCEPT ![e] = StatusAfter(e, o)]
          /\ WriteClaims(e, o)
    /\ at' = [at EXCEPT ![b]["identity"][u] = o]
    /\ UNCHANGED <<ingestVars, run, frozen, version, root, claimed, canon, job, faults>>

\* The index refuses the claim: the batch is rolled back and the run fails.
AssignRefused(b, u, o, e) ==
    /\ At(b, "identity") /\ Streams(b, u, o)
    /\ assign[b][o] = 0 /\ e \in Match(o) /\ Refused(e, o)
    /\ FailRun(b)
    /\ UNCHANGED faults

\* _deactivate_stale_claims
DropStaleClaims(b) ==
    /\ At(b, "stale")
    /\ live' = {r \in live : Home[r.obs] \in Tasks(b) => r.obs \in active}
    /\ job' = GotoFor("fields", {})
    /\ UNCHANGED <<ingestVars, run, frozen, version, ent, root, assign, historic, held,
                   claimed, canon, at, faults>>

-----------------------------------------------------------------------------
(* The field pass and the canonical pass.                                  *)

\* _commit_field_batch
ClaimFields(b, u, o) ==
    /\ At(b, "fields") /\ Streams(b, u, o)
    /\ claimed' = [claimed EXCEPT ![b][o] = root[assign[b][o]]]
    /\ at' = [at EXCEPT ![b]["fields"][u] = o]
    /\ UNCHANGED <<ingestVars, run, frozen, version, ent, root, assign, historic, held, live,
                   canon, job, faults>>

\* The observations whose field claims the row of an entity is chosen from: those of the
\* entity and of every entity merged into it (_merge_members, _field_rows).
Sources(b, target) == {o \in Observations : claimed[b][o] # 0 /\ root[claimed[b][o]] = target}

\* _commit_canonical_batch: the row of the entity that e was merged into.
Materialize(b, u, e) ==
    /\ At(b, "canonical") /\ Streams(b, u, e)
    /\ canon' = [canon EXCEPT ![b][root[e]] = [state |-> "active", from |-> Sources(b, root[e])]]
    /\ at' = [at EXCEPT ![b]["canonical"][u] = e]
    /\ UNCHANGED <<ingestVars, run, frozen, version, ent, root, assign, historic, held, live,
                   claimed, job, faults>>

After(pass) ==
    CASE pass = "identity" -> "stale" [] pass = "fields" -> "canonical" [] OTHER -> "tombstones"

PassDone(b) ==
    /\ job.build = b /\ job.pc \in Sinks
    /\ \A u \in Tasks(b) : Pending(b, u) = {}
    /\ job' = GotoFor(After(job.pc), {})
    /\ UNCHANGED <<ingestVars, curationVars, faults>>

\* _copy_inactive_tombstones: the entities that had a claim from one of the universities
\* and a canonical row in another build, and have no observation in this one.
Gone(b) ==
    {e \in Entities :
       /\ \E r \in held : r.ent = e /\ Home[r.obs] \in Tasks(b)
       /\ \A o \in Observations : assign[b][o] # e
       /\ \E c \in Builds \ {b} : canon[c][e].state # "none"}

CopyTombstones(b) ==
    /\ At(b, "tombstones")
    /\ canon' = [canon EXCEPT ![b] = [e \in Entities |->
                   IF e \in Gone(b) /\ @[e].state = "none"
                   THEN [state |-> "tombstone", from |-> {}] ELSE @[e]]]
    /\ ent' = [e \in Entities |->
                 IF e \in Gone(b) /\ ent[e] \notin {"merged", "review"} THEN "inactive" ELSE ent[e]]
    /\ job' = GotoFor("finish", {})
    /\ UNCHANGED <<ingestVars, run, frozen, version, root, assign, historic, held, live,
                   claimed, at, faults>>

\* _finish_run
Finish(b) ==
    /\ At(b, "finish")
    /\ run' = [run EXCEPT ![b] = "COMPLETED"]
    /\ status' = [status EXCEPT ![b] = "EMBEDDING"]
    /\ job' = NoJob
    /\ UNCHANGED <<task, snap, cursor, count, eligible, seen, active, findings, faults,
                   frozen, version, ent, root, assign, historic, held, live, claimed, canon, at>>

-----------------------------------------------------------------------------
(* What people change between the commands that build.                     *)

\* record_override, of a field or of a role.
RecordOverride ==
    /\ job = NoJob
    /\ version < MaxOverrides
    /\ \E e \in Entities : ent[e] # "none"
    /\ version' = version + 1
    /\ UNCHANGED <<ingestVars, run, frozen, ent, root, assign, historic, held, live, claimed,
                   canon, at, job, faults>>

\* merge_entities: the source must not be merged yet; the target is where its own
\* merges lead.
MergeEntities(s, t) ==
    /\ job = NoJob
    /\ version < MaxOverrides
    /\ ent[s] \notin {"none", "merged"} /\ ent[t] # "none" /\ root[t] # s
    /\ version' = version + 1
    /\ ent' = [ent EXCEPT ![s] = "merged"]
    /\ root' = [e \in Entities |-> IF root[e] = s THEN root[t] ELSE root[e]]
    /\ UNCHANGED <<ingestVars, run, frozen, assign, historic, held, live, claimed, canon, at,
                   job, faults>>

CurationStep(b) ==
    \/ Prepare(b) \/ CurationFails(b) \/ DropStaleClaims(b) \/ PassDone(b)
    \/ CopyTombstones(b) \/ Finish(b)
    \/ \E u \in Universities :
         \/ \E o \in Observations, e \in Entities :
              AssignObservation(b, u, o, e) \/ AssignRefused(b, u, o, e)
         \/ \E o \in Observations : ClaimFields(b, u, o)
         \/ \E e \in Entities : Materialize(b, u, e)

\* History: the observations that other builds made active or inactive since the
\* curation run of b began; the run streams the ones of its universities behind
\* checkpoints that never go back.
Remember ==
    late' = [b \in Builds |-> IF run'[b] \in {"RUNNING", "FAILED"}
                              THEN late[b] \cup (active \ active') \cup (active' \ active)
                              ELSE {}]

Step ==
    \/ (Crash \/ \E b \in Builds : IngestStep(b)) /\ UNCHANGED curationVars
    \/ \E b \in Builds : CurationStep(b)
    \/ RecordOverride
    \/ \E s, t \in Entities : MergeEntities(s, t)

Next == Step /\ Remember

Spec == Init /\ [][Next]_vars

-----------------------------------------------------------------------------
(* Properties.                                                             *)

Before(b, u) == {k \in RowKeys(snap[b][u]) : k <= cursor[b][u]}

\* However often a source is interrupted and resumed, every row of its snapshot up to
\* the checkpoint was read once, and became an observation or a finding: the counters
\* are the numbers of those rows and of the findings, and a completed task has no row
\* left (the checkpoint and the counters of _commit_batch, which _finalize_source and
\* later builds decide by).
RowsCountedOnce ==
    \A b \in Builds, u \in Universities : snap[b][u] # NoCrawl =>
        /\ count[b][u].read = Cardinality(Before(b, u))
        /\ count[b][u].rejected = Cardinality(Before(b, u) \cap snap[b][u].bad)
        /\ count[b][u].written + count[b][u].rejected = count[b][u].read
        /\ count[b][u].findings = Cardinality({f \in findings : f.build = b /\ f.univ = u})
        /\ \A o \in snap[b][u].rows : Key[o] <= cursor[b][u] => seen[o] # 0
        /\ \A k \in snap[b][u].bad :
             k <= cursor[b][u] => Found(b, u, "legacy_row_unimportable", k) \in findings
        /\ task[b][u] = "COMPLETED" => RowsLeft(b, u) = {}

\* What may be deactivated, and what a run that completes has done.
DeactivatesGone ==
    \A o \in active \ active' :
        LET b == job.build
            c == snap[b][Home[o]]
        IN  /\ c.complete /\ c.bad = {}
            /\ o \in c.rows => seen[o] # b /\ o \in snap[seen[o]][Home[o]].rows

CompletesWhole ==
    \A b \in Builds : run[b] # "COMPLETED" /\ run'[b] = "COMPLETED" =>
        /\ \A o \in active \ late[b] : Home[o] \in Tasks(b) =>
             /\ assign[b][o] # 0
             /\ canon[b][root[assign[b][o]]].state = "active"
             /\ o \in canon[b][root[assign[b][o]]].from
        /\ \A e \in Entities : canon[b][e].state = "active" =>
             /\ ent[e] \notin {"none", "merged"}
             /\ \E o \in active \cup late[b] : assign[b][o] # 0 /\ root[assign[b][o]] = e

\* What of DeactivatesOnlyMissing the code does keep: an observation is only deactivated
\* by a build whose snapshot of the university is of a complete crawl of which every row
\* was imported; and it is not in that snapshot, or another build, which has it too, has
\* ingested it since this one did (the WHERE of the update in _finalize_source).
DeactivationJustified == [][DeactivatesGone]_vars

\* An observation is only deactivated by a build whose snapshot lacks it: "an observation
\* that does not appear in the new snapshot is marked inactive" (07-release-lifecycle,
\* section 4).  The code goes by last_seen_build, so an interrupted build that is resumed
\* after a newer one deactivates what both have.
DeactivatesOnlyMissing == [][\A o \in active \ active' : o \notin snap[job.build][Home[o]].rows]_vars

\* When a curation run completes, after whatever crashes, failures, merges and overrides,
\* every active observation of its universities is assigned, and the entity it belongs to
\* now has an active canonical row made from it; and every active canonical row is of an
\* entity that is not merged into another one and that has an active observation in the
\* build (the checkpoints of the three passes and the manifest check of _prepare_run).
\* Left out, both ways, are only the observations that another build has activated or
\* deactivated while this run was interrupted: the run goes on behind its checkpoints and
\* does not see them.  (That a canonical row has an active observation is asked again
\* before the release, by active_canonical_has_observation of catalog/lifecycle.py.)
CuratedConsistent == [][CompletesWhole]_vars
=============================================================================
