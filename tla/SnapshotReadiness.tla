-------------------------- MODULE SnapshotReadiness --------------------------
(***************************************************************************)
(* Which build the recommendation service serves.  A release lives in      *)
(* three stores that are switched one after the other: the Neo4j pointer,  *)
(* the Qdrant alias, the ACTIVE row of the catalog.  The readiness check   *)
(* reads them back at different instants, in two phases, and only a check  *)
(* in which everything agrees replaces the cached snapshot                 *)
(* (ReadinessService).  LiveActiveSnapshotProvider repeats the check and   *)
(* hands out the last good snapshot until it is too old.                   *)
(*                                                                         *)
(* Time is counted in ticks; ages saturate just above the last value that  *)
(* is compared.                                                            *)
(***************************************************************************)
EXTENDS Naturals, FiniteSets

CONSTANTS
  Builds,      \* builds that reached READY
  NoBuild,
  Healthy,     \* builds whose samples, fingerprint and blocking coverage agree
  OrgCovered,  \* builds whose org_unit_ids coverage passes
  Embeddable,  \* builds with the configured embedding provider and model
  MaxAge,      \* runtime_snapshot_max_age
  CheckTicks   \* two phases of readiness_readback_timeout

ASSUME BuildsAssumption ==
  /\ NoBuild \notin Builds
  /\ Healthy \subseteq Builds /\ OrgCovered \subseteq Builds /\ Embeddable \subseteq Builds
ASSUME TicksAssumption == MaxAge \in Nat /\ CheckTicks \in Nat

VARIABLES
  store,  \* the build each store names
  check,  \* the readiness check under way
  cache,  \* _cached and the age of _cached_at
  up,     \* "starting", "up", "failed" or "closed"
  flags,  \* the build coverage_flags_by_build_id has org_unit_ids for
  gone    \* how long ago a build stopped being ACTIVE, if it was (history)

vars == <<store, check, cache, up, flags, gone>>

Horizon == MaxAge + CheckTicks
Older(age, bound) == IF age > bound THEN age ELSE age + 1

Idle == [pc |-> "idle", build |-> NoBuild, seen |-> {}, left |-> {}, ok |-> FALSE, age |-> 0]
Readbacks == {"samples", "vector", "graph"}

Init ==
  /\ \E b \in Builds \cup {NoBuild} : store = [catalog |-> b, graph |-> b, vector |-> b]
  /\ check = Idle
  /\ cache = [build |-> NoBuild, age |-> 0]
  /\ up = "starting"
  /\ flags = NoBuild
  /\ gone = [b \in Builds |-> IF b = store.catalog THEN 0 ELSE Horizon + 1]

-----------------------------------------------------------------------------
\* The promotion of build b (CatalogRelease has the whole of it).  One that
\* fails stops between two switches and leaves the stores as they are.

SwitchGraph(b) ==
  /\ b # store.catalog
  /\ store' = [store EXCEPT !.graph = b]
  /\ UNCHANGED <<check, cache, up, flags, gone>>

SwitchVector(b) ==
  /\ b # store.catalog /\ store.graph = b
  /\ store' = [store EXCEPT !.vector = b]
  /\ UNCHANGED <<check, cache, up, flags, gone>>

SwitchCatalog(b) ==
  /\ b # store.catalog /\ store.graph = b /\ store.vector = b
  /\ gone' = [c \in Builds |-> IF c \in {store.catalog, b} THEN 0 ELSE gone[c]]
  /\ store' = [store EXCEPT !.catalog = b]
  /\ UNCHANGED <<check, cache, up, flags>>

-----------------------------------------------------------------------------
\* The check.  gather_safe turns every failure and every timeout of a
\* readback into an error of the report; an error makes it not ready.

\* Phase 1: the ACTIVE row, and the version of the ranking profile.
CheckBegin(ranked) ==
  /\ check = Idle
  /\ up \in {"starting", "up"}
  /\ check' = [pc |-> "phase2", build |-> store.catalog, seen |-> {}, left |-> Readbacks,
               ok |-> ranked, age |-> 0]
  /\ store.catalog # NoBuild
  /\ UNCHANGED <<store, cache, up, flags, gone>>

\* Phase 1 without an ACTIVE build, or whose catalog cannot be read: there is
\* no phase 2 and no snapshot.
CheckNoBuild ==
  /\ check = Idle
  /\ up \in {"starting", "up"}
  /\ up' = IF up = "starting" THEN "failed" ELSE up
  /\ UNCHANGED <<store, check, cache, flags, gone>>

\* Phase 2: samples of the build phase 1 saw; the alias; the pointer.
Named(r) ==
  CASE r = "samples" -> check.build
    [] r = "vector"  -> store.vector
    [] r = "graph"   -> store.graph

Readback(r, fails) ==
  /\ r \in check.left
  /\ check' = [check EXCEPT !.left = @ \ {r},
                            !.ok = @ /\ ~fails /\ Named(r) # NoBuild,
                            !.seen = @ \cup {Named(r)}]
  /\ UNCHANGED <<store, cache, up, flags, gone>>

\* Mutant: the catalog is believed, whatever the pointers say.
ReadyCatalog == check.ok /\ check.build \in Healthy

\* _assemble: the three stores name one build, and its exports agree.
Ready == check.ok /\ check.seen = {check.build} /\ check.build \in Healthy

\* What start() and the assembly after it make of the first check.
Started == IF Ready /\ check.build \in Embeddable THEN "up" ELSE "failed"

\* coverage_flags: computed once, for the build of the first check.
OrgFlag == IF check.build \in OrgCovered THEN check.build ELSE NoBuild

CheckEnd ==
  /\ check.pc = "phase2" /\ check.left = {}
  /\ cache' = IF Ready THEN [build |-> check.build, age |-> 0] ELSE cache
  /\ up' = IF up = "starting" THEN Started ELSE up
  /\ flags' = IF up = "starting" /\ Started = "up" THEN OrgFlag ELSE flags
  /\ check' = Idle
  /\ UNCHANGED <<store, gone>>

\* runtime_startup_timeout, or any other failure of the assembly.
StartupFails ==
  /\ up = "starting"
  /\ up' = "failed" /\ check' = Idle
  /\ UNCHANGED <<store, cache, flags, gone>>

\* aclose() cancels the refresh task wherever it is.
Close ==
  /\ up = "up"
  /\ up' = "closed" /\ check' = Idle
  /\ UNCHANGED <<store, cache, flags, gone>>

\* Mutant: the age is not looked at.
GetSnapshotAny == IF up # "up" THEN NoBuild ELSE cache.build

GetSnapshot ==
  IF up # "up" \/ cache.age > MaxAge THEN NoBuild ELSE cache.build

\* The readbacks time out, so a check lasts no longer than CheckTicks.
Tick ==
  /\ check.pc # "idle" => check.age < CheckTicks
  /\ check' = [check EXCEPT !.age = IF check.pc = "idle" THEN 0 ELSE @ + 1]
  /\ cache' = [cache EXCEPT !.age = IF cache.build = NoBuild THEN 0 ELSE Older(@, MaxAge)]
  /\ gone' = [b \in Builds |-> IF b = store.catalog THEN 0 ELSE Older(gone[b], Horizon)]
  /\ UNCHANGED <<store, up, flags>>

Next ==
  \/ \E b \in Builds : SwitchGraph(b) \/ SwitchVector(b) \/ SwitchCatalog(b)
  \/ \E ranked \in BOOLEAN : CheckBegin(ranked)
  \/ CheckNoBuild
  \/ \E r \in Readbacks, fails \in BOOLEAN : Readback(r, fails)
  \/ CheckEnd \/ StartupFails \/ Close \/ Tick

\* Time passes, and a check that began ends: its readbacks have timeouts.  That
\* a readback ever succeeds, or a promotion goes on, is not assumed.
Fairness ==
  /\ WF_vars(Tick) /\ WF_vars(CheckEnd)
  /\ \A r \in Readbacks : WF_vars(\E fails \in BOOLEAN : Readback(r, fails))

Spec == Init /\ [][Next]_vars /\ Fairness

-----------------------------------------------------------------------------

\* The snapshot handed out is of a build that was ACTIVE, and stopped being so
\* at most MaxAge and one check ago: the stores switch one after the other, the
\* check reads them at different instants, checks fail for a while, and the
\* cache is read long after (LiveActiveSnapshotProvider.get_snapshot).
ServedWasActive == GetSnapshot # NoBuild => gone[GetSnapshot] <= Horizon

Split == Cardinality({store.catalog, store.graph, store.vector}) > 1

\* A promotion that stopped half way makes the service stop serving, however
\* often the readiness check is repeated (the provider is fail-closed).
SplitFailsClosed == (<>[]Split) => <>[](GetSnapshot = NoBuild)
=============================================================================
