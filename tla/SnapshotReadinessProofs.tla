----------------------- MODULE SnapshotReadinessProofs -----------------------
(***************************************************************************)
(* ServedWasActive for any builds, ages and lengths of a check.            *)
(*                                                                         *)
(* The property alone is not inductive: a snapshot that is cached now was  *)
(* true when its check began, and a check takes time.  The invariant       *)
(* bounds how long ago the build under check, and then the cached one,     *)
(* was ACTIVE by the age of the check and of the cache.                    *)
(***************************************************************************)
EXTENDS SnapshotReadiness, TLAPS

\* The shape of the state, as far as the argument needs it.
ShapeInv ==
  /\ store \in [{"catalog", "graph", "vector"} -> Builds \cup {NoBuild}]
  /\ check \in [pc : {"idle", "phase2"}, build : Builds \cup {NoBuild},
                seen : SUBSET (Builds \cup {NoBuild}), left : SUBSET Readbacks,
                ok : BOOLEAN, age : Nat]
  /\ cache \in [build : Builds \cup {NoBuild}, age : Nat]
  /\ gone \in [Builds -> Nat]

\* The ACTIVE build has not stopped being so.
ActiveInv == store.catalog # NoBuild => gone[store.catalog] = 0

\* The build a check is about was ACTIVE when the check began.
CheckedInv ==
  check.pc = "phase2" => /\ check.build \in Builds
                         /\ check.age <= CheckTicks
                         /\ gone[check.build] <= check.age

\* The cached build was ACTIVE when the check that cached it began.
CachedInv ==
  cache.build # NoBuild /\ cache.age <= MaxAge =>
    gone[cache.build] <= cache.age + CheckTicks

ServedInv == ShapeInv /\ ActiveInv /\ CheckedInv /\ CachedInv

-----------------------------------------------------------------------------
\* The clocks stop counting once they are past the bound of interest.
LEMMA OlderStep ==
  ASSUME NEW age \in Nat, NEW bound \in Nat
  PROVE  Older(age, bound) \in Nat /\ Older(age, bound) <= age + 1
         /\ (Older(age, bound) <= bound => Older(age, bound) = age + 1)
BY DEF Older

LEMMA InitServed == Init => ServedInv
<1> SUFFICES ASSUME Init PROVE ServedInv
  OBVIOUS
<1> USE BuildsAssumption, TicksAssumption
<1>1. PICK b \in Builds \cup {NoBuild} : store = [catalog |-> b, graph |-> b, vector |-> b]
  BY DEF Init
<1>2. ShapeInv
  BY <1>1 DEF Init, ShapeInv, Idle, Readbacks, Horizon
<1>3. ActiveInv /\ CheckedInv /\ CachedInv
  BY <1>1 DEF Init, ActiveInv, CheckedInv, CachedInv, Idle
<1> QED
  BY <1>2, <1>3 DEF ServedInv

\* The switches of a promotion: a build that becomes or stops being ACTIVE is
\* no older for it.
LEMMA SwitchServed ==
  ASSUME ServedInv, NEW b \in Builds, SwitchGraph(b) \/ SwitchVector(b) \/ SwitchCatalog(b)
  PROVE  ServedInv'
<1> USE BuildsAssumption, TicksAssumption
<1>1. ShapeInv' /\ ActiveInv' /\ UNCHANGED <<check, cache>>
  BY DEF ServedInv, ShapeInv, ActiveInv, SwitchGraph, SwitchVector, SwitchCatalog
<1>2. \A c \in Builds : gone'[c] <= gone[c]
  BY DEF ServedInv, ShapeInv, SwitchGraph, SwitchVector, SwitchCatalog
<1>3. CheckedInv'
  BY <1>1, <1>2 DEF ServedInv, ShapeInv, CheckedInv
<1>4. CachedInv'
  <2> SUFFICES ASSUME cache.build # NoBuild, cache.age <= MaxAge
               PROVE  gone'[cache.build] <= cache.age + CheckTicks
    BY <1>1 DEF CachedInv
  <2>1. cache.build \in Builds /\ gone[cache.build] <= cache.age + CheckTicks
    BY DEF ServedInv, ShapeInv, CachedInv
  <2> QED
    BY <2>1, <1>1, <1>2 DEF ServedInv, ShapeInv
<1> QED
  BY <1>1, <1>3, <1>4 DEF ServedInv

LEMMA CheckBeginServed ==
  ASSUME ServedInv, NEW ranked \in BOOLEAN, CheckBegin(ranked)
  PROVE  ServedInv'
<1> USE BuildsAssumption, TicksAssumption
<1>1. store.catalog \in Builds /\ check'.build = store.catalog /\ check'.age = 0
  BY DEF ServedInv, ShapeInv, CheckBegin
<1> QED
  BY <1>1 DEF ServedInv, ShapeInv, ActiveInv, CheckedInv, CachedInv, CheckBegin, Readbacks

LEMMA ReadbackServed ==
  ASSUME ServedInv, NEW r \in Readbacks, NEW fails \in BOOLEAN, Readback(r, fails)
  PROVE  ServedInv'
<1>1. Named(r) \in Builds \cup {NoBuild}
  BY DEF ServedInv, ShapeInv, Named, Readbacks
<1>2. check' \in [pc : {"idle", "phase2"}, build : Builds \cup {NoBuild},
                  seen : SUBSET (Builds \cup {NoBuild}), left : SUBSET Readbacks,
                  ok : BOOLEAN, age : Nat]
  BY <1>1 DEF ServedInv, ShapeInv, Readback
<1>3. check'.pc = check.pc /\ check'.build = check.build /\ check'.age = check.age
  BY DEF ServedInv, ShapeInv, Readback
<1> QED
  BY <1>2, <1>3 DEF ServedInv, ShapeInv, ActiveInv, CheckedInv, CachedInv, Readback

\* What a check caches was ACTIVE no longer ago than the check has lasted.
LEMMA CheckEndServed ==
  ASSUME ServedInv, CheckEnd
  PROVE  ServedInv'
<1> USE BuildsAssumption, TicksAssumption
<1>1. ShapeInv' /\ ActiveInv' /\ CheckedInv'
  BY DEF ServedInv, ShapeInv, ActiveInv, CheckedInv, CheckEnd, Idle, Readbacks
<1>2. gone[check.build] <= CheckTicks
  BY DEF ServedInv, ShapeInv, CheckedInv, CheckEnd
<1>3. CachedInv'
  BY <1>2 DEF ServedInv, ShapeInv, CheckedInv, CachedInv, CheckEnd
<1> QED
  BY <1>1, <1>3 DEF ServedInv

LEMMA TickServed ==
  ASSUME ServedInv, Tick
  PROVE  ServedInv'
<1> USE BuildsAssumption, TicksAssumption
<1>1. \A b \in Builds : gone'[b] \in Nat /\ gone'[b] <= gone[b] + 1
  BY OlderStep DEF ServedInv, ShapeInv, Tick, Horizon
<1>2. /\ cache'.build = cache.build
      /\ cache'.age \in Nat
      /\ cache.build # NoBuild /\ cache'.age <= MaxAge => cache'.age = cache.age + 1
  BY OlderStep DEF ServedInv, ShapeInv, Tick
<1>3. ShapeInv'
  <2>1. gone' \in [Builds -> Nat]
    BY <1>1 DEF Tick
  <2>2. cache' \in [build : Builds \cup {NoBuild}, age : Nat]
    BY <1>2 DEF ServedInv, ShapeInv, Tick
  <2> QED
    BY <2>1, <2>2 DEF ServedInv, ShapeInv, Tick
<1>4. ActiveInv'
  BY DEF ServedInv, ShapeInv, ActiveInv, Tick
<1>5. CheckedInv'
  BY <1>1 DEF ServedInv, ShapeInv, CheckedInv, Tick
<1>6. CachedInv'
  BY <1>1, <1>2 DEF ServedInv, ShapeInv, CachedInv
<1> QED
  BY <1>3, <1>4, <1>5, <1>6 DEF ServedInv

LEMMA StepServed == ServedInv /\ [Next]_vars => ServedInv'
<1> SUFFICES ASSUME ServedInv, [Next]_vars PROVE ServedInv'
  OBVIOUS
<1>1. CASE \E b \in Builds : SwitchGraph(b) \/ SwitchVector(b) \/ SwitchCatalog(b)
  BY <1>1, SwitchServed
<1>2. CASE \E ranked \in BOOLEAN : CheckBegin(ranked)
  BY <1>2, CheckBeginServed
<1>3. CASE \E r \in Readbacks, fails \in BOOLEAN : Readback(r, fails)
  BY <1>3, ReadbackServed
<1>4. CASE CheckEnd
  BY <1>4, CheckEndServed
<1>5. CASE StartupFails \/ Close \/ CheckNoBuild
  <2>1. UNCHANGED <<store, cache, gone>> /\ (check' = Idle \/ UNCHANGED check)
    BY <1>5 DEF StartupFails, Close, CheckNoBuild
  <2>2. CASE check' = Idle
    <3>1. ShapeInv'
      BY <2>1, <2>2 DEF ServedInv, ShapeInv, Idle
    <3>2. CheckedInv'
      BY <2>2 DEF CheckedInv, Idle
    <3> QED
      BY <2>1, <3>1, <3>2 DEF ServedInv, ActiveInv, CachedInv
  <2>3. CASE UNCHANGED check
    BY <2>1, <2>3 DEF ServedInv, ShapeInv, ActiveInv, CheckedInv, CachedInv
  <2> QED
    BY <2>1, <2>2, <2>3
<1>6. CASE Tick
  BY <1>6, TickServed
<1>7. CASE UNCHANGED vars
  BY <1>7 DEF vars, ServedInv, ShapeInv, ActiveInv, CheckedInv, CachedInv
<1> QED
  BY <1>1, <1>2, <1>3, <1>4, <1>5, <1>6, <1>7 DEF Next

-----------------------------------------------------------------------------
\* LiveActiveSnapshotProvider.get_snapshot never hands out a build that stopped
\* being ACTIVE longer ago than the maximal age of a snapshot and one check, for
\* any builds and bounds and wherever promotions stop.
THEOREM SnapshotsWereActive == Spec => []ServedWasActive
<1>1. ServedInv => ServedWasActive
  BY BuildsAssumption, TicksAssumption
  DEF ServedInv, ShapeInv, CachedInv, ServedWasActive, GetSnapshot, Horizon
<1> QED
  BY <1>1, InitServed, StepServed, PTL DEF Spec

=============================================================================
