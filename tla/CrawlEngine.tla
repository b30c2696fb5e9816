---------------------------- MODULE CrawlEngine ----------------------------
(***************************************************************************)
(* The crawl engine of one university and its SQLite store:                *)
(* src/dext/engine/{driver,workers,handlers,retry,seeds}.py,               *)
(* src/dext/storage/{writer,lifecycle}.py and cli.run_university.          *)
(*                                                                         *)
(* A driver claims graph nodes one at a time, fetches their pages (or      *)
(* replays them from the page cache) and dispatches them to two pools of   *)
(* workers: decision workers ask the LLM which links to follow and create  *)
(* child nodes, extract workers ask it for professors and save them.  All  *)
(* writes go through one writer coroutine, so every database operation is  *)
(* one atomic, durable step; between two of them other tasks run, and the  *)
(* process may be killed.  A later start resumes from the database.        *)
(*                                                                         *)
(* A node stands for its row and its pages: what the LLM and the browser   *)
(* answer is a nondeterministic choice.                                    *)
(***************************************************************************)
EXTENDS Naturals, FiniteSets

CONSTANTS
    Nodes,        \* the graph nodes that may ever be discovered
    Orgs,         \* the org units
    Kind,         \* Kind[n]: "listing", "unit", "faculty" (list), "page" (pagination, followup), "detail"
    Links,        \* Links[n]: the nodes a decision about n may create
    Priority,     \* Priority[n]: priority_score of n
    Org,          \* Org[n]: the org unit of a unit node or of a seed; NoOrg for others
    Twins,        \* Twins[n]: the other detail nodes with n's URL up to the scheme
    Seeds,        \* nodes the manifest seeds
    Synthetic,    \* seeded org units without a home page (about:org_unit:...)
    FormNodes,    \* form pagination: the page-cache key is not the node's URL
    FetchResults, \* the answers the bridge may give
    Deciders, Extractors,  \* the workers
    NoOrg, NoNode,
    MayRaise,     \* whether a decision (the LLM call) may raise
    MaxAttempts,  \* max_attempts of every node
    MaxStarts     \* bound: runs started in one behaviour

Kinds == {"listing", "unit", "faculty", "page", "detail"}
\* page: a usable page; empty, gone: pages that are terminally unavailable; the
\* others are failures without a page: skip (human_skip, off-site), invalid
\* (bad URL), transient (timeout, gateway, anything else).
Results == {"page", "empty", "gone", "skip", "invalid", "transient"}
NodeStatus == {"absent", "pending", "in_progress", "retry", "done", "failed", "skipped"}
RowStatus == {"none", "running", "succeeded", "failed", "retry", "skipped"}
OrgStatus == {"absent", "pending", "in_progress", "completed", "no_faculty_page"}
RunStatus == {"none", "running", "completed", "failed", "cancelled"}
UnivStatus == {"none", "pending", "in_progress", "completed", "failed"}

ASSUME EngineAssumption ==
    /\ Kind \in [Nodes -> Kinds]
    /\ Links \in [Nodes -> SUBSET Nodes]
    /\ Priority \in [Nodes -> Nat]
    /\ NoOrg \notin Orgs
    /\ Org \in [Nodes -> Orgs \cup {NoOrg}]
    /\ Twins \in [Nodes -> SUBSET Nodes]
    /\ \A n \in Nodes : \A m \in Twins[n] :
         m # n /\ Kind[m] = "detail" /\ Twins[m] = (Twins[n] \ {m}) \cup {n}
    /\ Seeds \subseteq Nodes
    /\ Synthetic \subseteq Seeds
    /\ FetchResults \subseteq Results
    /\ NoNode \notin Nodes
    /\ MayRaise \in BOOLEAN
    /\ MaxAttempts \in Nat
    /\ MaxStarts \in Nat

\* max(1, settings...): each pool has a worker.
ASSUME WorkersAssumption == Deciders # {} /\ Extractors # {}

VARIABLES
    \* The database.
    status,     \* status[n]: NodeStatus; "absent" when there is no row
    attempts,   \* attempts[n]: attempt_count
    owner,      \* owner[n]: org_unit_id
    cache,      \* cache[n]: the page_cache row under n's identity URL, or "none"
    profs,      \* the detail nodes whose professors are saved
    row,        \* row[n]: status of n's latest extraction attempt
    orgStatus,  \* orgStatus[o]: org_units.status
    runStatus,  \* status of the latest crawl_runs row
    univStatus, \* university_meta.crawl_status
    \* The process.
    proc,       \* where run_university and engine.run are
    target,     \* org_unit_ids of this run; empty: the whole university
    reset,      \* the --reset flag of this run
    todo,       \* what the current setup phase has left: org units to reset, seeds to load
    ending,     \* how the run ends: the summary's status, or an exception
    attempted,  \* _attempted_this_run
    driver,     \* the driver loop: pc, claimed node, its result, whether just fetched
    dq, eq,     \* decision_queue, extract_queue; a node is in a queue at most once
    dw, ew,     \* the workers: pc, node in hand, children to create, verdict, row
    \* History.
    decided,    \* decided[n]: the children the last decision about n asked for
    scope,      \* org_unit_ids of the run that the latest crawl_runs row records
    starts      \* runs started

crawlVars == <<status, attempts, owner, cache, profs, row, orgStatus, decided>>
runVars == <<runStatus, univStatus, scope>>
setupVars == <<target, reset, todo, ending, starts>>
engineVars == <<attempted, driver, dq, eq, dw, ew>>
vars == <<crawlVars, runVars, proc, setupVars, engineVars>>

Proc == {"off", "opened", "server", "reset", "seed", "bad", "begin", "crawl", "summary", "finish", "univ",
         "closing", "record", "recordUniv"}
WorkerPC == {"idle", "begin", "decide", "create", "close", "mark", "check", "record", "extract",
             "finish", "dead", "exited"}
Ending == {"none", "completed", "failed", "cancelled"}
Worker == [pc : WorkerPC, node : Nodes \cup {NoNode}, children : SUBSET Nodes,
           verdict : NodeStatus, row : RowStatus]
Driver == [pc : {"loop", "lookup", "fetch", "settle"}, node : Nodes \cup {NoNode},
           res : Results \cup {"none"}, fresh : BOOLEAN]
NoWork == [pc |-> "idle", node |-> NoNode, children |-> {}, verdict |-> "absent", row |-> "none"]
DriverLoop == [pc |-> "loop", node |-> NoNode, res |-> "none", fresh |-> FALSE]

TypeOK ==
    /\ status \in [Nodes -> NodeStatus]
    /\ attempts \in [Nodes -> 0..MaxAttempts]
    /\ owner \in [Nodes -> Orgs \cup {NoOrg}]
    /\ cache \in [Nodes -> Results \cup {"none"}]
    /\ profs \subseteq Nodes
    /\ row \in [Nodes -> RowStatus]
    /\ orgStatus \in [Orgs -> OrgStatus]
    /\ decided \in [Nodes -> SUBSET Nodes]
    /\ runStatus \in RunStatus
    /\ univStatus \in UnivStatus
    /\ proc \in Proc
    /\ target \subseteq Orgs
    /\ scope \subseteq Orgs
    /\ reset \in BOOLEAN
    /\ todo \subseteq Nodes \cup Orgs
    /\ ending \in Ending
    /\ starts \in 0..MaxStarts
    /\ attempted \subseteq Nodes
    /\ driver \in Driver
    /\ dq \subseteq Nodes
    /\ eq \subseteq Nodes
    /\ dw \in [Deciders -> Worker]
    /\ ew \in [Extractors -> Worker]

Present == {n \in Nodes : status[n] # "absent"}

\* The process's own state, gone when it ends.
ProcessIdle ==
    /\ attempted' = {}
    /\ driver' = DriverLoop
    /\ dq' = {}
    /\ eq' = {}
    /\ dw' = [w \in Deciders |-> NoWork]
    /\ ew' = [w \in Extractors |-> NoWork]

\* An empty database: what open_fresh leaves of a university.
Wiped ==
    /\ status' = [n \in Nodes |-> "absent"]
    /\ attempts' = [n \in Nodes |-> 0]
    /\ owner' = [n \in Nodes |-> NoOrg]
    /\ cache' = [n \in Nodes |-> "none"]
    /\ profs' = {}
    /\ row' = [n \in Nodes |-> "none"]
    /\ orgStatus' = [o \in Orgs |-> "absent"]
    /\ decided' = [n \in Nodes |-> {}]

Init ==
    /\ status = [n \in Nodes |-> "absent"]
    /\ attempts = [n \in Nodes |-> 0]
    /\ owner = [n \in Nodes |-> NoOrg]
    /\ cache = [n \in Nodes |-> "none"]
    /\ profs = {}
    /\ row = [n \in Nodes |-> "none"]
    /\ orgStatus = [o \in Orgs |-> "absent"]
    /\ decided = [n \in Nodes |-> {}]
    /\ runStatus = "none"
    /\ univStatus = "none"
    /\ scope = {}
    /\ proc = "off"
    /\ target = {}
    /\ reset = FALSE
    /\ todo = {}
    /\ ending = "none"
    /\ starts = 0
    /\ attempted = {}
    /\ driver = DriverLoop
    /\ dq = {}
    /\ eq = {}
    /\ dw = [w \in Deciders |-> NoWork]
    /\ ew = [w \in Extractors |-> NoWork]

-----------------------------------------------------------------------------
(***************************************************************************)
(* run_university: opening the database, then the setup of the run.        *)
(***************************************************************************)

\* open_fresh: the old database is moved away, a new one is created.
OpenFresh ==
    /\ proc = "off"
    /\ starts < MaxStarts
    /\ starts' = starts + 1
    /\ proc' = "opened"
    /\ Wiped
    /\ runStatus' = "none"
    /\ univStatus' = "pending"
    /\ scope' = {}
    /\ target' = {}
    /\ reset' = FALSE
    /\ UNCHANGED <<todo, ending, engineVars>>

\* Mutant of OpenResume: nodes left in progress are not reconciled.
OpenResumeKeepsNodes(T, r) ==
    /\ proc = "off" /\ starts < MaxStarts /\ univStatus # "none"
    /\ \A o \in T : orgStatus[o] # "absent"
    /\ starts' = starts + 1 /\ proc' = "opened" /\ target' = T /\ reset' = r
    /\ UNCHANGED <<crawlVars, runVars, todo, ending, engineVars>>

\* Mutant of OpenResume: running extraction attempts are not reconciled.
OpenResumeKeepsRows(T, r) ==
    /\ proc = "off" /\ starts < MaxStarts /\ univStatus # "none"
    /\ \A o \in T : orgStatus[o] # "absent"
    /\ starts' = starts + 1 /\ proc' = "opened" /\ target' = T /\ reset' = r
    /\ status' = [n \in Nodes |-> IF status[n] = "in_progress" THEN "retry" ELSE status[n]]
    /\ UNCHANGED <<attempts, owner, cache, profs, row, orgStatus, decided, runVars, todo, ending,
                   engineVars>>

\* open_resume and _validate_org_unit_ids: what a killed run left in progress
\* is made claimable again; unknown org units are refused.
OpenResume(T, r) ==
    /\ proc = "off"
    /\ starts < MaxStarts
    /\ univStatus # "none"
    /\ \A o \in T : orgStatus[o] # "absent"
    /\ starts' = starts + 1
    /\ proc' = "opened"
    /\ status' = [n \in Nodes |-> IF status[n] = "in_progress" THEN "retry" ELSE status[n]]
    /\ orgStatus' = [o \in Orgs |-> IF orgStatus[o] = "in_progress" THEN "pending" ELSE orgStatus[o]]
    /\ row' = [n \in Nodes |-> IF row[n] = "running" THEN "retry" ELSE row[n]]
    /\ target' = T
    /\ reset' = r
    /\ UNCHANGED <<attempts, owner, cache, profs, decided, runVars, todo, ending, engineVars>>

StartRun ==
    /\ proc = "opened"
    /\ runStatus' = "running"
    /\ scope' = target
    /\ proc' = "server"
    /\ UNCHANGED <<crawlVars, univStatus, setupVars, engineVars>>

\* run_server: the bridge listens, and the resets of `--reset -oid` come next.
ServerUp ==
    /\ proc = "server"
    /\ IF reset THEN /\ proc' = "reset"
                     /\ todo' = target
                ELSE /\ proc' = "seed"
                     /\ todo' = Seeds
    /\ UNCHANGED <<crawlVars, runVars, target, reset, ending, starts, engineVars>>

\* run_server raises (the port is taken): the run is recorded as failed.
ServerFails ==
    /\ proc = "server"
    /\ proc' = "record"
    /\ ending' = "failed"
    /\ UNCHANGED <<crawlVars, runVars, target, reset, todo, starts, engineVars>>

\* _reset_org_unit_subtree: what was discovered below the org unit is deleted,
\* its entry points start over.  Cache rows are looked up by the nodes' URL.
Deletable(o) == {n \in Present : owner[n] = o /\ Kind[n] \in {"page", "detail"}}
Entrypoints(o) == {n \in Present : owner[n] = o /\ Kind[n] \in {"unit", "faculty"}}
CacheByUrl(N) == N \ FormNodes

ResetSubtree(o) ==
    /\ proc = "reset"
    /\ o \in todo
    /\ todo' = todo \ {o}
    /\ status' = [n \in Nodes |-> CASE n \in Deletable(o) -> "absent"
                                    [] n \in Entrypoints(o) -> "pending"
                                    [] OTHER -> status[n]]
    /\ attempts' = [n \in Nodes |-> IF n \in Deletable(o) \cup Entrypoints(o) THEN 0 ELSE attempts[n]]
    /\ owner' = [n \in Nodes |-> IF n \in Deletable(o) THEN NoOrg ELSE owner[n]]
    /\ cache' = [n \in Nodes |->
                   IF n \in CacheByUrl(Deletable(o) \cup Entrypoints(o)) THEN "none" ELSE cache[n]]
    /\ row' = [n \in Nodes |-> IF n \in Deletable(o) THEN "none" ELSE row[n]]
    /\ decided' = [n \in Nodes |-> decided[n] \ Deletable(o)]
    /\ orgStatus' = [orgStatus EXCEPT ![o] = "pending"]
    /\ UNCHANGED <<profs, runVars, proc, target, reset, ending, starts, engineVars>>

ResetsDone ==
    /\ proc = "reset"
    /\ todo = {}
    /\ proc' = "seed"
    /\ todo' = Seeds
    /\ UNCHANGED <<crawlVars, runVars, target, reset, ending, starts, engineVars>>

\* Mutant of Upsert: rediscovery resets the status.
UpsertResets(n, o, st) ==
    /\ status' = [status EXCEPT ![n] = st]
    /\ owner' = [owner EXCEPT ![n] = IF @ = NoOrg THEN o ELSE @]
    /\ UNCHANGED orgStatus

\* _upsert_org_unit and _upsert_node.  An existing row keeps its status and its
\* attempts; its owner is only filled in.
Upsert(n, o, st) ==
    /\ status' = [status EXCEPT ![n] = IF @ = "absent" THEN st ELSE @]
    /\ owner' = [owner EXCEPT ![n] = IF @ = NoOrg THEN o ELSE @]
    /\ orgStatus' = [p \in Orgs |-> IF p = o /\ orgStatus[p] = "absent" THEN "pending"
                                    ELSE orgStatus[p]]

\* load_seed_nodes, one node: an org unit without a home page is not crawled.
LoadSeed(n) ==
    /\ proc = "seed"
    /\ n \in todo
    /\ todo' = todo \ {n}
    /\ Upsert(n, Org[n], IF n \in Synthetic THEN "skipped" ELSE "pending")
    /\ UNCHANGED <<attempts, cache, profs, row, decided, runVars, proc, target, reset, ending,
                   starts, engineVars>>

SeedsDone ==
    /\ proc = "seed"
    /\ todo = {}
    /\ proc' = IF reset /\ target = {} THEN "bad" ELSE "begin"
    /\ UNCHANGED <<crawlVars, runVars, setupVars, engineVars>>

\* _reset_bad_detail_snapshots: details whose cached text is blank or missing.
BadSnapshots == {n \in Present : Kind[n] = "detail" /\ cache[n] \notin {"none", "page", "gone"}}

ResetBad ==
    /\ proc = "bad"
    /\ proc' = "begin"
    /\ status' = [n \in Nodes |-> IF n \in BadSnapshots THEN "pending" ELSE status[n]]
    /\ attempts' = [n \in Nodes |-> IF n \in BadSnapshots THEN 0 ELSE attempts[n]]
    /\ cache' = [n \in Nodes |-> IF n \in BadSnapshots THEN "none" ELSE cache[n]]
    /\ UNCHANGED <<owner, profs, row, orgStatus, decided, runVars, setupVars, engineVars>>

\* engine.run starts: a whole-university run is in progress.
BeginCrawl ==
    /\ proc = "begin"
    /\ proc' = "crawl"
    /\ univStatus' = IF target = {} THEN "in_progress" ELSE univStatus
    /\ UNCHANGED <<crawlVars, runStatus, scope, setupVars, engineVars>>

-----------------------------------------------------------------------------
(***************************************************************************)
(* The driver loop.                                                        *)
(***************************************************************************)

InScope(n) == target = {} \/ owner[n] \in target

\* The conditions of _claim_next.
Claimable == {n \in Nodes : /\ status[n] \in {"pending", "retry"}
                            /\ attempts[n] < MaxAttempts
                            /\ InScope(n)
                            /\ n \notin attempted}

\* claim_next: the claim is an attempt, and there is one per node and run.
DClaim(n) ==
    /\ proc = "crawl"
    /\ driver.pc = "loop"
    /\ n \in Claimable
    /\ \A m \in Claimable : Priority[m] <= Priority[n]
    /\ status' = [status EXCEPT ![n] = "in_progress"]
    /\ attempts' = [attempts EXCEPT ![n] = @ + 1]
    /\ attempted' = attempted \cup {n}
    /\ driver' = [DriverLoop EXCEPT !.pc = "lookup", !.node = n]
    /\ UNCHANGED <<owner, cache, profs, row, orgStatus, decided, runVars, proc, setupVars, dq, eq,
                   dw, ew>>

\* get_page_cache: a cached answer, a failed one too, is used again.
DLookup ==
    /\ proc = "crawl"
    /\ driver.pc = "lookup"
    /\ driver' = IF cache[driver.node] = "none"
                 THEN [driver EXCEPT !.pc = "fetch"]
                 ELSE [driver EXCEPT !.pc = "settle", !.res = cache[driver.node]]
    /\ UNCHANGED <<crawlVars, runVars, proc, setupVars, attempted, dq, eq, dw, ew>>

\* The bridge answers; the answer is cached, whatever it is.
DFetched(r) ==
    /\ proc = "crawl"
    /\ driver.pc = "fetch"
    /\ cache' = [cache EXCEPT ![driver.node] = r]
    /\ driver' = [driver EXCEPT !.pc = "settle", !.res = r, !.fresh = TRUE]
    /\ UNCHANGED <<status, attempts, owner, profs, row, orgStatus, decided, runVars, proc,
                   setupVars, attempted, dq, eq, dw, ew>>

\* classify_fetch_failure and assess_terminal_unavailable_page.
FetchVerdict(r) == CASE r \in {"empty", "gone", "skip"} -> "skipped"
                     [] r = "invalid" -> "failed"
                     [] r = "transient" -> "retry"

\* _process_fresh_result, _process_cached_result: a usable page goes to a queue,
\* any other answer settles the node.
DDispatch ==
    /\ proc = "crawl"
    /\ driver.pc = "settle"
    /\ driver.res = "page"
    /\ dq' = IF Kind[driver.node] = "detail" THEN dq ELSE dq \cup {driver.node}
    /\ eq' = IF Kind[driver.node] = "detail" THEN eq \cup {driver.node} ELSE eq
    /\ driver' = DriverLoop
    /\ UNCHANGED <<crawlVars, runVars, proc, setupVars, attempted, dw, ew>>

DSettle ==
    /\ proc = "crawl"
    /\ driver.pc = "settle"
    /\ driver.res # "page"
    /\ status' = [status EXCEPT ![driver.node] = FetchVerdict(driver.res)]
    /\ driver' = DriverLoop
    /\ UNCHANGED <<attempts, owner, cache, profs, row, orgStatus, decided, runVars, proc,
                   setupVars, attempted, dq, eq, dw, ew>>

\* Mutant of InFlight: a worker counts itself after its first await.
InFlightLate(workers) ==
    {w \in DOMAIN workers : workers[w].pc \notin {"idle", "dead", "exited", "begin", "decide", "check"}}

\* The in_flight counters of the two InFlightTrackers.
InFlight(workers) == {w \in DOMAIN workers : workers[w].pc \notin {"idle", "dead", "exited"}}

\* Mutant of DExit: waits for every node to be settled.
DExitWhenSettled ==
    /\ proc = "crawl" /\ driver.pc = "loop"
    /\ \A n \in Nodes : status[n] \notin {"pending", "retry"}
    /\ dq = {} /\ eq = {}
    /\ InFlight(dw) = {} /\ InFlight(ew) = {}
    /\ proc' = "summary"
    /\ UNCHANGED <<crawlVars, runVars, setupVars, engineVars>>

\* Nothing claimable, nothing queued, nothing in flight: the loop returns.
DExit ==
    /\ proc = "crawl"
    /\ driver.pc = "loop"
    /\ Claimable = {}
    /\ dq = {} /\ eq = {}
    /\ InFlight(dw) = {} /\ InFlight(ew) = {}
    /\ proc' = "summary"
    /\ UNCHANGED <<crawlVars, runVars, setupVars, engineVars>>

-----------------------------------------------------------------------------
(***************************************************************************)
(* Decision workers: handle_org_listing, handle_org_unit and               *)
(* handle_faculty_page.                                                    *)
(***************************************************************************)

Live == proc \notin {"off", "record", "recordUniv"}

\* The worker gets a task and counts itself in flight in the same step.
Take(w, n) ==
    /\ Live
    /\ dw[w].pc = "idle"
    /\ n \in dq
    /\ dq' = dq \ {n}
    /\ dw' = [dw EXCEPT ![w] = [NoWork EXCEPT !.node = n,
                                              !.pc = IF Kind[n] = "unit" THEN "begin" ELSE "decide"]]
    /\ UNCHANGED <<crawlVars, runVars, proc, setupVars, attempted, driver, eq, ew>>

\* handle_org_unit marks its org unit in progress.
BeginUnit(w) ==
    /\ Live
    /\ dw[w].pc = "begin"
    /\ orgStatus' = [orgStatus EXCEPT ![owner[dw[w].node]] = "in_progress"]
    /\ dw' = [dw EXCEPT ![w].pc = "decide"]
    /\ UNCHANGED <<status, attempts, owner, cache, profs, row, decided, runVars, proc, setupVars,
                   attempted, driver, dq, eq, ew>>

\* The statuses a decision to create the children C may lead to.  A faculty
\* page is retried when the LLM's answer does not parse or names no link.
DecisionVerdicts(n, C) ==
    CASE Kind[n] = "listing" -> {"done"}
      [] Kind[n] = "unit" -> IF C = {} THEN {"skipped"} ELSE {"done"}
      [] OTHER -> {"done", "retry"}

\* decide_links answers: the children to create and the node's verdict.
Decide(w) ==
    /\ Live
    /\ dw[w].pc = "decide"
    /\ LET n == dw[w].node IN
       \E C \in SUBSET Links[n] : \E v \in DecisionVerdicts(n, C) :
         /\ decided' = [decided EXCEPT ![n] = C]
         /\ dw' = [dw EXCEPT ![w] = [@ EXCEPT !.pc = "create", !.children = C, !.verdict = v]]
    /\ UNCHANGED <<status, attempts, owner, cache, profs, row, orgStatus, runVars, proc, setupVars,
                   attempted, driver, dq, eq, ew>>

\* The LLM excludes the whole page: no children, and the node is skipped.
Exclude(w) ==
    /\ Live
    /\ dw[w].pc = "decide"
    /\ Kind[dw[w].node] # "listing"
    /\ decided' = [decided EXCEPT ![dw[w].node] = {}]
    /\ dw' = [dw EXCEPT ![w] = [@ EXCEPT !.pc = "create", !.verdict = "skipped"]]
    /\ UNCHANGED <<status, attempts, owner, cache, profs, row, orgStatus, runVars, proc, setupVars,
                   attempted, driver, dq, eq, ew>>

\* The LLM call raises: the worker's task ends, its node stays in progress.
DecideRaises(w) ==
    /\ Live
    /\ MayRaise
    /\ dw[w].pc = "decide"
    /\ dw' = [dw EXCEPT ![w].pc = "dead"]
    /\ UNCHANGED <<crawlVars, runVars, proc, setupVars, attempted, driver, dq, eq, ew>>

\* _create_child: a child belongs to its parent's org unit, an org unit to itself.
ChildOrg(n, c) == IF Kind[c] = "unit" THEN Org[c] ELSE owner[n]

CreateChild(w, c) ==
    /\ Live
    /\ dw[w].pc = "create"
    /\ c \in dw[w].children
    /\ Upsert(c, ChildOrg(dw[w].node, c), "pending")
    /\ dw' = [dw EXCEPT ![w].children = @ \ {c}]
    /\ UNCHANGED <<attempts, cache, profs, row, decided, runVars, proc, setupVars, attempted,
                   driver, dq, eq, ew>>

\* Mutant of CloseUnit: the node is marked while children are still to be created.
CloseUnitEarly(w) ==
    /\ Live
    /\ dw[w].pc = "create"
    /\ dw' = [dw EXCEPT ![w].pc = "mark"]
    /\ UNCHANGED <<crawlVars, runVars, proc, setupVars, attempted, driver, dq, eq, ew>>

\* All children exist; a unit's handler now records what became of the org unit.
CloseUnit(w) ==
    /\ Live
    /\ dw[w].pc = "create"
    /\ dw[w].children = {}
    /\ LET n == dw[w].node IN
         orgStatus' = IF Kind[n] # "unit" THEN orgStatus
                      ELSE [orgStatus EXCEPT ![owner[n]] =
                              IF dw[w].verdict = "done" THEN "completed" ELSE "no_faculty_page"]
    /\ dw' = [dw EXCEPT ![w].pc = "mark"]
    /\ UNCHANGED <<status, attempts, owner, cache, profs, row, decided, runVars, proc, setupVars,
                   attempted, driver, dq, eq, ew>>

\* mark_node; the worker is no longer in flight.
MarkDecided(w) ==
    /\ Live
    /\ dw[w].pc = "mark"
    /\ status' = [status EXCEPT ![dw[w].node] = dw[w].verdict]
    /\ dw' = [dw EXCEPT ![w] = NoWork]
    /\ UNCHANGED <<attempts, owner, cache, profs, row, orgStatus, decided, runVars, proc, setupVars,
                   attempted, driver, dq, eq, ew>>

-----------------------------------------------------------------------------
(***************************************************************************)
(* Extract workers: process_extract_task.                                  *)
(***************************************************************************)

TakeDetail(w, n) ==
    /\ Live
    /\ ew[w].pc = "idle"
    /\ n \in eq
    /\ eq' = eq \ {n}
    /\ ew' = [ew EXCEPT ![w] = [NoWork EXCEPT !.node = n, !.pc = "check"]]
    /\ UNCHANGED <<crawlVars, runVars, proc, setupVars, attempted, driver, dq, dw>>

\* Mutant of CheckTwin: a twin that is only in progress counts as extracted.
CheckTwinAnyStatus(w) ==
    /\ Live
    /\ ew[w].pc = "check"
    /\ ew' = [ew EXCEPT ![w] =
                IF \E m \in Twins[@.node] : status[m] \in {"done", "in_progress"}
                THEN [@ EXCEPT !.pc = "record", !.verdict = "done", !.row = "skipped"]
                ELSE [@ EXCEPT !.pc = "record"]]
    /\ UNCHANGED <<crawlVars, runVars, proc, setupVars, attempted, driver, dq, eq, dw>>

\* find_done_detail_node_for_url: a page extracted under its other scheme is reused.
CheckTwin(w) ==
    /\ Live
    /\ ew[w].pc = "check"
    /\ ew' = [ew EXCEPT ![w] =
                IF \E m \in Twins[@.node] : status[m] = "done"
                THEN [@ EXCEPT !.pc = "record", !.verdict = "done", !.row = "skipped"]
                ELSE [@ EXCEPT !.pc = "record"]]
    /\ UNCHANGED <<crawlVars, runVars, proc, setupVars, attempted, driver, dq, eq, dw>>

\* record_extraction_attempt.
RecordAttempt(w) ==
    /\ Live
    /\ ew[w].pc = "record"
    /\ row' = [row EXCEPT ![ew[w].node] = "running"]
    /\ ew' = [ew EXCEPT ![w].pc = IF ew[w].verdict = "done" THEN "finish" ELSE "extract"]
    /\ UNCHANGED <<status, attempts, owner, cache, profs, orgStatus, decided, runVars, proc,
                   setupVars, attempted, driver, dq, eq, dw>>

\* extract_professors found professors and save_professors stored them all.
ExtractSaved(w) ==
    /\ Live
    /\ ew[w].pc = "extract"
    /\ profs' = profs \cup {ew[w].node}
    /\ ew' = [ew EXCEPT ![w] = [@ EXCEPT !.pc = "finish", !.verdict = "done", !.row = "succeeded"]]
    /\ UNCHANGED <<status, attempts, owner, cache, row, orgStatus, decided, runVars, proc,
                   setupVars, attempted, driver, dq, eq, dw>>

\* Any other outcome: excluded, a failure to retry, or a failure (an exception
\* and a record that cannot be saved included).
ExtractFails(w, v) ==
    /\ Live
    /\ ew[w].pc = "extract"
    /\ ew' = [ew EXCEPT ![w] = [@ EXCEPT !.pc = "finish", !.verdict = v, !.row = v]]
    /\ UNCHANGED <<crawlVars, runVars, proc, setupVars, attempted, driver, dq, eq, dw>>

\* finish_extraction_attempt.
FinishAttempt(w) ==
    /\ Live
    /\ ew[w].pc = "finish"
    /\ row' = [row EXCEPT ![ew[w].node] = ew[w].row]
    /\ ew' = [ew EXCEPT ![w].pc = "mark"]
    /\ UNCHANGED <<status, attempts, owner, cache, profs, orgStatus, decided, runVars, proc,
                   setupVars, attempted, driver, dq, eq, dw>>

MarkExtracted(w) ==
    /\ Live
    /\ ew[w].pc = "mark"
    /\ status' = [status EXCEPT ![ew[w].node] = ew[w].verdict]
    /\ ew' = [ew EXCEPT ![w] = NoWork]
    /\ UNCHANGED <<attempts, owner, cache, profs, row, orgStatus, decided, runVars, proc, setupVars,
                   attempted, driver, dq, eq, dw>>

-----------------------------------------------------------------------------
(***************************************************************************)
(* The end of a run.                                                       *)
(***************************************************************************)

\* Mutant of Blocking: nodes waiting for a retry do not fail the run.
BlockingNotRetry == {n \in Nodes : InScope(n) /\ status[n] \in {"failed", "pending", "in_progress"}}

\* _build_summary: anything left to do, or failed, in scope fails the run.
Blocking == {n \in Nodes : InScope(n) /\ status[n] \in {"failed", "retry", "pending", "in_progress"}}

BuildSummary ==
    /\ proc = "summary"
    /\ ending' = IF Blocking = {} THEN "completed" ELSE "failed"
    /\ proc' = "finish"
    /\ UNCHANGED <<crawlVars, runVars, target, reset, todo, starts, engineVars>>

FinishRun ==
    /\ proc = "finish"
    /\ runStatus' = ending
    /\ proc' = "univ"
    /\ UNCHANGED <<crawlVars, univStatus, scope, setupVars, engineVars>>

FinishUniversity ==
    /\ proc = "univ"
    /\ univStatus' = IF target = {} THEN ending ELSE univStatus
    /\ proc' = "closing"
    /\ UNCHANGED <<crawlVars, runStatus, scope, setupVars, engineVars>>

\* A worker gets its None sentinel, which is behind every task of its queue.
ExitDecider(w) ==
    /\ proc = "closing"
    /\ dw[w].pc = "idle"
    /\ dq = {}
    /\ dw' = [dw EXCEPT ![w].pc = "exited"]
    /\ UNCHANGED <<crawlVars, runVars, proc, setupVars, attempted, driver, dq, eq, ew>>

ExitExtractor(w) ==
    /\ proc = "closing"
    /\ ew[w].pc = "idle"
    /\ eq = {}
    /\ ew' = [ew EXCEPT ![w].pc = "exited"]
    /\ UNCHANGED <<crawlVars, runVars, proc, setupVars, attempted, driver, dq, eq, dw>>

\* The queues' join(): each worker has consumed its sentinel.
Joined == /\ \A w \in Deciders : dw[w].pc = "exited"
          /\ \A w \in Extractors : ew[w].pc = "exited"

ProcessEnds ==
    /\ proc' = "off"
    /\ target' = {}
    /\ reset' = FALSE
    /\ todo' = {}
    /\ ending' = "none"
    /\ ProcessIdle

Closed ==
    /\ proc = "closing"
    /\ Joined
    /\ IF ending = "cancelled"
       THEN /\ proc' = "record"
            /\ UNCHANGED <<target, reset, todo, ending, engineVars>>
       ELSE ProcessEnds
    /\ UNCHANGED <<crawlVars, runVars, starts>>

\* _safe_finish_run, after a cancellation or an exception.
RecordRun ==
    /\ proc = "record"
    /\ runStatus' = ending
    /\ proc' = "recordUniv"
    /\ UNCHANGED <<crawlVars, univStatus, scope, setupVars, engineVars>>

RecordUniversity ==
    /\ proc = "recordUniv"
    /\ univStatus' = IF target = {} THEN "failed" ELSE univStatus
    /\ ProcessEnds
    /\ UNCHANGED <<crawlVars, runStatus, scope, starts>>

\* Ctrl-C cancels run_university.  In the crawl it stops the driver, and
\* engine.run's finally clause lets the workers drain their queues; in the
\* finally clause of a run that ended by itself it abandons the wait.
Cancel ==
    /\ proc \in {"opened", "server", "reset", "seed", "bad", "begin", "crawl", "summary", "finish",
                 "univ", "closing"}
    /\ ending # "cancelled"
    /\ IF proc = "opened"
       THEN ProcessEnds
       ELSE /\ ending' = "cancelled"
            /\ proc' = IF proc \in {"crawl", "summary", "finish", "univ"} THEN "closing" ELSE "record"
            /\ driver' = DriverLoop
            /\ UNCHANGED <<target, reset, todo, attempted, dq, eq, dw, ew>>
    /\ UNCHANGED <<crawlVars, runVars, starts>>

\* The process is killed: only the database is left.
Crash ==
    /\ proc # "off"
    /\ ProcessEnds
    /\ UNCHANGED <<crawlVars, runVars, starts>>

-----------------------------------------------------------------------------

Setup ==
    \/ StartRun \/ ServerUp \/ ServerFails
    \/ \E o \in Orgs : ResetSubtree(o)
    \/ ResetsDone
    \/ \E n \in Nodes : LoadSeed(n)
    \/ SeedsDone \/ ResetBad \/ BeginCrawl

DriverStep ==
    \/ \E n \in Nodes : DClaim(n)
    \/ DLookup
    \/ \E r \in FetchResults : DFetched(r)
    \/ DDispatch \/ DSettle \/ DExit

DeciderStep(w) ==
    \/ \E n \in Nodes : Take(w, n)
    \/ BeginUnit(w) \/ Decide(w) \/ Exclude(w)
    \/ DecideRaises(w)
    \/ \E c \in Nodes : CreateChild(w, c)
    \/ CloseUnit(w) \/ MarkDecided(w) \/ ExitDecider(w)

ExtractorStep(w) ==
    \/ \E n \in Nodes : TakeDetail(w, n)
    \/ CheckTwin(w) \/ RecordAttempt(w) \/ ExtractSaved(w)
    \/ \E v \in {"skipped", "retry", "failed"} : ExtractFails(w, v)
    \/ FinishAttempt(w) \/ MarkExtracted(w) \/ ExitExtractor(w)

Wrapup == BuildSummary \/ FinishRun \/ FinishUniversity \/ Closed \/ RecordRun \/ RecordUniversity

Next ==
    \/ OpenFresh
    \/ \E T \in SUBSET Orgs, r \in BOOLEAN : OpenResume(T, r)
    \/ Setup \/ DriverStep \/ Wrapup
    \/ \E w \in Deciders : DeciderStep(w)
    \/ \E w \in Extractors : ExtractorStep(w)
    \/ Cancel \/ Crash

Spec == Init /\ [][Next]_vars

\* The event loop runs every task that is ready; the LLM and the bridge answer.
Fairness ==
    /\ WF_vars(Setup) /\ WF_vars(DriverStep) /\ WF_vars(Wrapup)
    /\ \A w \in Deciders : WF_vars(DeciderStep(w))
    /\ \A w \in Extractors : WF_vars(ExtractorStep(w))

FairSpec == Spec /\ Fairness

-----------------------------------------------------------------------------
(***************************************************************************)
(* Correctness.                                                            *)
(***************************************************************************)

\* The nodes in somebody's hands: the driver's, a queue's or a worker's.
Held == ({driver.node} \cup dq \cup eq \cup {dw[w].node : w \in Deciders}
                       \cup {ew[w].node : w \in Extractors}) \ {NoNode}

\* A node is in one pair of hands at most, and only while its row says
\* in_progress: no page is decided or extracted twice at the same time.
HeldOnce ==
    /\ dq \cap eq = {}
    /\ driver.node \notin dq \cup eq
    /\ \A w \in Deciders : dw[w].node # NoNode =>
         /\ dw[w].node \notin dq \cup eq \cup {driver.node}
         /\ \A v \in Deciders : dw[v].node = dw[w].node => v = w
    /\ \A w \in Extractors : ew[w].node # NoNode =>
         /\ ew[w].node \notin dq \cup eq \cup {driver.node}
         /\ \A v \in Extractors : ew[v].node = ew[w].node => v = w
         /\ \A v \in Deciders : dw[v].node # ew[w].node
    /\ \A n \in Held : status[n] = "in_progress"

\* The nodes that somebody will still settle: the driver's and the live workers', and
\* those in a queue that a live worker reads.
Attended ==
    {driver.node}
    \cup {n \in dq : \E w \in Deciders : dw[w].pc \notin {"dead", "exited"}}
    \cup {n \in eq : \E w \in Extractors : ew[w].pc \notin {"dead", "exited"}}
    \cup {dw[w].node : w \in {v \in Deciders : dw[v].pc # "dead"}}
    \cup {ew[w].node : w \in {v \in Extractors : ew[v].pc # "dead"}}

\* What decisions that raised have left behind: the node of a worker that died of it and,
\* when no decision worker is left, the nodes that were waiting for one.
LeftByRaise ==
    {dw[w].node : w \in {v \in Deciders : dw[v].pc = "dead"}}
    \cup (IF \A w \in Deciders : dw[w].pc = "dead" THEN dq ELSE {})

\* A running process that was not cancelled will still settle every in_progress node, but
\* for those that a decision that raised has left behind: neither the driver nor a live
\* worker forgets a node, and an extract worker never leaves one.  In a process that has
\* just resumed nobody has anything in hand, so there it says that no node is in_progress:
\* what killed, cancelled and raising runs left behind is given back.
NothingStranded ==
    proc # "off" /\ ending # "cancelled" =>
        \A n \in Nodes : status[n] = "in_progress" => n \in Attended \cup LeftByRaise

\* The driver loop ends only when the crawl is quiet: nothing that a worker
\* still does can add work, and no node in scope was never attempted.
QuietAtExit ==
    proc \in {"summary", "finish", "univ"} =>
        /\ dq = {} /\ eq = {} /\ driver = DriverLoop
        /\ \A w \in Deciders : dw[w].pc \in {"idle", "dead"}
        /\ \A w \in Extractors : ew[w].pc = "idle"
        /\ MaxAttempts > 0 => \A n \in Nodes : InScope(n) => status[n] # "pending"

\* A run recorded as completed has left no work: every node in its scope is done
\* or skipped, and so are the nodes its decisions asked for, if in scope too.
Covered(n) == scope = {} \/ owner[n] \in scope
CompletedIsComplete ==
    runStatus = "completed" => \A n \in Nodes : Covered(n) =>
        /\ status[n] \in {"absent", "done", "skipped"}
        /\ status[n] = "done" => \A c \in decided[n] : Covered(c) => status[c] \in {"done", "skipped"}

\* The children that the decision about a node asked for exist before the node
\* is done, so a crash never loses a discovered page.
NoLostChild == \A n \in Nodes : status[n] = "done" => decided[n] \subseteq Present

\* A detail node is done only when its professors are saved, under this node
\* or under the node it was found to duplicate.
DoneDetailSaved ==
    \A n \in Nodes : status[n] = "done" /\ Kind[n] = "detail" =>
        n \in profs \/ Twins[n] \cap profs # {}

\* The extraction log agrees with the graph: an attempt is running only for a
\* node in progress, and one recorded as succeeded has saved its professors.
RowsAgree ==
    \A n \in Nodes : /\ row[n] = "running" => status[n] = "in_progress"
                     /\ row[n] = "succeeded" => n \in profs

\* A settled node stays settled: only a new database or a reset reopens it.
\* Discovering it again, replaying it or resuming the crawl does not.
SettledStays ==
    [][\A n \in Nodes : status[n] \in {"done", "failed", "skipped"} /\ status'[n] # status[n]
           => proc \in {"off", "reset", "bad"} /\ (proc = "off" => OpenFresh)]_vars

\* A run that is started ends, or a decision raises and kills its worker: as long as every
\* worker lives, the driver's exit test, the queues' joins and the workers' sentinels never
\* wait on each other.  A dead worker never takes its sentinel, and its run waits at the
\* joins of run's finally clause (or in the driver loop, when none is left) until it is
\* interrupted or killed, so without the second outcome this would be false of the code.
RunEnds == proc # "off" ~> proc = "off" \/ \E w \in Deciders : dw[w].pc = "dead"
=============================================================================
