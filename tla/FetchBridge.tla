---------------------------- MODULE FetchBridge ----------------------------
(***************************************************************************)
(* The fetch bridge between the crawl engine and the browser extension:    *)
(* src/dext/bridge/{queue,fetcher,health,server}.py.                       *)
(*                                                                         *)
(* A fetcher (the crawl driver) calls fetch(), which queues a job and      *)
(* polls for its answer.  The browser takes jobs one at a time and answers *)
(* with complete, fail, skip or override; its answers may be late, repeated*)
(* or missing.  The wait times out, but only time during which the browser *)
(* is known to be alive (a recent heartbeat) is counted.                   *)
(*                                                                         *)
(* Everything runs in one asyncio loop, so each handler, and each turn of  *)
(* the polling loop, is one atomic step.                                   *)
(***************************************************************************)
EXTENDS Naturals, FiniteSets

CONSTANTS
    Fetchers,     \* callers of fetch()
    Urls,         \* the URLs jobs and answers may carry
    AllowedUrls,  \* those is_allowed_fetch_host accepts
    PortUrls,     \* those has_explicit_port reports
    Reasons,      \* non-blank texts a client sends with fail or skip
    Unset,        \* a future or an outcome that has no value yet
    MaxJobs,      \* bound: jobs created in one behaviour
    Timeout,      \* fetch_timeout_seconds, in ticks
    Stale,        \* heartbeat stale_after_seconds, in ticks
    PollGap       \* most ticks between two turns of the polling loop

ASSUME BridgeAssumption ==
    /\ AllowedUrls \subseteq Urls
    /\ PortUrls \subseteq Urls
    /\ MaxJobs \in Nat
    /\ Timeout \in Nat \ {0}
    /\ PollGap \in Nat \ {0}
    /\ Stale \in Nat
    /\ PollGap <= Stale       \* 0.05 s against 15 s in the code
    /\ Urls # {}
    /\ "none" \notin Reasons
    /\ "timeout" \notin Reasons

Jobs == 1..MaxJobs
NoJob == 0
Verdicts == {"completed", "failed", "skipped"}
JobStatus == {"none", "pending", "assigned"} \cup Verdicts
Blocks == Reasons \cup {"none", "timeout", "human_failed", "human_skip",
                        "invalid_url:explicit_port"}

\* A FetchResult: the cache identity, the URLs and why it has no page ("none": it has one).
Result == [ident : Urls, requested : Urls, final : Urls, block : Blocks]
ASSUME UnsetAssumption == Unset \notin Result

VARIABLES
    nJobs,     \* jobs created so far; ids number the calls of enqueue
    url,       \* url[j]: the job's current URL (override changes it)
    ident,     \* ident[j]: the identity URL the fetch was asked for
    status,    \* status[j]: the job's JobStatus
    pending,   \* FetchQueue._pending; the deque is this set in id order
    assigned,  \* FetchQueue._assigned, or NoJob
    stats,     \* lifetime counters of FetchQueue
    fut,       \* fut[j]: the job's future, Unset until resolved
    handed,    \* ids the client has seen
    hbAge,     \* ticks since the last heartbeat; above Stale: stale or never seen
    waiter,    \* waiter[f]: the polling loop of f's current fetch()
    outcome,   \* outcome[j]: what fetch() returned, Unset until it does
    healthy    \* history: ticks job j waited that began with a live browser,
               \* counted up to Timeout

vars == <<nJobs, url, ident, status, pending, assigned, stats, fut, handed,
          hbAge, waiter, outcome, healthy>>
queueVars == <<pending, assigned, stats, status>>

Alive == hbAge <= Stale

Waiter == [job : Jobs \cup {NoJob}, elapsed : Nat, since : Nat, counting : BOOLEAN]
Idle == [job |-> NoJob, elapsed |-> 0, since |-> 0, counting |-> FALSE]
Waiting(f, j) == waiter[f].job = j

TypeOK ==
    /\ nJobs \in 0..MaxJobs
    /\ url \in [Jobs -> Urls]
    /\ ident \in [Jobs -> Urls]
    /\ status \in [Jobs -> JobStatus]
    /\ pending \subseteq Jobs
    /\ assigned \in Jobs \cup {NoJob}
    /\ stats \in [Verdicts -> Nat]
    /\ fut \in [Jobs -> Result \cup {Unset}]
    /\ handed \subseteq Jobs
    /\ hbAge \in 0..(Stale + 1)
    /\ waiter \in [Fetchers -> Waiter]
    /\ outcome \in [Jobs -> Result \cup {Unset}]
    /\ healthy \in [Jobs -> Nat]

Init ==
    /\ nJobs = 0
    /\ url = [j \in Jobs |-> CHOOSE u \in Urls : TRUE]
    /\ ident = url
    /\ status = [j \in Jobs |-> "none"]
    /\ pending = {}
    /\ assigned = NoJob
    /\ stats = [v \in Verdicts |-> 0]
    /\ fut = [j \in Jobs |-> Unset]
    /\ handed = {}
    /\ hbAge = Stale + 1
    /\ waiter = [f \in Fetchers |-> Idle]
    /\ outcome = [j \in Jobs |-> Unset]
    /\ healthy = [j \in Jobs |-> 0]

-----------------------------------------------------------------------------
(***************************************************************************)
(* The fetcher's side.                                                     *)
(***************************************************************************)

\* fetch(): queue a job and enter the polling loop.  A URL whose host is not
\* allowed is refused at once with invalid_url:host_not_allowed and no job.
\* The identity (the page-cache key) stands for the URL the driver asked for.
Fetch(f, u) ==
    /\ waiter[f] = Idle
    /\ u \in AllowedUrls
    /\ nJobs < MaxJobs
    /\ LET j == nJobs + 1 IN
        /\ nJobs' = j
        /\ url' = [url EXCEPT ![j] = u]
        /\ ident' = [ident EXCEPT ![j] = u]
        /\ status' = [status EXCEPT ![j] = "pending"]
        /\ pending' = pending \cup {j}
        /\ waiter' = [waiter EXCEPT ![f] =
             [job |-> j, elapsed |-> 0, since |-> 0, counting |-> Alive]]
    /\ UNCHANGED <<assigned, stats, fut, handed, hbAge, outcome, healthy>>

FailedResult(j, b) ==
    [ident |-> ident[j], requested |-> url[j], final |-> url[j], block |-> b]

\* The polling loop sees the future done and returns its value.
PollDone(f) ==
    LET j == waiter[f].job IN
    /\ j # NoJob
    /\ fut[j] # Unset
    /\ outcome' = [outcome EXCEPT ![j] = fut[j]]
    /\ waiter' = [waiter EXCEPT ![f] = Idle]
    /\ UNCHANGED <<nJobs, url, ident, queueVars, fut, handed, hbAge, healthy>>

\* Mutant: the interval counts whether or not the browser was alive.
ElapsedAlways(w) == w.elapsed + w.since

\* The time the loop has accounted for once it adds the last interval, which
\* counts only if the browser was alive when the interval began.
Elapsed(w) == w.elapsed + (IF w.counting THEN w.since ELSE 0)
TimesOut(w) == w.counting /\ Elapsed(w) >= Timeout

\* Mutant: discard forgets only the in-flight slot.
DiscardOnlyAssigned(j) ==
    /\ assigned' = IF assigned = j THEN NoJob ELSE assigned
    /\ pending' = pending
    /\ stats' = [stats EXCEPT !["failed"] = @ + 1]
    /\ status' = [status EXCEPT ![j] = "failed"]

\* FetchQueue.discard: forget the job wherever it is and count it as failed.
Discard(j) ==
    /\ assigned' = IF assigned = j THEN NoJob ELSE assigned
    /\ pending' = IF assigned = j THEN pending ELSE pending \ {j}
    /\ stats' = [stats EXCEPT !["failed"] = @ + 1]
    /\ status' = [status EXCEPT ![j] = "failed"]

\* Mutant: the clock is looked at before the future.
PollTimeoutFirst(f) ==
    LET j == waiter[f].job IN
    /\ j # NoJob
    /\ TimesOut(waiter[f])
    /\ Discard(j)
    /\ outcome' = [outcome EXCEPT ![j] = FailedResult(j, "timeout")]
    /\ waiter' = [waiter EXCEPT ![f] = Idle]
    /\ UNCHANGED <<nJobs, url, ident, fut, handed, hbAge, healthy>>

\* A turn of the loop with the time used up: give the job up.
PollTimeout(f) ==
    LET j == waiter[f].job IN
    /\ j # NoJob
    /\ fut[j] = Unset
    /\ TimesOut(waiter[f])
    /\ Discard(j)
    /\ outcome' = [outcome EXCEPT ![j] = FailedResult(j, "timeout")]
    /\ waiter' = [waiter EXCEPT ![f] = Idle]
    /\ UNCHANGED <<nJobs, url, ident, fut, handed, hbAge, healthy>>

\* Mutant: every turn starts the clock again.
PollWaitResets(f) ==
    LET w == waiter[f] IN
    /\ w.job # NoJob
    /\ fut[w.job] = Unset
    /\ ~TimesOut(w)
    /\ waiter' = [waiter EXCEPT ![f] =
         [job |-> w.job, elapsed |-> 0, since |-> 0, counting |-> Alive]]
    /\ UNCHANGED <<nJobs, url, ident, queueVars, fut, handed, hbAge, outcome, healthy>>

\* A turn of the loop that goes on waiting: the browser's health now decides
\* whether the interval that begins is counted.
PollWait(f) ==
    LET w == waiter[f] IN
    /\ w.job # NoJob
    /\ fut[w.job] = Unset
    /\ ~TimesOut(w)
    /\ waiter' = [waiter EXCEPT ![f] =
         [job |-> w.job, elapsed |-> Elapsed(w), since |-> 0, counting |-> Alive]]
    /\ UNCHANGED <<nJobs, url, ident, queueVars, fut, handed, hbAge, outcome, healthy>>

Poll(f) == PollDone(f) \/ PollTimeout(f) \/ PollWait(f)

-----------------------------------------------------------------------------
(***************************************************************************)
(* The browser's side: the HTTP handlers.  A client may call with any job  *)
(* id it was ever given; a call the bridge ignores changes nothing.        *)
(***************************************************************************)

\* GET /jobs/next: hand out the oldest pending job unless one is in flight.
TakeNext ==
    /\ assigned = NoJob
    /\ \E j \in pending :
        /\ \A k \in pending : j <= k
        /\ pending' = pending \ {j}
        /\ assigned' = j
        /\ status' = [status EXCEPT ![j] = "assigned"]
        /\ handed' = handed \cup {j}
    /\ UNCHANGED <<nJobs, url, ident, stats, fut, hbAge, waiter, outcome, healthy>>

\* Mutant: any job without an answer is resolvable, a timed-out one too.
ResolvableUnanswered(j) == fut[j] = Unset

\* _resolvable: the in-flight job, if this is its id and it has no answer yet.
Resolvable(j) == assigned = j /\ fut[j] = Unset

\* Resolve the future, then FetchQueue.finish.
Finish(j, res, st) ==
    /\ fut' = [fut EXCEPT ![j] = res]
    /\ assigned' = IF assigned = j THEN NoJob ELSE assigned
    /\ stats' = [stats EXCEPT ![st] = @ + 1]
    /\ status' = [status EXCEPT ![j] = st]
    /\ UNCHANGED <<nJobs, url, ident, pending, handed, hbAge, waiter, outcome, healthy>>

\* POST complete: a page, unless its final URL carries a port.
Complete(j, final) ==
    /\ Resolvable(j)
    /\ IF final \in PortUrls
       THEN Finish(j, FailedResult(j, "invalid_url:explicit_port"), "failed")
       ELSE Finish(j, [FailedResult(j, "none") EXCEPT !.final = final], "completed")

\* POST fail and POST skip: the client's text, or a default when it is blank.
Fail(j, reason) ==
    /\ Resolvable(j)
    /\ Finish(j, FailedResult(j, reason), "failed")

Skip(j, reason) ==
    /\ Resolvable(j)
    /\ Finish(j, FailedResult(j, reason), "skipped")

\* POST override: the in-flight job keeps its id and future and changes its URL.
Override(j, u) ==
    /\ u \in AllowedUrls \ PortUrls
    /\ assigned = j
    /\ url' = [url EXCEPT ![j] = u]
    /\ UNCHANGED <<nJobs, ident, queueVars, fut, handed, hbAge, waiter, outcome, healthy>>

\* POST heartbeat.
Heartbeat ==
    /\ hbAge' = 0
    /\ UNCHANGED <<nJobs, url, ident, queueVars, fut, handed, waiter, outcome, healthy>>

\* Time passes; every polling loop still gets its turn within PollGap ticks.
Tick ==
    /\ \A f \in Fetchers : waiter[f].job # NoJob => waiter[f].since < PollGap
    /\ hbAge' = IF Alive THEN hbAge + 1 ELSE hbAge
    /\ waiter' = [f \in Fetchers |->
         IF waiter[f].job = NoJob THEN waiter[f]
         ELSE [waiter[f] EXCEPT !.since = @ + 1]]
    /\ healthy' = [j \in Jobs |->
         IF /\ Alive
            /\ \E f \in Fetchers : Waiting(f, j)
            /\ healthy[j] < Timeout
         THEN healthy[j] + 1
         ELSE healthy[j]]
    /\ UNCHANGED <<nJobs, url, ident, queueVars, fut, handed, outcome>>

Client ==
    \/ TakeNext
    \/ \E j \in handed :
        \/ \E u \in Urls : Complete(j, u) \/ Override(j, u)
        \/ \E r \in Reasons \cup {"human_failed"} : Fail(j, r)
        \/ \E r \in Reasons \cup {"human_skip"} : Skip(j, r)
    \/ Heartbeat

Next ==
    \/ \E f \in Fetchers : \/ \E u \in Urls : Fetch(f, u)
                           \/ Poll(f)
    \/ Client
    \/ Tick

\* The event loop keeps turning and time keeps passing; nothing is assumed
\* of the browser.
Fairness ==
    /\ WF_vars(Tick)
    /\ \A f \in Fetchers : WF_vars(Poll(f))

Spec == Init /\ [][Next]_vars
FairSpec == Spec /\ Fairness

-----------------------------------------------------------------------------
(***************************************************************************)
(* Properties.                                                             *)
(***************************************************************************)

\* A job is in the queue or in the in-flight slot exactly while some fetcher
\* waits for it without an answer, so take_next never hands out a job nobody
\* awaits and no waiting fetch loses its job (FetchQueue.discard's promise).
NoOrphanJob ==
    \A j \in Jobs :
        (j \in pending \/ assigned = j)
            <=> (fut[j] = Unset /\ \E f \in Fetchers : Waiting(f, j))

\* FetchQueue.stats: the jobs in the queue or in flight, and those with a verdict.
OpenCount == Cardinality(pending) + (IF assigned = NoJob THEN 0 ELSE 1)
ClosedCount == stats["completed"] + stats["failed"] + stats["skipped"]

\* Every job ever queued is counted once: it is pending, in flight, or in
\* exactly one lifetime counter, however timeouts and late answers race.
JobsCountedOnce == nJobs = OpenCount + ClosedCount

\* What fetch() returned is what the queue recorded: a page exactly for a
\* completed job, never a timeout for a job the browser did complete, and
\* always under the identity URL that was asked for.
VerdictAgrees ==
    \A j \in Jobs : outcome[j] # Unset =>
        /\ outcome[j].block = "none" <=> status[j] = "completed"
        /\ fut[j] # Unset => outcome[j] = fut[j]
        /\ outcome[j].ident = ident[j]

\* A timed-out job had its share of time with a live browser: at least one
\* live tick for every PollGap ticks of the timeout (the polling loop's
\* "healthy frontend time").
TimeoutWasHealthy ==
    \A j \in Jobs : (outcome[j] # Unset /\ outcome[j].block = "timeout")
        => PollGap * healthy[j] >= Timeout

\* Once a job has its verdict, nothing changes it: late or repeated complete,
\* fail and skip calls for it are ignored.
VerdictFinal ==
    [][\A j \in Jobs : status[j] \in Verdicts
          => /\ status'[j] = status[j]
             /\ fut'[j] = fut[j]
             /\ outcome[j] # Unset => outcome'[j] = outcome[j]]_vars

\* If heartbeats keep coming, every fetch() returns, whatever else the
\* browser does or does not do.
FetchReturns ==
    []<>(hbAge = 0) =>
        \A f \in Fetchers, j \in Jobs : Waiting(f, j) ~> ~Waiting(f, j)
=============================================================================
