-------------------------- MODULE BrowserController --------------------------
(***************************************************************************)
(* The browser extension's crawl controller (browserext/src): a service    *)
(* worker that claims jobs from the crawl's bridge, navigates the one tab  *)
(* the user bound, decides from the browser's events whether the page has  *)
(* landed, submits a form where the job asks for one, has the content      *)
(* script capture the page and posts the job's verdict.                    *)
(*                                                                         *)
(* Every handler holds one mutex from its first to its last await, so a    *)
(* handler is an action that updates the controller's state and leaves in  *)
(* "todo" the awaits it has still to perform: saves to chrome.storage,     *)
(* tab updates, messages to the content script, posts to the bridge.  The  *)
(* next handler starts when todo is empty; the browser, the page, the      *)
(* bridge and the user act in between; and the browser may kill the        *)
(* service worker at any await, after which the controller is reloaded     *)
(* from storage.                                                           *)
(*                                                                         *)
(* Documents are numbered by the request that loads them.  Timestamps are  *)
(* compared only with the time a navigation was issued: clock counts those *)
(* moments.  Deadlines expire at any tick.                                 *)
(***************************************************************************)
EXTENDS Naturals, Sequences, FiniteSets

CONSTANTS
    FetchJobs,      \* the fetch jobs of the crawl
    FormJobs,       \* those that carry a form_submit action
    None,           \* no job, navigation, RPC, signal or document
    DocumentIds,    \* whether webRequest events name their document
    Pages,          \* responses: what classifyNavigation makes of the status
                    \* and detectPage of the page, "clean", "error" or "gone"
    RetryBudget,    \* navigation attempts per job (BUDGET, 3 in the code)
    MaxResends,     \* re-sends of one RPC (3 in the code)
    MaxRequests,    \* bound: main-frame requests of the tab
    MaxDisturbances, \* bound: what the user does to a running crawl, and kills
                    \* of the service worker
    MaxDisturbedJobs \* bound: jobs claimed when the last of them comes

ASSUME ControllerAssumption ==
    /\ FormJobs \subseteq FetchJobs
    /\ None \notin FetchJobs
    /\ \A p \in Pages : p.seen \in {"clean", "error", "gone"}
    /\ RetryBudget \in Nat \ {0} /\ DocumentIds \in BOOLEAN

VARIABLES
    mem,        \* the controller's state in the running service worker
    disk,       \* the state in chrome.storage.local
    todo,       \* the awaits the handler that holds the mutex has left
    clock,      \* moments at which a navigation or a preparation was issued
    slot,       \* bridge: the job in flight
    served,     \* bridge: each job pending, assigned or settled by a verdict
    requests,   \* browser: the URL of every main-frame request so far
    loading,    \* browser: the request the tab is loading
    live,       \* browser: the document the tab shows
    tabOpen,    \* browser: whether the tab exists
    net,        \* events and messages on their way to the controller
    inbox,      \* RPCs received by the live document's content script
    accepted,   \* history: pages accepted for a URL of the current job, by the
                \* landing rule, by a form's reported effect or by the user
    submitted,  \* history: documents that submitted their form
    disturbances

browser  == <<requests, loading, live, tabOpen, inbox>>
bridge   == <<slot, served>>
history  == <<accepted, submitted>>
controllerVars == <<mem, disk, todo, clock, bridge, browser, net, history, disturbances>>

-----------------------------------------------------------------------------
(* State.  A job is cached with the URL to open; the user may replace it.   *)

Url(j, at) == [job |-> j, at |-> at]
Link       == Url(None, "link")

\* A cached job.
CachedJob == [id : FetchJobs, url : [job : FetchJobs, at : {"list", "moved"}]]

ASSUME NoneAssumption == None \notin CachedJob

initialControllerState ==
    [bound |-> FALSE, auto |-> FALSE, paused |-> FALSE, job |-> None,
     phase |-> "idle", nav |-> None, rpc |-> None]

\* A NavigationState, with its correlation slots empty.
Navigation(j, url, at, attempt, kind, doc) ==
    [job |-> j, url |-> url, at |-> at, attempt |-> attempt, kind |-> kind,
     source |-> doc, request |-> None, commit |-> None, http |-> None,
     ready |-> None, effect |-> FALSE]

\* An id that nothing under way refers to.
FreshRpc ==
    LET used == {r.id : r \in inbox \cup ({mem.rpc, disk.rpc} \ {None})}
                \cup {m.rpc : m \in {m \in net :
                        m.event \in {"prepared", "performed", "captured"}}}
    IN CHOOSE i \in 1..(Cardinality(used) + 1) :
          i \notin used /\ \A k \in 1..(i - 1) : k \in used

PendingRpc(s, op, doc, at) ==
    [id |-> FreshRpc, job |-> s.job.id, op |-> op, doc |-> doc, at |-> at,
     resends |-> 0]

\* What a handler does: the new state, and the awaits that follow it.
Do(s, awaits) == [state |-> s, todo |-> awaits]

Save        == [await |-> "save"]
Send        == [await |-> "send"]
Resend      == [await |-> "resend"]
Open(url)   == [await |-> "update", url |-> url]
Become(s)   == [await |-> "become", state |-> s]
Post(verdict, j, doc) ==
    [await |-> "post", verdict |-> verdict, job |-> j, doc |-> doc]

Now == clock + 1

-----------------------------------------------------------------------------
(* Landing.  The five conditions of evaluateLanding and the retry funnel.   *)

StillWaiting == [kind |-> "waiting", outcome |-> "ok"]
Landed       == [kind |-> "landed",  outcome |-> "ok"]
Terminal     == [kind |-> "skip",    outcome |-> "ok"]
Retry(o)     == [kind |-> "retry",   outcome |-> o]

evaluateLanding(nav) ==
    IF nav.commit = None
    THEN IF nav.http # None /\ nav.http.outcome # "ok"
         THEN Retry(nav.http.outcome) ELSE StillWaiting
    ELSE LET ready == nav.ready
             http  == nav.http
         IN IF ~nav.commit.onsite THEN Terminal
            ELSE IF ready # None /\ ready.doc # nav.commit.doc THEN StillWaiting
            ELSE IF ready # None /\ ready.seen = "gone"  THEN Terminal
            ELSE IF ready # None /\ ready.seen = "error" THEN Retry("gateway")
            ELSE IF http = None THEN StillWaiting
            ELSE IF \/ http.request # nav.request
                    \/ http.doc # None /\ http.doc # nav.commit.doc
                 THEN StillWaiting
            ELSE IF http.outcome # "ok" THEN Retry(http.outcome)
            ELSE IF ready # None THEN Landed ELSE StillWaiting

funnelDecision(outcome, attempt) ==
    CASE outcome = "not_found"    -> "skip"
      [] outcome = "rate_limited" -> "fail"
      [] OTHER -> IF attempt >= RetryBudget THEN "fail" ELSE "retry_navigate"

\* clearAttemptSignals
ClearSignals(nav) ==
    [nav EXCEPT !.request = None, !.commit = None, !.http = None, !.ready = None]

\* Persist the intent, then open the URL; nothing while paused or manual.
navigateNow(s, attempt) ==
    IF s.job = None \/ ~s.bound \/ s.paused \/ ~s.auto
    THEN Do(s, <<>>)
    ELSE Do([s EXCEPT !.nav = Navigation(s.job.id, s.job.url, Now, attempt,
                                         "navigate", None),
                      !.phase = "navigating"],
            <<Save, Open(s.job.url)>>)

RetryNavigation(s) ==
    LET nav == [ClearSignals(s.nav) EXCEPT !.attempt = @ + 1, !.at = Now]
    IN navigateNow([s EXCEPT !.nav = nav], nav.attempt)

dispatchCaptureFromDocument(s, doc) ==
    IF s.job = None \/ ~s.bound \/ doc = None
    THEN Do(s, <<>>)
    ELSE Do([s EXCEPT !.rpc = PendingRpc(s, "capture", doc, 0),
                      !.phase = "capturing"],
            <<Save, Send>>)

dispatchCapture(s) ==
    dispatchCaptureFromDocument(s,
        CASE s.nav = None              -> None
          [] s.nav # None /\ s.nav.commit # None -> s.nav.commit.doc
          [] OTHER                     -> s.nav.source)

prepareFormActionDispatch(s) ==
    IF s.job = None \/ ~s.bound THEN Do(s, <<>>)
    ELSE Do([s EXCEPT !.rpc = PendingRpc(s, "prepare", s.nav.commit.doc, Now),
                      !.phase = "acting"],
            <<Save, Send>>)

\* The job's verdict is posted with the navigation given up.
GiveUp(s, verdict) ==
    Do([s EXCEPT !.phase = "error", !.nav = None],
       <<Post(verdict, s.job.id, None)>>)

applyLandingVerdict(s) ==
    LET v == evaluateLanding(s.nav)
        d == funnelDecision(v.outcome, s.nav.attempt)
    IN CASE v.kind = "waiting" -> Do(s, <<>>)
         [] v.kind = "landed"  ->
              IF s.nav.kind = "navigate" /\ s.job.id \in FormJobs
              THEN prepareFormActionDispatch([s EXCEPT !.phase = "landed"])
              ELSE dispatchCapture([s EXCEPT !.phase = "landed"])
         [] v.kind = "skip"    -> GiveUp(s, "skipped")
         [] v.kind = "retry"   ->
              CASE d = "retry_navigate" -> RetryNavigation(s)
                [] d = "skip"           -> GiveUp(s, "skipped")
                [] d = "fail"           -> GiveUp(s, "failed")

-----------------------------------------------------------------------------
(* Handlers.                                                                *)

Free == todo = <<>>

\* A handler runs to its first await.
Run(d) ==
    /\ Free
    /\ mem' = d.state
    /\ todo' = d.todo
    /\ clock' = IF (d.state.nav # None /\ d.state.nav.at = Now)
                  \/ (d.state.rpc # None /\ d.state.rpc.at = Now)
                THEN Now ELSE clock
    /\ UNCHANGED <<disk, submitted>>

\* A handler ends with a save; a second save of the same state is left out.
ThenSave(d) ==
    [d EXCEPT !.todo = IF Len(@) > 0 /\ @[1] = Save THEN @ ELSE Append(@, Save)]

\* An event or a message is handled once.  One that a handler would ignore is
\* left on its way, which comes to the same.
Receive(m, d) ==
    /\ m \in net
    /\ net' = net \ {m}
    /\ Run(d)
    /\ UNCHANGED <<bridge, browser, disturbances>>

Observing == mem.nav # None /\ mem.bound /\ mem.phase \in {"navigating", "acting"}

\* A page is accepted for the URL the job has now when its capture, or the
\* preparation of its form, is dispatched.
Accept(d) ==
    accepted' = IF d.state.rpc # None /\ d.state.rpc.id = FreshRpc
                THEN {a \in accepted : a.url.job = mem.job.id}
                       \cup {[url |-> mem.job.url, doc |-> d.state.rpc.doc]}
                ELSE accepted

deliverBeforeRequest(m) ==
    /\ m.event = "request"
    /\ Observing /\ mem.nav.job = mem.job.id
    /\ m.at >= mem.nav.at
    /\ mem.nav.request = None
    /\ m.url = mem.nav.url
    /\ Receive(m, Do([mem EXCEPT !.nav.request = m.request], <<Save>>))
    /\ UNCHANGED accepted

\* Only off-site redirects are reported here; on-site ones change nothing.
deliverBeforeRedirect(m) ==
    /\ m.event = "redirect"
    /\ Observing /\ mem.nav.request \in {None, m.request}
    /\ Receive(m, ThenSave(GiveUp(mem, "skipped")))
    /\ UNCHANGED accepted

\* A signal is recorded and the landing rule evaluated.
Signal(m, nav) ==
    LET d == ThenSave(applyLandingVerdict([mem EXCEPT !.nav = nav]))
    IN Receive(m, d) /\ Accept(d)

\* onCommitted carries no request id: any main-frame commit of the tab counts.
deliverCommitted(m) ==
    /\ m.event = "commit"
    /\ Observing /\ mem.nav.job = mem.job.id
    /\ m.at >= mem.nav.at
    /\ Signal(m, [mem.nav EXCEPT !.commit = [doc |-> m.doc, onsite |-> m.onsite]])

deliverHttpEvent(m) ==
    /\ m.event = "completed"
    /\ Observing /\ mem.nav.request \in {None, m.request}
    /\ m.doc # None /\ mem.nav.commit # None => m.doc = mem.nav.commit.doc
    /\ Signal(m, [mem.nav EXCEPT !.http = [request |-> m.request, doc |-> m.doc,
                                           outcome |-> m.outcome]])

deliverError(m) ==
    /\ m.event = "failed"
    /\ Observing /\ mem.nav.request \in {None, m.request}
    /\ Signal(m, [mem.nav EXCEPT !.http = [request |-> m.request, doc |-> None,
                                           outcome |-> "nav_error"]])

\* The sender's tab is not checked, and a PAGE_READY before its commit is lost.
deliverPageReady(m) ==
    /\ m.event = "ready"
    /\ mem.nav # None /\ mem.phase \in {"navigating", "acting"}
    /\ mem.nav.commit # None
    /\ m.doc = mem.nav.commit.doc
    /\ Signal(m, [mem.nav EXCEPT !.ready = [doc |-> m.doc, seen |-> m.seen]])

\* A content script's answer counts when it comes from the RPC's document.
Answers(m, op) ==
    /\ mem.rpc # None /\ mem.rpc.op = op /\ mem.bound
    /\ m.doc = mem.rpc.doc /\ m.rpc = mem.rpc.id
    /\ mem.job # None /\ m.job = mem.job.id

FailForm(s) ==
    ThenSave(GiveUp([s EXCEPT !.rpc = None], "failed"))

\* A failed preparation is asked for again, unless it failed too often or
\* too soon after the last time; a good one opens a form_action navigation.
deliverActionPrepared(m) ==
    /\ m.event = "prepared"
    /\ Answers(m, "prepare")
    /\ UNCHANGED accepted
    /\ LET rpc   == mem.rpc
           again == [rpc EXCEPT !.resends = @ + 1, !.at = Now]
           form  == Navigation(mem.job.id, Url(mem.job.id, "form"), rpc.at, 1,
                               "form_action", rpc.doc)
       IN \/ /\ ~m.ok /\ rpc.resends < MaxResends
             /\ Receive(m, Do([mem EXCEPT !.rpc = again], <<Save, Resend>>))
          \/ /\ ~m.ok /\ rpc.resends > 0
             /\ Receive(m, FailForm(mem))
          \/ /\ m.ok
             /\ Receive(m, Do([mem EXCEPT !.nav = form,
                        !.rpc = PendingRpc(mem, "perform", rpc.doc, 0),
                        !.phase = "acting"], <<Save, Send>>))

\* A changed form fails the job; a form that navigates is waited for; a
\* same-document effect is captured at once.
deliverActionResult(m) ==
    LET shown == [mem EXCEPT !.nav.effect = TRUE, !.rpc = None]
        next  == dispatchCapture(shown)
        d == CASE ~m.ok               -> FailForm(mem)
               [] m.ok /\ m.navigates -> Do(mem, <<Save>>)
               [] OTHER -> Do(shown, <<Save, Become(next.state)>> \o next.todo)
    IN /\ m.event = "performed"
       /\ Answers(m, "perform")
       /\ mem.nav # None /\ mem.nav.kind = "form_action"
       /\ Receive(m, d)
       /\ IF m.ok /\ ~m.navigates THEN Accept(next) ELSE UNCHANGED accepted

\* A clean capture completes the job; an error page is opened again whatever
\* the attempt; the state after the post is saved only then.
deliverCaptureResult(m) ==
    LET s == [mem EXCEPT !.rpc = None]
        d == CASE m.seen = "clean" ->
                    Do(mem, <<Post("completed", mem.job.id, m.doc),
                              Become([s EXCEPT !.nav = None, !.phase = "idle"]),
                              Save>>)
               [] m.seen = "gone" -> ThenSave(GiveUp(s, "skipped"))
               [] m.seen = "error" /\ s.nav # None /\ s.nav.kind = "navigate" ->
                    ThenSave(RetryNavigation(s))
               [] OTHER -> ThenSave(GiveUp(s, "failed"))
    IN /\ m.event = "captured"
       /\ Answers(m, "capture")
       /\ Receive(m, d)
       /\ UNCHANGED accepted

-----------------------------------------------------------------------------
(* The tick: every two seconds from the bound tab's panel, every minute     *)
(* from an alarm.                                                           *)

\* 1. A bound tab that is gone is unbound.
TabChecked(s) ==
    IF s.bound /\ ~tabOpen
    THEN [s EXCEPT !.bound = FALSE,
                   !.phase = IF s.job # None THEN "assigned" ELSE "idle"]
    ELSE s

ReconcileKeepsRpc(s, j) ==
    CASE j = None /\ s.job # None ->
           [s EXCEPT !.job = None, !.nav = None, !.phase = "idle"]
      [] j # None /\ (IF s.job = None THEN TRUE ELSE s.job.id # j) ->
           [s EXCEPT !.job = [id |-> j, url |-> Url(j, "list")], !.nav = None,
                     !.phase = "assigned"]
      [] OTHER -> s

\* 2. The bridge's job in flight is the truth.
applyReconcile(s, j) ==
    CASE j = None /\ s.job # None ->
           [s EXCEPT !.job = None, !.nav = None, !.rpc = None, !.phase = "idle"]
      [] j # None /\ (IF s.job = None THEN TRUE ELSE s.job.id # j) ->
           [s EXCEPT !.job = [id |-> j, url |-> Url(j, "list")], !.nav = None,
                     !.rpc = None, !.phase = "assigned"]
      [] OTHER -> s

\* 4. An idle controller claims.
MayClaim(s) ==
    s.phase = "idle" /\ s.job = None /\ s.auto /\ ~s.paused /\ s.bound

Unavailable(s) == [s EXCEPT !.phase = "error", !.rpc = None]

\* 6. Landing and its two deadlines; due: the deadline has passed.
TickLanding(s, due) ==
    LET nav == s.nav
        silent == [s EXCEPT !.nav.http = [request |-> nav.request, doc |-> None,
                                          outcome |-> "nav_error"]]
    IN IF evaluateLanding(nav).kind # "waiting" THEN applyLandingVerdict(s)
       ELSE IF ~due THEN Do(s, <<>>)
       ELSE IF nav.commit = None THEN applyLandingVerdict(silent)
       ELSE Do([s EXCEPT !.phase = "error"], <<>>)

\* 6.5. A capture not answered in time is asked for again, then given up.
TickCapture(s, due) ==
    IF ~due THEN Do(s, <<>>)
    ELSE IF s.rpc.resends < MaxResends
         THEN Do([s EXCEPT !.rpc.resends = @ + 1], <<Save, Send>>)
         ELSE Do(Unavailable(s), <<>>)

FormPreparedAgain(s, due) ==
    IF due /\ s.nav.request = None /\ s.nav.commit = None /\ ~s.nav.effect
    THEN Do([s EXCEPT !.rpc = PendingRpc(s, "prepare", s.nav.source, Now)],
            <<Save, Send>>)
    ELSE Do(s, <<>>)

\* 6.6. A submitted form that shows no sign of life fails the job.
TickForm(s, due) ==
    IF due /\ s.nav.request = None /\ s.nav.commit = None /\ ~s.nav.effect
    THEN GiveUp([s EXCEPT !.rpc = None], "failed")
    ELSE Do(s, <<>>)

\* 5. to 6.6., for a state reconciled and claimed.
TickWork(s, due) ==
    CASE s.phase = "assigned" /\ s.job # None ->
           navigateNow(s, IF s.nav = None THEN 1 ELSE s.nav.attempt)
      [] s.phase = "navigating" /\ s.nav # None -> TickLanding(s, due)
      [] s.phase = "capturing" /\ s.rpc # None /\ s.rpc.op = "capture" ->
           TickCapture(s, due)
      [] s.phase = "acting" /\ s.nav # None /\ s.nav.kind = "form_action" ->
           TickForm(s, due)
      [] OTHER -> Do(s, <<>>)

\* 7. Saved when something changed.
TickRuns(s, due) ==
    LET d == TickWork(s, due)
    IN /\ Run(IF d.state = mem /\ d.todo = <<>> THEN d ELSE ThenSave(d))
       /\ Accept(d)
       /\ UNCHANGED <<browser, net, disturbances>>

\* The bridge does not answer, or the answer is lost on the way.
TickOffline(due) ==
    TickRuns(TabChecked(mem), due) /\ UNCHANGED bridge

\* The bridge answers; a claim takes a pending job unless one is in flight.
TickOnline(due) ==
    LET s == applyReconcile(TabChecked(mem), slot)
        pending == {j \in FetchJobs : served[j] = "pending"}
    IN \/ /\ ~(MayClaim(s) /\ slot = None /\ pending # {})
          /\ TickRuns(s, due)
          /\ UNCHANGED bridge
       \/ /\ MayClaim(s) /\ slot = None
          /\ \E j \in pending :
                /\ slot' = j
                /\ served' = [served EXCEPT ![j] = "assigned"]
                /\ TickRuns([s EXCEPT !.job = [id |-> j, url |-> Url(j, "list")],
                                      !.phase = "assigned"], due)

\* The claim reaches the bridge and its answer does not reach the browser.
TickClaimLost ==
    LET s == applyReconcile(TabChecked(mem), slot)
    IN /\ MayClaim(s) /\ slot = None
       /\ \E j \in FetchJobs :
             /\ served[j] = "pending"
             /\ slot' = j
             /\ served' = [served EXCEPT ![j] = "assigned"]
       /\ TickRuns(s, FALSE)

-----------------------------------------------------------------------------
(* Commands of the panel, allowed to the bound tab only, and the toolbar's  *)
(* start, which never takes a tab over from another.                        *)

Disturb ==
    /\ disturbances < MaxDisturbances
    /\ Cardinality({j \in FetchJobs : served[j] # "pending"}) <= MaxDisturbedJobs
    /\ disturbances' = disturbances + 1

Command(d) ==
    /\ mem.bound
    /\ Disturb
    /\ Run(d)
    /\ UNCHANGED <<bridge, browser, net>>

BoundCommand(d) == Command(d) /\ UNCHANGED accepted

\* What a closed tab still had in flight names another tab than the new one.
start ==
    /\ IF mem.bound THEN tabOpen /\ ~(mem.auto /\ ~mem.paused) ELSE TRUE
    /\ LET s == [mem EXCEPT !.bound = TRUE, !.auto = TRUE, !.paused = FALSE,
                            !.phase = IF ~mem.bound THEN "assigned" ELSE @]
       IN Run(Do([s EXCEPT !.phase =
                    IF s.phase = "assigned" /\ s.job = None THEN "idle" ELSE @],
                 <<Save>>))
    /\ tabOpen' = TRUE
    /\ net' = IF tabOpen THEN net ELSE {}
    /\ UNCHANGED <<bridge, requests, loading, live, inbox, accepted, disturbances>>

unbind ==
    BoundCommand(Do([mem EXCEPT !.bound = FALSE,
                        !.phase = IF mem.job # None THEN "assigned" ELSE "idle"],
                    <<Save>>))

setAutoMode(on) ==
    BoundCommand(Do([mem EXCEPT !.auto = on,
                        !.phase = IF on /\ @ = "assigned" /\ mem.job = None
                                  THEN "idle" ELSE @], <<Save>>))

setPaused(on) == BoundCommand(Do([mem EXCEPT !.paused = on], <<Save>>))

\* The user submits the document the panel is in.
retryCapture ==
    /\ mem.bound /\ mem.job # None /\ live # None
    /\ LET d == dispatchCaptureFromDocument(mem, live)
       IN Command(d) /\ Accept(d)

reopenCurrentJob ==
    /\ mem.job # None
    /\ BoundCommand(navigateNow(
          [mem EXCEPT !.auto = TRUE, !.paused = FALSE, !.rpc = None],
          IF mem.nav = None THEN 1 ELSE mem.nav.attempt + 1))

manualSkip ==
    /\ mem.job # None
    /\ BoundCommand(Do(mem, <<Post("skipped", mem.job.id, None),
                              Become([mem EXCEPT !.nav = None, !.rpc = None,
                                                 !.phase = "assigned"]), Save>>))

manualFail ==
    /\ mem.job # None
    /\ BoundCommand(Do(mem, <<Post("failed", mem.job.id, None),
                              Become([mem EXCEPT !.nav = None, !.rpc = None,
                                                 !.phase = "error"]), Save>>))

OverrideKeepsRpc(heard) ==
    /\ mem.job # None
    /\ heard => slot = mem.job.id
    /\ BoundCommand(Do([mem EXCEPT !.job.url = IF heard THEN Url(mem.job.id, "moved")
                                               ELSE @,
                                   !.nav = None, !.phase = "assigned"], <<Save>>))

\* The bridge replaces the URL of the job in flight, if it hears of it.
overrideUrl(heard) ==
    /\ mem.job # None
    /\ heard => slot = mem.job.id
    /\ BoundCommand(Do([mem EXCEPT !.job.url = IF heard THEN Url(mem.job.id, "moved")
                                               ELSE @,
                                   !.nav = None, !.rpc = None,
                                   !.phase = "assigned"], <<Save>>))

-----------------------------------------------------------------------------
(* The awaits of the handler that holds the mutex.                          *)

Await(kind) == todo # <<>> /\ Head(todo).await = kind

\* A main-frame request aborts the one the tab is loading.
StartRequest(url, messages) ==
    IF Len(requests) < MaxRequests
    THEN /\ requests' = Append(requests, url)
         /\ loading' = Len(requests) + 1
         /\ net' = net \cup messages
                \cup {[event |-> "request", request |-> Len(requests) + 1,
                       url |-> url, at |-> clock]}
                \cup IF loading = None THEN {}
                     ELSE {[event |-> "failed", request |-> loading]}
    ELSE UNCHANGED <<requests, loading>> /\ net' = net \cup messages

\* What no handler of this state or a later one can heed.
Moot(m, s) ==
    CASE m.event \in {"request", "commit"} -> s.nav = None \/ m.at < s.nav.at
      [] m.event \in {"prepared", "performed", "captured"} ->
           s.rpc = None \/ m.rpc # s.rpc.id
      [] m.event = "ready" ->
           \/ s.nav = None
           \/ /\ IF s.nav.commit = None THEN TRUE ELSE s.nav.commit.doc # m.doc
              /\ \A c \in net : ~(c.event = "commit" /\ c.doc = m.doc
                                  /\ c.at >= s.nav.at)
      [] OTHER -> s.nav # None /\ s.nav.request # None /\ s.nav.request # m.request

persist ==
    /\ Await("save")
    /\ disk' = mem
    /\ todo' = Tail(todo)
    /\ net' = {m \in net : ~Moot(m, mem)}
    /\ UNCHANGED <<mem, clock, bridge, browser, history, disturbances>>

updateTabUrl ==
    /\ Await("update")
    /\ todo' = Tail(todo)
    /\ IF tabOpen THEN StartRequest(Head(todo).url, {})
                  ELSE UNCHANGED <<requests, loading, net>>
    /\ UNCHANGED <<mem, disk, clock, bridge, live, tabOpen, inbox, history, disturbances>>

\* The document is addressed by its id: the message arrives there or fails.
sendMessage ==
    /\ Await("send") \/ Await("resend")
    /\ IF tabOpen /\ live = mem.rpc.doc
       THEN /\ inbox' = inbox \cup {mem.rpc}
            /\ todo' = Tail(todo)
            /\ UNCHANGED mem
       ELSE /\ IF Await("send")
               THEN mem' = Unavailable(mem) /\ todo' = <<Save>> \o Tail(todo)
               ELSE todo' = Tail(todo) /\ UNCHANGED mem
            /\ UNCHANGED inbox
    /\ UNCHANGED <<disk, clock, bridge, requests, loading, live, tabOpen, net,
                   history, disturbances>>

\* completeJob, skipJob, failJob: the bridge ignores a job that is not in
\* flight; the client ignores a call that is lost.
postVerdict(arrives) ==
    /\ Await("post")
    /\ LET p == Head(todo)
       IN /\ IF arrives /\ slot = p.job
             THEN slot' = None /\ served' = [served EXCEPT ![p.job] = "settled"]
             ELSE UNCHANGED bridge
    /\ todo' = Tail(todo)
    /\ UNCHANGED <<mem, disk, clock, browser, net, history, disturbances>>

resume ==
    /\ Await("become")
    /\ mem' = Head(todo).state
    /\ todo' = Tail(todo)
    /\ UNCHANGED <<disk, clock, bridge, browser, net, history, disturbances>>

Awaited == persist \/ updateTabUrl \/ sendMessage
           \/ (\E a \in BOOLEAN : postVerdict(a)) \/ resume

\* The browser kills the service worker; the next event reloads it.
Crash ==
    /\ ~Free /\ Disturb
    /\ mem' = disk
    /\ todo' = <<>>
    /\ UNCHANGED <<disk, clock, bridge, browser, net, history>>

-----------------------------------------------------------------------------
(* The browser, the page and its content script, the bridge's timeout.      *)

\* The tab and the page matter to a handler only where it next opens a URL or
\* sends a message; what they do before another await may as well come after.
PageActs ==
    /\ Free \/ Await("update") \/ Await("send") \/ Await("resend")
    /\ UNCHANGED <<mem, disk, todo, clock, accepted>>

Outside == PageActs /\ UNCHANGED submitted

\* A document commits, its response completes and its content script reports.
Load(page) ==
    /\ loading # None
    /\ live' = loading /\ loading' = None /\ inbox' = {}
    /\ net' = net \cup
         {[event |-> "commit", doc |-> loading, onsite |-> TRUE, at |-> clock],
          [event |-> "completed", request |-> loading,
           doc |-> IF DocumentIds THEN loading ELSE None, outcome |-> page.outcome],
          [event |-> "ready", doc |-> loading, seen |-> page.seen]}
    /\ Outside /\ UNCHANGED <<requests, tabOpen, bridge, disturbances>>

LoadOffsite ==
    /\ loading # None
    /\ live' = None /\ loading' = None /\ inbox' = {}
    /\ net' = net \cup
         {[event |-> "redirect", request |-> loading],
          [event |-> "commit", doc |-> loading, onsite |-> FALSE, at |-> clock]}
    /\ Outside /\ UNCHANGED <<requests, tabOpen, bridge, disturbances>>

LoadFails ==
    /\ loading # None
    /\ loading' = None
    /\ net' = net \cup {[event |-> "failed", request |-> loading]}
    /\ Outside /\ UNCHANGED <<requests, live, tabOpen, inbox, bridge, disturbances>>

\* The user follows a link in the bound tab, or the page changes its own URL.
FollowLink ==
    /\ tabOpen /\ live # None /\ Disturb
    /\ StartRequest(Link, {})
    /\ Outside /\ UNCHANGED <<live, tabOpen, inbox, bridge>>

HistoryStateUpdated ==
    /\ live # None /\ Disturb
    /\ net' = net \cup {[event |-> "commit", doc |-> live, onsite |-> TRUE,
                         at |-> clock]}
    /\ Outside /\ UNCHANGED <<browser, bridge>>

CloseTab ==
    /\ tabOpen /\ Disturb
    /\ tabOpen' = FALSE /\ live' = None /\ loading' = None /\ inbox' = {}
    /\ Outside /\ UNCHANGED <<requests, net, bridge>>

\* The answers of a content script.
CaptureResult(r, seen) ==
    [event |-> "captured", rpc |-> r.id, job |-> r.job, doc |-> r.doc, seen |-> seen]
ActionPrepared(r, ok) ==
    [event |-> "prepared", rpc |-> r.id, job |-> r.job, doc |-> r.doc, ok |-> ok]
ActionResult(r, ok, navigates) ==
    [event |-> "performed", rpc |-> r.id, job |-> r.job, doc |-> r.doc, ok |-> ok,
     navigates |-> navigates]

\* The page is looked at again before it is captured.
handleCapture(r, seen) ==
    /\ r \in inbox /\ r.op = "capture"
    /\ inbox' = inbox \ {r}
    /\ net' = net \cup {CaptureResult(r, seen)}
    /\ Outside /\ UNCHANGED <<requests, loading, live, tabOpen, bridge, disturbances>>

handlePrepare(r, ok) ==
    /\ r \in inbox /\ r.op = "prepare"
    /\ inbox' = inbox \ {r}
    /\ net' = net \cup {ActionPrepared(r, ok)}
    /\ Outside /\ UNCHANGED <<requests, loading, live, tabOpen, bridge, disturbances>>

\* A form that is not the prepared one is not submitted.  A GET form reports a
\* same-document effect, and navigates all the same.  The ledger that answers a
\* repeated PERFORM_ACTION has nothing to do: none is sent twice.
handlePerform(r, same, navigates) ==
    /\ r \in inbox /\ r.op = "perform"
    /\ inbox' = inbox \ {r}
    /\ LET m == ActionResult(r, same, same /\ navigates)
       IN IF same THEN StartRequest(Url(r.job, "form"), {m})
          ELSE net' = net \cup {m} /\ UNCHANGED <<requests, loading>>
    /\ submitted' = IF same THEN submitted \cup {r.doc} ELSE submitted
    /\ PageActs /\ UNCHANGED <<live, tabOpen, bridge, disturbances>>

\* The bridge gives up on the job in flight.
JobTimesOut ==
    /\ slot # None
    /\ served' = [served EXCEPT ![slot] = "settled"]
    /\ slot' = None
    /\ Free \/ Await("post")
    /\ UNCHANGED <<mem, disk, todo, clock, browser, net, history, disturbances>>

-----------------------------------------------------------------------------
ControllerInit ==
    /\ mem = initialControllerState /\ disk = mem
    /\ todo = <<>> /\ clock = 0
    /\ slot = None /\ served = [j \in FetchJobs |-> "pending"]
    /\ requests = <<>> /\ loading = None /\ live = None /\ tabOpen = TRUE
    /\ net = {} /\ inbox = {}
    /\ accepted = {} /\ submitted = {}
    /\ disturbances = 0

Deliver(m) ==
    \/ deliverBeforeRequest(m) \/ deliverBeforeRedirect(m) \/ deliverCommitted(m)
    \/ deliverHttpEvent(m)     \/ deliverError(m)          \/ deliverPageReady(m)
    \/ deliverActionPrepared(m) \/ deliverActionResult(m)
    \/ deliverCaptureResult(m)

tick == \/ \E due \in BOOLEAN : TickOffline(due) \/ TickOnline(due)
        \/ TickClaimLost

Commands ==
    \/ start \/ unbind \/ retryCapture \/ reopenCurrentJob
    \/ manualSkip \/ manualFail
    \/ \E on \in BOOLEAN : setAutoMode(on) \/ setPaused(on) \/ overrideUrl(on)

Page ==
    \/ \E page \in Pages : Load(page)
    \/ LoadOffsite \/ LoadFails \/ FollowLink \/ HistoryStateUpdated \/ CloseTab
    \/ \E r \in inbox :
         \/ \E page \in Pages : handleCapture(r, page.seen)
         \/ \E ok \in BOOLEAN : handlePrepare(r, ok)
         \/ \E same, navigates \in BOOLEAN : handlePerform(r, same, navigates)

ControllerNext ==
    \/ \E m \in net : Deliver(m)
    \/ tick \/ Commands \/ Awaited \/ Crash \/ Page \/ JobTimesOut

ControllerSpec == ControllerInit /\ [][ControllerNext]_controllerVars

-----------------------------------------------------------------------------
(* Properties.                                                              *)

Correlated(s) ==
    /\ s.nav # None => s.job # None /\ s.nav.job = s.job.id
    /\ s.rpc # None => s.job # None /\ s.rpc.job = s.job.id
    /\ s.job = None => s.phase = "idle"

\* Neither the running controller nor the state a restarted one will load
\* holds a navigation, a pending RPC or a busy phase of a job other than the
\* one it has: a job the bridge took away takes its signals along, whatever
\* commands, lost calls and restarts came between.
NoStaleWork == Correlated(mem) /\ Correlated(disk)

\* Between handlers the saved state is the running one: a service worker that
\* the browser stops while no handler runs loses nothing.
SavedWhenIdle == Free => disk = mem

\* A page about to be posted as the result of a job was accepted for the URL the
\* job has now: by the landing rule, or by the user who submitted it.
PostedWasAccepted ==
    \A i \in DOMAIN todo :
        todo[i].await = "post" /\ todo[i].verdict = "completed" =>
            [url |-> mem.job.url, doc |-> todo[i].doc] \in accepted

\* A page is never asked to submit the form it has submitted: a submission whose
\* outcome is unknown is not repeated in its page, whatever signals, late answers
\* and restarts come between.
OneSubmitPerPage ==
    \A r \in inbox : r.op = "perform" => r.doc \notin submitted
=============================================================================
