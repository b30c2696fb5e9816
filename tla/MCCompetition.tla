----------------------------- MODULE MCCompetition -----------------------------
(***************************************************************************)
(* The plans of the competition service, from the draft the scheduler      *)
(* makes to the stored plan and its edits.  The models of the two halves   *)
(* share no state: a behaviour is of one of them.                          *)
(***************************************************************************)
EXTENDS PlanScheduler, PreparationPlans, TLC

VARIABLE service   \* the one that this behaviour is of

-----------------------------------------------------------------------------
(***************************************************************************)
(* Drafts.  Requests of both time models whose windows run from too short  *)
(* for the phases to over three weeks (23 days has a rounding tie), with   *)
(* blocked days that close a whole phase, every level and the smallest and *)
(* largest weekly hours.                                                   *)
(***************************************************************************)
Windows == {0, 1, 2, 3, 4, 7, 22}

Asked(model, days, level, hours, blocked, deadline, defense, event) ==
    [competition |-> TRUE, calendar_today |-> 1, target_date |-> 1 + days,
     weekly_hours |-> hours, experience_level |-> level, time_model |-> model,
     event_end_date |-> event, defense_date |-> defense, school_deadline |-> deadline,
     blocked |-> blocked]

MCRequests ==
    {Asked("submission_deadline", d, l, h, b, 0, 0, 0) :
        d \in Windows, l \in Level, h \in {4, 18}, b \in {{}, {4, 5}, {2}}} \cup
    {Asked("competition_window", d, l, 4, b, 0, 0, 0) :
        d \in Windows, l \in Level, b \in {{}, {3, 4}}} \cup
    {Asked("submission_deadline", 7, "beginner", 8, {}, s, e, 0) : s \in {0, 5}, e \in {8, 9, 12}} \cup
    {Asked("competition_window", 7, "beginner", 8, {}, 0, e, v) : e \in {0, 12}, v \in {3, 8, 9}} \cup
    {[Asked("competition_window", 7, "beginner", 8, {}, 0, 0, 0) EXCEPT !.competition = FALSE]}

MCOutputs ==
    {<<>>,
     <<[key |-> "practice", hours |-> <<2, 3>>], [key |-> "foundation", hours |-> <<1>>]>>,
     <<[key |-> "practice", hours |-> <<40>>], [key |-> "practice", hours |-> <<5>>]>>,
     <<[key |-> "practice", hours |-> <<2>>], [key |-> "simulation", hours |-> <<40>>]>>,
     <<[key |-> "submission", hours |-> <<1>>]>>,
     <<[key |-> "practice", hours |-> <<1, 1, 1>>]>>,
     <<[key |-> "practice", hours |-> <<0>>]>>}

-----------------------------------------------------------------------------
(***************************************************************************)
(* Plans.  One draft of each time model, and a model that proposes cards   *)
(* of every type, some of which must be rejected.                          *)
(***************************************************************************)
DaysOf(a, b) == [from |-> a, to |-> b]
T(id, phase, kind, due) == [id |-> id, phase |-> phase, kind |-> kind, due |-> due]

Submission ==
    [model |-> "submission_deadline", target |-> 3, rev |-> 0,
     phases |-> ("submission" :> DaysOf(1, 3) @@ "defense_prep" :> DaysOf(4, 5)),
     tasks |-> {T("r1", "submission", "required", 3), T("o1", "submission", "optional", 2)}]

Window ==
    [model |-> "competition_window", target |-> 3, rev |-> 0,
     phases |-> ("simulation" :> DaysOf(1, 3) @@ "event_sprint" :> DaysOf(3, 4)),
     tasks |-> {T("r1", "event_sprint", "required", 4)}]

MCDrafts == {Submission, Window}

Card(type, task, phase, date, from, to) ==
    [type |-> type, task |-> task, phase |-> phase, date |-> date, from |-> from, to |-> to]

MCCardOutputs ==
    {<<Card("move_task", "r1", None, 2, 0, 0), Card("delete_task", "r1", None, None, 0, 0)>>,
     <<Card("move_task", "r1", "defense_prep", 2, 0, 0), Card("delete_task", "o1", None, None, 0, 0)>>,
     <<Card("reschedule_phase", "", "defense_prep", None, 3, 5), Card("append_advice", "", None, None, 0, 0)>>,
     <<Card("reschedule_phase", "", "event_sprint", None, 3, 5), Card("add_task", "n1", "event_sprint", 4, 0, 0),
       Card("malformed", "", None, None, 0, 0)>>}

\* The keys are interchangeable, and so are the requests in progress.
Symmetry == Permutations(Keys) \cup Permutations(Slots)

-----------------------------------------------------------------------------
\* Before the first call of the scheduler it does not matter what its request was.
MCInit ==
    /\ req = CHOOSE r \in Requests : TRUE
    /\ service \in {"drafts", "plans"}
    /\ Init /\ PlansInit
    /\ service = "drafts" => copy = Submission

\* The plans stop where their bounds end; the scheduler never does.
MCNext ==
    \/ service = "drafts" /\ Next /\ UNCHANGED <<planVars, service>>
    \/ service = "plans" /\ PlansNext /\ UNCHANGED <<vars, service>>
    \/ service = "plans" /\ UNCHANGED <<vars, planVars, service>>

MCSpec == MCInit /\ [][MCNext]_<<vars, planVars, service>>
=============================================================================
