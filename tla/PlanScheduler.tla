---------------------------- MODULE PlanScheduler ----------------------------
(***************************************************************************)
(* One call of PreparationPlanGenerator.generate: the request is checked,  *)
(* the phase templates get calendar ranges in proportion to their weights, *)
(* the template tasks get due dates, and a generated personalization may   *)
(* add optional tasks.  The loops of the scheduler are steps, so that what *)
(* they maintain can be stated and proved.                                 *)
(*                                                                         *)
(* Dates are day numbers from 1 on; NoDate stands for a missing date.      *)
(* Weights are percentages, hours are whole, and the weekly budget is      *)
(* compared in hours times seven days.                                     *)
(***************************************************************************)
EXTENDS Integers, Sequences

CONSTANTS
    Requests,        \* the requests a caller may make
    Outputs,         \* what the model may return: sequences of phase blocks
    MaxPerPhase      \* max_optional_tasks_per_phase of the generation profile

VARIABLES
    pc,       \* where the call is
    req,      \* the request
    count,    \* the phases that have a range
    first,    \* the first day of each phase, in template order
    last,     \* its last day
    cursor,   \* the first day not allocated yet
    left,     \* the days not allocated yet
    next,     \* the next template task to place
    tasks,    \* the tasks placed
    used,     \* the hours of the optional tasks
    adds,     \* the generated tasks still to add
    added,    \* the generated tasks added, discarded when one does not fit
    result    \* what the call returned

vars == <<pc, req, count, first, last, cursor, left, next, tasks, used, adds, added, result>>

NoDate == 0
Models == {"submission_deadline", "competition_window"}
Level == {"beginner", "intermediate", "experienced"}

(***************************************************************************)
(* A request; competition tells whether the catalog holds its card.        *)
(***************************************************************************)
Request ==
    [competition : BOOLEAN, calendar_today : Nat \ {0}, target_date : Nat \ {0},
     weekly_hours : Int, experience_level : Level, time_model : Models,
     event_end_date : Nat, defense_date : Nat, school_deadline : Nat,
     blocked : SUBSET Nat]

ASSUME RequestsType == Requests \subseteq Request
ASSUME OutputsType == Outputs \subseteq Seq([key : STRING, hours : Seq(Int)])
ASSUME LimitType == MaxPerPhase \in Nat

(***************************************************************************)
(* The templates: the phases before the target date, the ones after it,    *)
(* their weights and their tasks.                                          *)
(***************************************************************************)
Pre(model) ==
    IF model = "submission_deadline"
    THEN <<"foundation", "practice", "simulation", "submission">>
    ELSE <<"foundation", "practice", "simulation">>

Post(model) ==
    IF model = "submission_deadline" THEN <<"defense_prep">> ELSE <<"event_sprint", "recovery">>

Weight == [foundation |-> 22, practice |-> 34, simulation |-> 24, submission |-> 12]

TotalWeight(model) == IF model = "submission_deadline" THEN 92 ELSE 80

\* The number of a phase among the templates.
At(phase) ==
    CASE phase = "foundation" -> 1 [] phase = "practice" -> 2 [] phase = "simulation" -> 3
      [] phase = "submission" -> 4 [] phase = "defense_prep" -> 5
      [] phase = "event_sprint" -> 4 [] phase = "recovery" -> 5

Phases(model) == Pre(model) \o Post(model)

Task(pos, key, phase, hours, kind, min) ==
    [pos |-> pos, key |-> key, phase |-> phase, hours |-> hours, kind |-> kind, min |-> min]

Templates(model, level) ==
    {Task(1, "foundation-core", "foundation", 12, "required", 1),
     Task(2, "foundation-record", "foundation", 6,
          IF level = "beginner" THEN "required" ELSE "optional", 1),
     Task(3, "practice-required", "practice", 20, "required", 1),
     Task(4, "practice-review", "practice", 6, "optional", 1),
     Task(5, "practice-replication", "practice", 12, "optional", 3),
     Task(6, "simulation-required", "simulation", 12, "required", 1),
     Task(7, "simulation-review", "simulation", 8, "required", 1)}
    \cup IF model = "submission_deadline"
         THEN {Task(8, "submission-package", "submission", 8, "required", 1),
               Task(9, "defense-required", "defense_prep", 8, "required", 1),
               Task(10, "defense-advanced", "defense_prep", 6, "optional", 3)}
         ELSE {Task(8, "event-required", "event_sprint", 8, "required", 1),
               Task(9, "recovery-required", "recovery", 4, "required", 1)}

NoDays == [i \in 1..5 |-> NoDate]
Running == [kind |-> "none", fallback |-> FALSE]
Answer(kind, fallback) == [kind |-> kind, fallback |-> fallback]

Init ==
    /\ pc = "done"
    /\ req \in Requests
    /\ count = 0 /\ first = NoDays /\ last = NoDays
    /\ cursor = NoDate /\ left = 0
    /\ next = 1 /\ tasks = {} /\ used = 0
    /\ adds = {} /\ added = {}
    /\ result = Running

\* The call returns kind; nothing else changes any more.
Return(kind, fallback) ==
    /\ pc' = "done"
    /\ result' = Answer(kind, fallback)

(***************************************************************************)
(* A new call: _validate_request, the catalog lookup and the school        *)
(* deadline; then the days of the phases before the target are counted.    *)
(***************************************************************************)
InvalidRequest(r) ==
    \/ r.weekly_hours <= 0
    \/ r.target_date <= r.calendar_today
    \/ r.time_model = "competition_window" /\ r.defense_date # NoDate
    \/ r.time_model = "submission_deadline" /\ r.event_end_date # NoDate

Unschedulable(r) ==
    \/ r.school_deadline # NoDate /\ r.target_date > r.school_deadline
    \/ r.target_date - r.calendar_today + 1 < Len(Pre(r.time_model))

Generate(r) ==
    /\ pc = "done"
    /\ req' = r
    /\ count' = 0 /\ first' = NoDays /\ last' = NoDays
    /\ cursor' = r.calendar_today
    /\ left' = r.target_date - r.calendar_today + 1
    /\ next' = 1 /\ tasks' = {} /\ used' = 0 /\ adds' = {} /\ added' = {}
    /\ \/ (InvalidRequest(r) \/ (r.competition /\ Unschedulable(r))) /\ Return("PLAN_INVALID", FALSE)
       \/ ~InvalidRequest(r) /\ ~r.competition /\ Return("CATALOG_UNAVAILABLE", FALSE)
       \/ /\ ~InvalidRequest(r) /\ r.competition /\ ~Unschedulable(r)
          /\ pc' = "allocate" /\ result' = Running

(***************************************************************************)
(* One round of _allocate_ranges.  The share of a phase is rounded to a    *)
(* nearest whole number (the float product decides ties, so either may be  *)
(* taken), raised to one day, and cut so that every later phase keeps one; *)
(* the last phase takes what is left.                                      *)
(***************************************************************************)
Total == req.target_date - req.calendar_today + 1

Nearest(n, d) == {q \in {n \div d, n \div d + 1} : 2 * (q * d - n) <= d /\ 2 * (n - q * d) <= d}

AtLeastOne(n) == IF n < 1 THEN 1 ELSE n
AtMost(n, m) == IF n > m THEN m ELSE n

\* The last phase rounds its share as well.
DaysRounded(i, n) ==
    {AtMost(AtLeastOne(q), left - (n - i)) :
        q \in Nearest(Total * Weight[Pre(req.time_model)[i]], TotalWeight(req.time_model))}

Days(i, n) ==
    IF i = n THEN {left}
    ELSE {AtMost(AtLeastOne(q), left - (n - i)) :
            q \in Nearest(Total * Weight[Pre(req.time_model)[i]], TotalWeight(req.time_model))}

Allocate ==
    LET n == Len(Pre(req.time_model))
        i == count + 1
    IN  /\ pc = "allocate"
        /\ i <= n
        /\ \E days \in Days(i, n) :
             /\ first' = [first EXCEPT ![i] = cursor]
             /\ last' = [last EXCEPT ![i] = cursor + days - 1]
             /\ cursor' = cursor + days
             /\ left' = left - days
        /\ count' = i
        /\ UNCHANGED <<pc, req, next, tasks, used, adds, added, result>>

(***************************************************************************)
(* The ranges after the target date: the defence, or the event window and  *)
(* the recovery week after it.                                             *)
(***************************************************************************)
DefenseEnd(r) == IF r.defense_date # NoDate THEN r.defense_date ELSE r.target_date + 14
EventEnd(r) == IF r.event_end_date # NoDate THEN r.event_end_date ELSE r.target_date

AllocatePost ==
    /\ pc = "allocate"
    /\ count = Len(Pre(req.time_model))
    /\ \/ /\ req.time_model = "submission_deadline"
          /\ first' = [first EXCEPT ![5] = req.target_date + 1]
          /\ last' = [last EXCEPT ![5] = DefenseEnd(req)]
          /\ pc' = "place" /\ UNCHANGED result
       \/ /\ req.time_model = "competition_window" /\ EventEnd(req) >= req.target_date
          /\ first' = [first EXCEPT ![4] = req.target_date, ![5] = EventEnd(req) + 1]
          /\ last' = [last EXCEPT ![4] = EventEnd(req), ![5] = EventEnd(req) + 7]
          /\ pc' = "place" /\ UNCHANGED result
       \/ /\ req.time_model = "competition_window" /\ EventEnd(req) < req.target_date
          /\ Return("PLAN_INVALID", FALSE) /\ UNCHANGED <<first, last>>
    /\ UNCHANGED <<req, count, cursor, left, next, tasks, used, adds, added>>

(***************************************************************************)
(* The next template task gets the last day of its phase that is not       *)
(* blocked.  A task the level is too low for is skipped; an optional task  *)
(* without a day or beyond the budget is dropped; a mandatory task without *)
(* a day ends the call.                                                    *)
(***************************************************************************)
Open(p) == {d \in first[p]..last[p] : d \notin req.blocked}
LastOpen(p) == {d \in Open(p) : \A e \in Open(p) : e <= d}

Rank(level) ==
    IF level = "experienced" THEN 3 ELSE IF level = "intermediate" THEN 2 ELSE 1
Eligible(t) == Rank(req.experience_level) >= t.min

WeekDays == IF req.target_date - req.calendar_today < 7 THEN 7 ELSE req.target_date - req.calendar_today
Budget == req.weekly_hours * WeekDays
Fits(hours) == 7 * (used + hours) <= Budget

PlaceTask ==
    \E t \in Templates(req.time_model, req.experience_level) :
        LET p == At(t.phase) IN
        /\ pc = "place"
        /\ t.pos = next
        /\ next' = next + 1
        /\ \/ /\ Eligible(t)
              /\ t.kind = "required" \/ Fits(t.hours)
              /\ \E due \in LastOpen(p) :
                   tasks' = tasks \cup {[key |-> t.key, index |-> 0, phase |-> t.phase,
                                         due |-> due, kind |-> t.kind]}
              /\ used' = IF t.kind = "required" THEN used ELSE used + t.hours
              /\ UNCHANGED <<pc, result>>
           \/ /\ \/ ~Eligible(t)
                 \/ t.kind = "optional" /\ (Open(p) = {} \/ ~Fits(t.hours))
              /\ UNCHANGED <<tasks, used, pc, result>>
           \/ /\ Eligible(t) /\ t.kind = "required" /\ Open(p) = {}
              /\ Return("PLAN_INVALID", FALSE)
              /\ UNCHANGED <<tasks, used>>
        /\ UNCHANGED <<req, count, first, last, cursor, left, adds, added>>

(***************************************************************************)
(* The draft is built and checked by validate_plan; then the model is      *)
(* asked to personalize it, and the call waits.                            *)
(***************************************************************************)
validate_plan(ts) ==
    /\ req.time_model = "submission_deadline" => first[5] > req.target_date
    /\ req.time_model = "competition_window" => first[4] = req.target_date
    /\ \E t \in ts : t.kind = "required"

BuildDraft ==
    /\ pc = "place"
    /\ \A t \in Templates(req.time_model, req.experience_level) : t.pos < next
    /\ IF validate_plan(tasks) THEN pc' = "ask" /\ UNCHANGED result
                                        ELSE Return("PLAN_INVALID", FALSE)
    /\ UNCHANGED <<req, count, first, last, cursor, left, next, tasks, used, adds, added>>

(***************************************************************************)
(* The model's answer.  Without one, with a warning, or when the output    *)
(* does not check, the template stands; an error outside the expected ones *)
(* leaves the call.  A later block for a phase replaces an earlier one.    *)
(***************************************************************************)
validate_personalization_output(out) ==
    \A b \in DOMAIN out :
        /\ out[b].key \in {Phases(req.time_model)[i] : i \in DOMAIN Phases(req.time_model)}
        /\ Len(out[b].hours) <= MaxPerPhase
        /\ \A i \in DOMAIN out[b].hours : out[b].hours[i] > 0

Wanted(out) ==
    UNION {{[phase |-> out[b].key, index |-> i, hours |-> out[b].hours[i]] :
              i \in DOMAIN out[b].hours} :
           b \in {c \in DOMAIN out : \A d \in DOMAIN out : d > c => out[d].key # out[c].key}}

AskUnanswered ==
    /\ pc = "ask"
    /\ \/ Return("draft", TRUE)
       \/ Return("raised", FALSE)
    /\ UNCHANGED <<req, count, first, last, cursor, left, next, tasks, used, adds, added>>

AskAnswered(out) ==
    /\ pc = "ask"
    /\ \/ /\ validate_personalization_output(out)
          /\ adds' = Wanted(out) /\ pc' = "personalize" /\ UNCHANGED result
       \/ ~validate_personalization_output(out) /\ Return("draft", TRUE) /\ UNCHANGED adds
    /\ UNCHANGED <<req, count, first, last, cursor, left, next, tasks, used, added>>

(***************************************************************************)
(* One generated task: its phase must have an open day, or it is skipped;  *)
(* when one does not fit the budget all of them are given up.  The draft   *)
(* takes the additions at the end.                                         *)
(***************************************************************************)
AddTask ==
    /\ pc = "personalize"
    /\ \E a \in adds :
         LET p == At(a.phase)
         IN  /\ adds' = adds \ {a}
             /\ \/ /\ Open(p) = {}
                   /\ UNCHANGED <<pc, tasks, used, added, result>>
                \/ /\ Open(p) # {} /\ ~Fits(a.hours)
                   /\ added' = {} /\ Return("draft", TRUE)
                   /\ UNCHANGED <<tasks, used>>
                \/ /\ Fits(a.hours)
                   /\ \E due \in LastOpen(p) :
                        added' = added \cup {[key |-> "ai", index |-> a.index, phase |-> a.phase,
                                              due |-> due, kind |-> "optional"]}
                   /\ used' = used + a.hours
                   /\ UNCHANGED <<pc, tasks, result>>
    /\ UNCHANGED <<req, count, first, last, cursor, left, next>>

Personalized ==
    /\ pc = "personalize"
    /\ adds = {}
    /\ tasks' = tasks \cup added
    /\ Return("draft", FALSE)
    /\ UNCHANGED <<req, count, first, last, cursor, left, next, used, adds, added>>

Step ==
    \/ Allocate \/ AllocatePost \/ PlaceTask \/ BuildDraft
    \/ AskUnanswered \/ AddTask \/ Personalized
    \/ \E out \in Outputs : AskAnswered(out)

Next == Step \/ \E r \in Requests : Generate(r)

Spec == Init /\ [][Next]_vars

-----------------------------------------------------------------------------
Drafted == pc = "done" /\ result.kind = "draft"

(***************************************************************************)
(* The phases before the target share its days without a gap or an         *)
(* overlap, each with at least one day, whatever rounding the weights meet *)
(* (_allocate_ranges).                                                     *)
(***************************************************************************)
PhasesTile ==
    LET n == Len(Pre(req.time_model))
    IN  /\ first[1] = req.calendar_today
        /\ last[n] = req.target_date
        /\ \A i \in 1..n : first[i] <= last[i]
        /\ \A i \in 1..(n - 1) : first[i + 1] = last[i] + 1

(***************************************************************************)
(* Every task, template or generated, is due inside its phase and not on a *)
(* blocked day (_available_due_date, _personalize).                        *)
(***************************************************************************)
TasksOnOpenDays ==
    \A t \in tasks : t.due \in (first[At(t.phase)]..last[At(t.phase)]) \ req.blocked

\* No mandatory task is missing from a plan (schedule_plan).
MandatoryPlaced ==
    \A m \in Templates(req.time_model, req.experience_level) :
        m.kind = "required" => \E t \in tasks : t.key = m.key

\* The optional hours never exceed what the student has until the target.
WithinBudget == 7 * used <= Budget

(***************************************************************************)
(* A plan that generate returns, personalized or not, divides the calendar *)
(* before the target, schedules every mandatory task, keeps off the        *)
(* blocked days, and its optional tasks keep within the weekly hours.      *)
(***************************************************************************)
DraftSound ==
    Drafted => PhasesTile /\ TasksOnOpenDays /\ MandatoryPlaced /\ WithinBudget
=============================================================================
