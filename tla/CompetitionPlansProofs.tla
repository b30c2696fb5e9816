----------------------- MODULE CompetitionPlansProofs -----------------------
(***************************************************************************)
(* The life of a competition plan: the generator makes it (PlanScheduler), *)
(* the client, the repository and the assistant keep and edit it           *)
(* (PreparationPlans).  The two share no state; the first part proves what *)
(* a generated plan is, the second what every stored plan still is.        *)
(***************************************************************************)
EXTENDS PlanScheduler, PreparationPlans, SequenceTheorems, TLAPS

-----------------------------------------------------------------------------
(***************************************************************************)
(* Proofs, for any requests, any generated output and any limit, that a    *)
(* plan the generator returns is sound.                                    *)
(*                                                                         *)
(* The heart of it is the loop of _allocate_ranges: cursor and left always *)
(* split the days up to the target, and left never falls below the number  *)
(* of phases still to come, which is what the cut to left - phases_left    *)
(* maintains whatever the rounded share is.                                *)
(***************************************************************************)

N == Len(Pre(req.time_model))

\* The shape of the state the steps below rely on.
Typed ==
    /\ pc \in {"allocate", "place", "ask", "personalize", "done"}
    /\ req \in Requests
    /\ count \in 0..5 /\ first \in [1..5 -> Int] /\ last \in [1..5 -> Int]
    /\ cursor \in Int /\ left \in Int /\ used \in Int
    /\ next \in Nat \ {0}
    /\ result.kind = "none" \/ pc = "done"

\* A running call has passed the checks of the request.
Accepted ==
    /\ req.weekly_hours > 0
    /\ req.calendar_today < req.target_date

\* The loop of _allocate_ranges.
Allocating ==
    /\ count <= N
    /\ cursor + left = req.target_date + 1
    /\ left >= N - count
    /\ count = N => left = 0
    /\ count = 0 => cursor = req.calendar_today
    /\ count > 0 => first[1] = req.calendar_today /\ last[count] = cursor - 1
    /\ \A i \in 1..count : first[i] <= last[i]
    /\ \A i \in 1..(count - 1) : first[i + 1] = last[i] + 1
    /\ next = 1 /\ tasks = {} /\ used = 0 /\ adds = {} /\ added = {}

\* The mandatory tasks among the first k template tasks are placed.
PlacedUpTo(k) ==
    \A m \in Templates(req.time_model, req.experience_level) :
        (m.pos < k /\ m.kind = "required") => \E t \in tasks : t.key = m.key

OnOpenDays(ts) ==
    \A t \in ts : t.due \in (first[At(t.phase)]..last[At(t.phase)]) \ req.blocked

\* From the end of the allocation on.
Scheduled ==
    /\ PhasesTile
    /\ OnOpenDays(tasks) /\ OnOpenDays(added)
    /\ PlacedUpTo(next)
    /\ WithinBudget
    /\ pc \in {"ask", "personalize", "done"}
         => \A t \in Templates(req.time_model, req.experience_level) : t.pos < next
    /\ adds \subseteq [phase : STRING, index : Int, hours : Int]

SchedulerInv ==
    /\ Typed
    /\ pc # "done" => Accepted
    /\ pc = "allocate" => Allocating
    /\ pc \in {"place", "ask", "personalize"} \/ Drafted => Scheduled

-----------------------------------------------------------------------------
\* The phases before the target are three or four.
LEMMA PreLength == \A m \in Models : Len(Pre(m)) \in {3, 4}
  BY DEF Pre, Models

\* What a template task is made of.
LEMMA TemplateFields ==
    ASSUME NEW m, NEW l, NEW t \in Templates(m, l)
    PROVE  /\ t.pos \in Nat \ {0} /\ t.hours \in Nat /\ t.kind \in {"required", "optional"}
           /\ t.kind = "required" => t.min = 1
           /\ \A u \in Templates(m, l) : u.pos = t.pos => u = t
  BY DEF Templates, Task

\* What a request is made of.
LEMMA RequestFields ==
    ASSUME NEW r \in Requests
    PROVE  /\ r.calendar_today \in Nat \ {0} /\ r.target_date \in Nat \ {0}
           /\ r.weekly_hours \in Int /\ r.time_model \in Models
           /\ r.defense_date \in Nat /\ r.event_end_date \in Nat
           /\ r.experience_level \in Level
  BY RequestsType DEF Request

\* The hours available are not negative.
LEMMA BudgetNat == ASSUME Typed, Accepted PROVE Budget \in Nat
  <1>1. req.weekly_hours \in Nat /\ WeekDays \in Nat
    BY RequestFields DEF Typed, Accepted, WeekDays
  <1>2. \A a, b \in Nat : a * b \in Nat
    OBVIOUS
  <1> QED BY <1>1, <1>2 DEF Budget

\* The weights are positive percentages.
LEMMA WeightInt == \A m \in Models : \A i \in 1..Len(Pre(m)) : Weight[Pre(m)[i]] \in Int
  <1>1. /\ Weight["foundation"] = 22 /\ Weight["practice"] = 34
        /\ Weight["simulation"] = 24 /\ Weight["submission"] = 12
    BY DEF Weight
  <1> QED BY <1>1 DEF Pre, Models

\* Every share the loop may take leaves a day for each later phase.
LEMMA DaysBounds ==
    ASSUME req \in Requests, left \in Int,
           NEW i \in 1..N, left >= N - i + 1, NEW days \in Days(i, N)
    PROVE  days \in Int /\ 1 <= days /\ days <= left - (N - i) /\ (i = N => days = left)
  <1>0. N \in {3, 4}
    BY PreLength, RequestFields DEF N
  <1>1. CASE i = N
    BY <1>0, <1>1 DEF Days
  <1>2. CASE i # N
    <2>1. PICK q \in Nearest(Total * Weight[Pre(req.time_model)[i]], TotalWeight(req.time_model)) :
             days = AtMost(AtLeastOne(q), left - (N - i))
      BY <1>2 DEF Days
    <2>2. Weight[Pre(req.time_model)[i]] \in Int /\ Total \in Int /\ TotalWeight(req.time_model) \in {92, 80}
      <3>1. req.time_model \in Models /\ Total \in Int
        BY RequestFields DEF Total
      <3>2. Weight[Pre(req.time_model)[i]] \in Int
        BY <3>1, WeightInt DEF N
      <3> QED BY <3>1, <3>2 DEF TotalWeight
    <2>3. Total * Weight[Pre(req.time_model)[i]] \in Int
      BY <2>2
    <2>4. q \in Int
      BY <2>1, <2>2, <2>3 DEF Nearest
    <2> QED BY <1>0, <1>2, <2>1, <2>4 DEF AtMost, AtLeastOne
  <1> QED BY <1>1, <1>2

-----------------------------------------------------------------------------
\* Before the first call nothing is running.
LEMMA InitInv == Init => SchedulerInv
  BY DEF Init, SchedulerInv, Typed, Running, NoDays, NoDate, Drafted

\* A new call starts with the whole calendar unallocated.
LEMMA GenerateInv ==
    ASSUME SchedulerInv, NEW r \in Requests, Generate(r) PROVE SchedulerInv'
  <1>1. Len(Pre(r.time_model)) \in {3, 4}
    BY PreLength, RequestFields
  <1>2. \/ pc' = "done" /\ result'.kind # "draft"
        \/ pc' = "allocate" /\ ~InvalidRequest(r) /\ ~Unschedulable(r) /\ result' = Running
    <2>1. \/ Return("PLAN_INVALID", FALSE) \/ Return("CATALOG_UNAVAILABLE", FALSE)
          \/ pc' = "allocate" /\ ~InvalidRequest(r) /\ ~Unschedulable(r) /\ result' = Running
      BY Zenon DEF Generate
    <2> QED BY <2>1 DEF Return, Answer
  <1>3. /\ req' = r /\ count' = 0 /\ first' = NoDays /\ last' = NoDays /\ cursor' = r.calendar_today
        /\ left' = r.target_date - r.calendar_today + 1
        /\ next' = 1 /\ tasks' = {} /\ used' = 0 /\ adds' = {} /\ added' = {}
    BY DEF Generate
  <1>4. Typed'
    BY <1>2, <1>3, RequestFields DEF Typed, Running, NoDays, NoDate
  <1>5. pc' # "done" => Accepted'
    BY <1>2, <1>3, RequestFields DEF Accepted, InvalidRequest
  <1>6. pc' = "allocate" => Allocating'
    <2>1. r.calendar_today \in Int /\ r.target_date \in Int
      BY RequestFields
    <2>2. N' = Len(Pre(r.time_model))
      BY <1>3 DEF N
    <2>3. ASSUME pc' = "allocate" PROVE Allocating'
      <3>1. r.target_date - r.calendar_today + 1 >= Len(Pre(r.time_model))
        BY <1>1, <1>2, <2>1, <2>3 DEF Unschedulable
      <3>2. count' = 0 /\ cursor' = r.calendar_today /\ left' = r.target_date - r.calendar_today + 1
        BY <1>3
      <3>3. /\ count' <= N' /\ left' >= N' - count' /\ count' # N'
            /\ cursor' + left' = r.target_date + 1
        <4>1. \A x, y \in Int : x + (y - x + 1) = y + 1
          OBVIOUS
        <4>2. cursor' + left' = r.target_date + 1
          BY <2>1, <3>2, <4>1
        <4>3. N' \in {3, 4} /\ left' >= N'
          BY <1>1, <2>2, <3>1, <3>2
        <4> QED BY <3>2, <4>2, <4>3, <2>1
      <3> QED BY <1>3, <3>2, <3>3 DEF Allocating
    <2> QED BY <2>3
  <1>7. ~(pc' \in {"place", "ask", "personalize"} \/ Drafted')
    BY <1>2 DEF Drafted
  <1> QED BY <1>4, <1>5, <1>6, <1>7 DEF SchedulerInv

\* A round of the loop keeps the split of the days.
LEMMA AllocateInv == ASSUME SchedulerInv, Allocate PROVE SchedulerInv'
  <1> DEFINE i == count + 1
  <1>1. N \in {3, 4}
    BY PreLength, RequestFields DEF N, SchedulerInv, Typed
  <1>2. Typed /\ Accepted /\ Allocating /\ pc = "allocate" /\ result.kind = "none"
    BY DEF SchedulerInv, Allocate, Typed
  <1>3. PICK days \in Days(i, N) :
          /\ first' = [first EXCEPT ![i] = cursor]
          /\ last' = [last EXCEPT ![i] = cursor + days - 1]
          /\ cursor' = cursor + days
          /\ left' = left - days
          /\ count' = i
    BY DEF Allocate, N
  <1>4. i \in 1..N
    BY <1>1, <1>2 DEF Allocate, N, Typed
  <1>5. days \in Int /\ 1 <= days /\ days <= left - (N - i) /\ (i = N => days = left)
    <2>1. left >= N - i + 1
      BY <1>1, <1>2 DEF Allocating, Typed
    <2> QED BY <1>2, <1>3, <1>4, <2>1, DaysBounds DEF Typed
  <1>6. N' = N /\ UNCHANGED <<req, pc, next, tasks, used, adds, added, result>>
    BY DEF Allocate, N
  <1>7. Typed'
    BY <1>1, <1>2, <1>3, <1>4, <1>5, <1>6 DEF Typed
  <1>8. Allocating'
    <2>1. req.calendar_today \in Int /\ req.target_date \in Int
      BY <1>2, RequestFields DEF Typed
    <2> QED BY <1>1, <1>2, <1>3, <1>4, <1>5, <1>6, <2>1 DEF Allocating, Typed
  <1> QED BY <1>2, <1>6, <1>7, <1>8 DEF SchedulerInv, Accepted, Drafted

\* The allocation ends with every day up to the target given to a phase.
LEMMA AllocatePostInv == ASSUME SchedulerInv, AllocatePost PROVE SchedulerInv'
  <1>1. N \in {3, 4} /\ N = (IF req.time_model = "submission_deadline" THEN 4 ELSE 3)
    BY RequestFields DEF N, SchedulerInv, Typed, Pre, Models
  <1>2. Typed /\ Accepted /\ Allocating /\ pc = "allocate" /\ result.kind = "none"
    BY DEF SchedulerInv, AllocatePost, Typed
  <1>3. /\ N' = N /\ count = N
        /\ UNCHANGED <<req, count, cursor, left, next, tasks, used, adds, added>>
    BY DEF AllocatePost, N
  <1>4. /\ req.target_date \in Int /\ DefenseEnd(req) \in Int /\ EventEnd(req) \in Int
    BY <1>2, RequestFields DEF Typed, DefenseEnd, EventEnd
  <1>5. /\ first' \in [1..5 -> Int] /\ last' \in [1..5 -> Int]
        /\ \A k \in 1..N : first'[k] = first[k] /\ last'[k] = last[k]
        /\ \/ pc' = "place" /\ result' = result
           \/ pc' = "done" /\ result'.kind = "PLAN_INVALID"
    <2>1. CASE req.time_model = "submission_deadline"
      <3>1. /\ first' = [first EXCEPT ![5] = req.target_date + 1]
            /\ last' = [last EXCEPT ![5] = DefenseEnd(req)]
            /\ pc' = "place" /\ result' = result
        BY <2>1 DEF AllocatePost
      <3> QED BY <1>1, <1>2, <1>4, <3>1 DEF Typed
    <2>2. CASE req.time_model # "submission_deadline" /\ pc' = "place"
      <3>1. /\ first' = [first EXCEPT ![4] = req.target_date, ![5] = EventEnd(req) + 1]
            /\ last' = [last EXCEPT ![4] = EventEnd(req), ![5] = EventEnd(req) + 7]
            /\ result' = result
        BY <2>2 DEF AllocatePost, Return
      <3> QED BY <1>1, <1>2, <1>4, <2>2, <3>1 DEF Typed
    <2>3. CASE req.time_model # "submission_deadline" /\ pc' # "place"
      <3>1. Return("PLAN_INVALID", FALSE) /\ UNCHANGED <<first, last>>
        BY <2>3 DEF AllocatePost
      <3> QED BY <1>2, <3>1 DEF Typed, Return, Answer
    <2> QED BY <2>1, <2>2, <2>3
  <1>6. Typed'
    BY <1>2, <1>3, <1>5 DEF Typed
  <1>7. PhasesTile'
    <2>1. /\ first[1] = req.calendar_today /\ last[N] = req.target_date
          /\ \A k \in 1..N : first[k] <= last[k]
          /\ \A k \in 1..(N - 1) : first[k + 1] = last[k] + 1
      BY <1>1, <1>2, <1>3, <1>4 DEF Allocating, Typed
    <2>2. first'[1] = req.calendar_today /\ last'[N] = req.target_date
      BY <1>1, <1>5, <2>1
    <2>3. \A k \in 1..N : first'[k] <= last'[k]
      BY <1>5, <2>1
    <2>4. \A k \in 1..(N - 1) : first'[k + 1] = last'[k] + 1
      <3>1. \A k \in 1..(N - 1) : k \in 1..N /\ k + 1 \in 1..N
        BY <1>1
      <3> QED BY <1>5, <2>1, <3>1
    <2>5. N = Len(Pre(req.time_model)) /\ Len(Pre(req'.time_model)) = N
          /\ req' = req
      BY <1>3 DEF N
    <2> HIDE DEF N
    <2> QED BY <2>2, <2>3, <2>4, <2>5 DEF PhasesTile
  <1>8. pc' = "place" => Scheduled'
    <2>1. tasks' = {} /\ adds' = {} /\ added' = {} /\ next' = 1 /\ used' = 0
      BY <1>2, <1>3 DEF Allocating
    <2>2. Budget' \in Nat
      BY <1>2, <1>3, BudgetNat DEF Budget, WeekDays
    <2>3. PlacedUpTo(next)'
      BY <2>1, TemplateFields DEF PlacedUpTo
    <2> QED BY <1>7, <2>1, <2>2, <2>3 DEF Scheduled, OnOpenDays, WithinBudget
  <1> QED BY <1>2, <1>3, <1>5, <1>6, <1>8 DEF SchedulerInv, Accepted, Drafted

-----------------------------------------------------------------------------
\* Placing one more task keeps the ones placed before it.
LEMMA PlaceTaskInv == ASSUME SchedulerInv, PlaceTask PROVE SchedulerInv'
  <1>1. Typed /\ Accepted /\ Scheduled /\ pc = "place" /\ result.kind = "none"
    BY DEF SchedulerInv, PlaceTask, Typed
  <1>2. PICK t \in Templates(req.time_model, req.experience_level) :
          /\ t.pos = next
          /\ next' = next + 1
          /\ \/ /\ t.kind = "required" \/ Fits(t.hours)
                /\ \E due \in LastOpen(At(t.phase)) :
                     tasks' = tasks \cup {[key |-> t.key, index |-> 0, phase |-> t.phase,
                                           due |-> due, kind |-> t.kind]}
                /\ used' = IF t.kind = "required" THEN used ELSE used + t.hours
                /\ UNCHANGED <<pc, result>>
             \/ /\ t.kind = "optional"
                /\ UNCHANGED <<tasks, used, pc, result>>
             \/ /\ Return("PLAN_INVALID", FALSE)
                /\ UNCHANGED <<tasks, used>>
    <2>1. \A t \in Templates(req.time_model, req.experience_level) :
            t.kind \in {"required", "optional"} /\ (t.kind = "required" => Eligible(t))
      <3>1. \A t : t.min = 1 => Eligible(t)
        BY DEF Eligible, Rank
      <3> QED BY <3>1, TemplateFields
    <2> QED BY <2>1 DEF PlaceTask
  <1>3. UNCHANGED <<req, count, first, last, cursor, left, adds, added>>
    BY DEF PlaceTask
  <1>4. /\ t.pos \in Nat \ {0} /\ t.hours \in Nat /\ t.kind \in {"required", "optional"}
        /\ next \in Nat /\ used \in Int
    BY <1>1, TemplateFields DEF Typed
  <1>5. Accepted' /\ PhasesTile' /\ OnOpenDays(added)'
    BY <1>1, <1>3 DEF Accepted, Scheduled, PhasesTile, OnOpenDays
  <1>6. CASE Return("PLAN_INVALID", FALSE) /\ UNCHANGED <<tasks, used>>
    <2>1. pc' = "done" /\ result'.kind # "draft"
      BY <1>6 DEF Return, Answer
    <2>2. Typed'
      BY <1>1, <1>2, <1>3, <1>4, <1>6, <2>1 DEF Typed
    <2> QED BY <1>5, <2>1, <2>2 DEF SchedulerInv, Drafted
  <1>7. ASSUME pc' = pc, result' = result, used' \in Int, 7 * used' <= Budget,
               OnOpenDays(tasks)', tasks \subseteq tasks',
               t.kind = "required" => \E u \in tasks' : u.key = t.key
        PROVE  SchedulerInv'
    <2>1. Typed'
      BY <1>1, <1>2, <1>3, <1>4, <1>7 DEF Typed
    <2>2. PlacedUpTo(next)'
      <3>1. ASSUME NEW m \in Templates(req.time_model, req.experience_level),
                   m.pos < next', m.kind = "required"
            PROVE  \E u \in tasks' : u.key = m.key
        <4>1. m.pos \in Nat
          BY TemplateFields
        <4>2. m.pos < next \/ m.pos = t.pos
          BY <1>2, <1>4, <3>1, <4>1
        <4>3. CASE m.pos < next
          BY <1>1, <1>7, <3>1, <4>3 DEF Scheduled, PlacedUpTo
        <4>4. CASE m.pos = t.pos
          <5>1. m = t
            BY <4>4, TemplateFields
          <5> QED BY <1>7, <3>1, <5>1
        <4> QED BY <4>2, <4>3, <4>4
      <3> QED BY <1>3, <3>1 DEF PlacedUpTo
    <2>3. WithinBudget'
      BY <1>3, <1>7 DEF WithinBudget, Budget, WeekDays
    <2>4. Scheduled'
      BY <1>1, <1>3, <1>5, <1>7, <2>2, <2>3 DEF Scheduled
    <2> QED BY <1>1, <1>5, <1>7, <2>1, <2>4 DEF SchedulerInv
  <1>8. Budget \in Nat /\ 7 * used <= Budget /\ OnOpenDays(tasks)
    BY <1>1, BudgetNat DEF Scheduled, WithinBudget
  <1>9. CASE t.kind = "optional" /\ UNCHANGED <<tasks, used, pc, result>>
    <2>1. OnOpenDays(tasks)'
      BY <1>3, <1>8, <1>9 DEF OnOpenDays
    <2> QED BY <1>4, <1>7, <1>8, <1>9, <2>1
  <1>10. ASSUME NEW due \in LastOpen(At(t.phase)),
                t.kind = "required" \/ Fits(t.hours),
                tasks' = tasks \cup {[key |-> t.key, index |-> 0, phase |-> t.phase,
                                      due |-> due, kind |-> t.kind]},
                used' = IF t.kind = "required" THEN used ELSE used + t.hours,
                UNCHANGED <<pc, result>>
         PROVE  SchedulerInv'
    <2> DEFINE new == [key |-> t.key, index |-> 0, phase |-> t.phase, due |-> due, kind |-> t.kind]
    <2>1. used' \in Int /\ 7 * used' <= Budget
      BY <1>4, <1>8, <1>10 DEF Fits
    <2>2. due \in (first[At(t.phase)]..last[At(t.phase)]) \ req.blocked
      BY <1>10 DEF LastOpen, Open
    <2>3. new.phase = t.phase /\ new.due = due /\ new.key = t.key
      OBVIOUS
    <2>4. tasks' = tasks \cup {new}
      BY <1>10
    <2> HIDE DEF new
    <2>5. OnOpenDays(tasks)'
      BY <1>3, <1>8, <2>2, <2>3, <2>4 DEF OnOpenDays
    <2> QED BY <1>7, <1>10, <2>1, <2>3, <2>4, <2>5
  <1> QED BY <1>2, <1>6, <1>9, <1>10

\* Once the draft is built its schedule only gains the generated tasks.
LEMMA AfterDraftInv ==
    ASSUME SchedulerInv, BuildDraft \/ AskUnanswered \/ Personalized PROVE SchedulerInv'
  <1>1. Typed /\ Accepted /\ Scheduled /\ pc \in {"place", "ask", "personalize"}
        /\ result.kind = "none"
    BY DEF SchedulerInv, BuildDraft, AskUnanswered, Personalized, Typed
  <1>2. UNCHANGED <<req, count, first, last, cursor, left, next, used, adds, added>>
    BY DEF BuildDraft, AskUnanswered, Personalized
  <1>3. \/ pc' = "done"
        \/ pc' = "ask" /\ result' = result
    BY DEF BuildDraft, AskUnanswered, Personalized, Return
  <1>4. \A t \in Templates(req.time_model, req.experience_level) : t.pos < next
    BY <1>1 DEF BuildDraft, AskUnanswered, Personalized, Scheduled
  <1>5. tasks' = tasks \/ tasks' = tasks \cup added
    BY DEF BuildDraft, AskUnanswered, Personalized
  <1>6. Typed' /\ Accepted'
    BY <1>1, <1>2, <1>3 DEF Typed, Accepted
  <1>7. OnOpenDays(tasks)' /\ OnOpenDays(added)'
    BY <1>1, <1>2, <1>5 DEF Scheduled, OnOpenDays
  <1>8. PlacedUpTo(next)'
    BY <1>1, <1>2, <1>5 DEF Scheduled, PlacedUpTo
  <1>9. PhasesTile' /\ WithinBudget'
    BY <1>1, <1>2 DEF Scheduled, PhasesTile, WithinBudget, Budget, WeekDays
  <1>10. Scheduled'
    BY <1>1, <1>2, <1>4, <1>7, <1>8, <1>9 DEF Scheduled
  <1> QED BY <1>3, <1>6, <1>10 DEF SchedulerInv

\* The model's output becomes a set of tasks to add, or is put aside.
LEMMA AskAnsweredInv ==
    ASSUME SchedulerInv, NEW out \in Outputs, AskAnswered(out) PROVE SchedulerInv'
  <1>1. Typed /\ Accepted /\ Scheduled /\ pc = "ask" /\ result.kind = "none"
    BY DEF SchedulerInv, AskAnswered, Typed
  <1>2. UNCHANGED <<req, count, first, last, cursor, left, next, tasks, used, added>>
    BY DEF AskAnswered
  <1>3. \/ pc' = "done" /\ adds' = adds
        \/ pc' = "personalize" /\ adds' = Wanted(out) /\ result' = result
    BY DEF AskAnswered, Return
  <1>4. Wanted(out) \subseteq [phase : STRING, index : Int, hours : Int]
    <2>1. out \in Seq([key : STRING, hours : Seq(Int)])
      BY OutputsType
    <2>2. \A b \in DOMAIN out : out[b].key \in STRING /\ out[b].hours \in Seq(Int)
      <3> DEFINE B == [key : STRING, hours : Seq(Int)]
      <3>1. \A x \in B : x.key \in STRING /\ x.hours \in Seq(Int)
        OBVIOUS
      <3> HIDE DEF B
      <3>2. out \in Seq(B)
        BY <2>1 DEF B
      <3>3. \A b \in DOMAIN out : out[b] \in B
        BY <3>2
      <3> QED BY <3>1, <3>3
    <2>3. \A b \in DOMAIN out : \A i \in DOMAIN out[b].hours : i \in Int /\ out[b].hours[i] \in Int
      BY <2>2
    <2> QED BY <2>2, <2>3 DEF Wanted
  <1>5. Typed' /\ Accepted'
    BY <1>1, <1>2, <1>3 DEF Typed, Accepted
  <1>6. /\ PhasesTile' /\ WithinBudget' /\ OnOpenDays(tasks)' /\ OnOpenDays(added)'
        /\ PlacedUpTo(next)'
    BY <1>1, <1>2 DEF Scheduled, PhasesTile, WithinBudget, Budget, WeekDays, OnOpenDays, PlacedUpTo
  <1>7. Scheduled'
    BY <1>1, <1>2, <1>3, <1>4, <1>6 DEF Scheduled
  <1> QED BY <1>3, <1>5, <1>7 DEF SchedulerInv

\* A generated task is added where its phase has an open day and it fits.
LEMMA AddTaskInv == ASSUME SchedulerInv, AddTask PROVE SchedulerInv'
  <1>1. Typed /\ Accepted /\ Scheduled /\ pc = "personalize" /\ result.kind = "none"
    BY DEF SchedulerInv, AddTask, Typed
  <1>2. PICK a \in adds :
          /\ adds' = adds \ {a}
          /\ \/ UNCHANGED <<pc, used, added, result>>
             \/ added' = {} /\ Return("draft", TRUE) /\ UNCHANGED used
             \/ /\ Fits(a.hours)
                /\ \E due \in LastOpen(At(a.phase)) :
                     added' = added \cup {[key |-> "ai", index |-> a.index, phase |-> a.phase,
                                           due |-> due, kind |-> "optional"]}
                /\ used' = used + a.hours
                /\ UNCHANGED <<pc, result>>
    BY DEF AddTask
  <1>3. UNCHANGED <<req, count, first, last, cursor, left, next, tasks>>
    BY DEF AddTask
  <1>4. a.hours \in Int /\ used \in Int /\ Budget \in Nat /\ 7 * used <= Budget
    BY <1>1, BudgetNat DEF Scheduled, Typed, WithinBudget
  <1>5. /\ used' \in Int /\ 7 * used' <= Budget
        /\ pc' \in {"personalize", "done"} /\ (pc' = "done" \/ result' = result)
    <2>1. CASE UNCHANGED <<pc, used, added, result>>
      BY <1>1, <1>4, <2>1
    <2>2. CASE Return("draft", TRUE) /\ UNCHANGED used
      BY <1>4, <2>2 DEF Return
    <2>3. CASE Fits(a.hours) /\ used' = used + a.hours /\ UNCHANGED <<pc, result>>
      BY <1>1, <1>4, <2>3 DEF Fits
    <2> QED BY <1>2, <2>1, <2>2, <2>3
  <1>6. OnOpenDays(added)'
    <2>1. OnOpenDays(added)
      BY <1>1 DEF Scheduled
    <2>2. CASE added' = added \/ added' = {}
      BY <1>3, <2>1, <2>2 DEF OnOpenDays
    <2>3. ASSUME NEW due \in LastOpen(At(a.phase)),
                 added' = added \cup {[key |-> "ai", index |-> a.index, phase |-> a.phase,
                                       due |-> due, kind |-> "optional"]}
          PROVE  OnOpenDays(added)'
      <3> DEFINE new == [key |-> "ai", index |-> a.index, phase |-> a.phase,
                         due |-> due, kind |-> "optional"]
      <3>1. new.phase = a.phase /\ new.due = due /\ added' = added \cup {new}
        BY <2>3
      <3>2. due \in (first[At(a.phase)]..last[At(a.phase)]) \ req.blocked
        BY DEF LastOpen, Open
      <3> HIDE DEF new
      <3> QED BY <1>3, <2>1, <3>1, <3>2 DEF OnOpenDays
    <2> QED BY <1>2, <2>2, <2>3
  <1>7. Typed' /\ Accepted'
    BY <1>1, <1>3, <1>5 DEF Typed, Accepted
  <1>8. PhasesTile' /\ WithinBudget' /\ OnOpenDays(tasks)' /\ PlacedUpTo(next)'
    BY <1>1, <1>3, <1>5 DEF Scheduled, PhasesTile, WithinBudget, Budget, WeekDays, OnOpenDays, PlacedUpTo
  <1>9. Scheduled'
    BY <1>1, <1>2, <1>3, <1>6, <1>8 DEF Scheduled
  <1> QED BY <1>5, <1>7, <1>9 DEF SchedulerInv

-----------------------------------------------------------------------------
\* A step that changes nothing keeps everything.
LEMMA StutterInv == ASSUME SchedulerInv, UNCHANGED vars PROVE SchedulerInv'
  <1>1. Typed' = Typed /\ Accepted' = Accepted /\ Drafted' = Drafted
    BY DEF vars, Typed, Accepted, Drafted
  <1>2. Allocating' = Allocating
    BY DEF vars, Allocating, N
  <1>3. Scheduled' = Scheduled
    BY DEF vars, Scheduled, PhasesTile, OnOpenDays, PlacedUpTo, WithinBudget, Budget, WeekDays
  <1> QED BY <1>1, <1>2, <1>3 DEF SchedulerInv, vars

LEMMA NextInv == ASSUME SchedulerInv, [Next]_vars PROVE SchedulerInv'
  BY GenerateInv, AllocateInv, AllocatePostInv, PlaceTaskInv, AfterDraftInv, AskAnsweredInv,
     AddTaskInv, StutterInv DEF Next, Step

\* A returned plan has its phases, its tasks and its hours in order.
LEMMA InvSound == SchedulerInv => DraftSound
  <1> SUFFICES ASSUME SchedulerInv, Drafted
               PROVE  PhasesTile /\ TasksOnOpenDays /\ MandatoryPlaced /\ WithinBudget
    BY DEF DraftSound
  <1>1. Scheduled /\ pc = "done"
    BY DEF SchedulerInv, Drafted
  <1>2. MandatoryPlaced
    BY <1>1 DEF Scheduled, PlacedUpTo, MandatoryPlaced
  <1> QED BY <1>1, <1>2 DEF Scheduled, OnOpenDays, TasksOnOpenDays

(***************************************************************************)
(* Every plan that PreparationPlanGenerator.generate returns is sound, for *)
(* any calendar, any blocked days, any weekly hours and whatever the model *)
(* generates: the phases tile the days to the target, every mandatory task *)
(* is placed, no task falls on a blocked day or outside its phase, and the *)
(* optional hours stay within the budget.                                  *)
(***************************************************************************)
THEOREM PlansAreSound == Spec => []DraftSound
  <1>1. Init => SchedulerInv
    BY InitInv
  <1>2. SchedulerInv /\ [Next]_vars => SchedulerInv'
    BY NextInv
  <1> QED BY <1>1, <1>2, InvSound, PTL DEF Spec

-----------------------------------------------------------------------------
(***************************************************************************)
(* Proofs about PreparationPlans, for any drafts, model outputs, keys,     *)
(* requests and history limit.                                             *)
(*                                                                         *)
(* A card is validated against one plan and applied to another one, the    *)
(* client's copy of the moment, which may even be another plan of the same *)
(* revision.  What makes it safe is therefore not said about those plans   *)
(* but about the draft that all of them grew from: every copy in the       *)
(* system has Grown from it, and every pending card is Harmless for all    *)
(* plans that have.                                                        *)
(***************************************************************************)

\* A plan that edits of the draft d may have led to.
Grown(d, p) ==
    /\ p \in PlanOver(DOMAIN d.phases)
    /\ p.model = d.model /\ p.target = d.target
    /\ Required(d) \subseteq Required(p)
    /\ ValidPlan(p)

\* A card that is safe to apply to any plan grown from d.
Harmless(d, card) ==
    /\ card \in ChangeCard
    /\ card.type \in {"append_advice", "move_task", "add_task", "delete_task", "reschedule_phase"}
    /\ card.type \in {"move_task", "add_task"} => card.date \in Int
    /\ card.type = "add_task" => card.phase \in STRING
    /\ card.type = "delete_task" => card.task \notin Required(d)
    /\ card.type = "reschedule_phase" =>
         /\ d.model = "submission_deadline" /\ card.phase = "defense_prep" => card.from > d.target
         /\ d.model = "competition_window" /\ card.phase = "event_sprint" => card.from = d.target

Write(d) == [op : {"create", "save"}, snapshot : PlanOver(DOMAIN d.phases)]
Asked(d) == [id : Nat, snapshot : PlanOver(DOMAIN d.phases), persisted : BOOLEAN]

PlanTypes(d) ==
    /\ idem \in [Keys -> PlanOver(DOMAIN d.phases) \cup {None}]
    /\ sent \in [Keys -> Write(d) \cup {None}]
    /\ asking \in [Slots -> Asked(d) \cup {None}]
    /\ offer \in [base : Nat, cards : SUBSET ChangeCard]

GrownFrom(d) ==
    /\ PlanTypes(d)
    /\ Grown(d, copy)
    /\ plan # None => Grown(d, plan)
    /\ \A k \in Keys : idem[k] # None => Grown(d, idem[k])
    /\ \A k \in Keys : sent[k] # None => Grown(d, sent[k].snapshot)
    /\ \A s \in Slots : asking[s] # None => Grown(d, asking[s].snapshot)
    /\ \A card \in offer.cards : Harmless(d, card)

\* A key is known exactly when its write took effect, and that was once.
KeysCount == applied = [k \in Keys |-> IF idem[k] = None THEN 0 ELSE 1]

Turn == [role : {"user", "assistant"}, id : Nat]

\* n whole exchanges.
Exchanges(h, n) ==
    /\ Len(h) = 2 * n
    /\ \A i \in 1..n : /\ h[2 * i - 1].role = "user" /\ h[2 * i].role = "assistant"
                       /\ h[2 * i - 1].id = h[2 * i].id

HistoryWhole ==
    /\ asks \in Nat
    /\ history \in Seq(Turn) /\ Len(history) <= MaxTurns
    /\ \E n \in 0..MaxTurns : Exchanges(history, n)

PlansInv == (\E d \in Drafts : GrownFrom(d)) /\ KeysCount /\ HistoryWhole

-----------------------------------------------------------------------------
(* The history.                                                            *)

LEMMA HalfTurns == \E m \in 1..MaxTurns : MaxTurns = 2 * m
BY TurnsEven

\* append_turn of a list that is not full only appends.
LEMMA AppendTurnRoom ==
  ASSUME NEW h \in Seq(Turn), NEW t \in Turn, Len(h) < MaxTurns
  PROVE  /\ append_turn(h, t) \in Seq(Turn) /\ Len(append_turn(h, t)) = Len(h) + 1
         /\ \A i \in 1..Len(h) : append_turn(h, t)[i] = h[i]
         /\ append_turn(h, t)[Len(h) + 1] = t
<1>1. Len(h) \in Nat /\ Len(Append(h, t)) = Len(h) + 1
  BY AppendProperties, LenProperties
<1>2. append_turn(h, t) = Append(h, t)
  BY <1>1, TurnsEven DEF append_turn
<1> QED
  BY <1>1, <1>2, AppendProperties

\* append_turn of a full list drops its first turn.
LEMMA AppendTurnFull ==
  ASSUME NEW h \in Seq(Turn), NEW t \in Turn, Len(h) = MaxTurns
  PROVE  /\ append_turn(h, t) \in Seq(Turn) /\ Len(append_turn(h, t)) = MaxTurns
         /\ \A i \in 1..(MaxTurns - 1) : append_turn(h, t)[i] = h[i + 1]
         /\ append_turn(h, t)[MaxTurns] = t
<1> DEFINE l == Append(h, t)
<1>1. /\ MaxTurns \in Nat /\ MaxTurns > 0
      /\ l \in Seq(Turn) /\ Len(l) = MaxTurns + 1
      /\ \A i \in 1..MaxTurns : l[i] = h[i]
      /\ l[MaxTurns + 1] = t
  BY TurnsEven, AppendProperties
<1>2. append_turn(h, t) = SubSeq(l, 2, MaxTurns + 1)
  BY <1>1 DEF append_turn
<1>3. \A i \in 2..(MaxTurns + 1) : l[i] \in Turn
  BY <1>1
<1> HIDE DEF l
<1>4. /\ SubSeq(l, 2, MaxTurns + 1) \in Seq(Turn)
      /\ Len(SubSeq(l, 2, MaxTurns + 1)) = MaxTurns
      /\ \A i \in 1..MaxTurns : SubSeq(l, 2, MaxTurns + 1)[i] = l[i + 1]
  <2>1. 2 \in Int /\ MaxTurns + 1 \in Int /\ 2 <= MaxTurns + 1
        /\ (MaxTurns + 1) - 2 + 1 = MaxTurns
    BY <1>1
  <2>2. /\ SubSeq(l, 2, MaxTurns + 1) \in Seq(Turn)
        /\ Len(SubSeq(l, 2, MaxTurns + 1)) =
             IF 2 <= MaxTurns + 1 THEN (MaxTurns + 1) - 2 + 1 ELSE 0
        /\ \A i \in 1..((MaxTurns + 1) - 2 + 1) : SubSeq(l, 2, MaxTurns + 1)[i] = l[2 + i - 1]
    BY <1>3, <2>1, SubSeqProperties
  <2>3. \A i \in 1..MaxTurns : 2 + i - 1 = i + 1
    BY <1>1
  <2> QED
    BY <2>1, <2>2, <2>3
<1> QED
  BY <1>1, <1>2, <1>4

\* An exchange added to whole exchanges leaves whole exchanges: two turns fit, or two go.
LEMMA TurnPairWhole ==
  ASSUME NEW h \in Seq(Turn), Len(h) <= MaxTurns, NEW n \in 0..MaxTurns, Exchanges(h, n),
         NEW id \in Nat
  PROVE  /\ TurnPair(h, id) \in Seq(Turn) /\ Len(TurnPair(h, id)) <= MaxTurns
         /\ \E m \in 0..MaxTurns : Exchanges(TurnPair(h, id), m)
<1> DEFINE u == [role |-> "user", id |-> id]
           a == [role |-> "assistant", id |-> id]
           g == append_turn(h, u)
           r == append_turn(g, a)
<1>1. u \in Turn /\ a \in Turn /\ u.role = "user" /\ a.role = "assistant" /\ u.id = id /\ a.id = id
  BY DEF Turn
<1>2. TurnPair(h, id) = r
  BY DEF TurnPair
<1>3. MaxTurns \in Nat /\ MaxTurns > 0 /\ n \in Nat /\ Len(h) = 2 * n
  BY TurnsEven DEF Exchanges
<1>4. PICK m \in 1..MaxTurns : MaxTurns = 2 * m
  BY HalfTurns
<1> HIDE DEF u, a, g, r
<1>5. CASE n < m
  <2>1. /\ g \in Seq(Turn) /\ Len(g) = 2 * n + 1
        /\ \A i \in 1..(2 * n) : g[i] = h[i]
        /\ g[2 * n + 1] = u
    <3>1. Len(h) < MaxTurns
      BY <1>3, <1>4, <1>5
    <3>2. /\ g \in Seq(Turn) /\ Len(g) = Len(h) + 1
          /\ \A i \in 1..Len(h) : g[i] = h[i]
          /\ g[Len(h) + 1] = u
      BY <1>1, <3>1, AppendTurnRoom DEF g
    <3> QED
      BY <1>3, <3>2
  <2>2. /\ r \in Seq(Turn) /\ Len(r) = 2 * n + 2
        /\ \A i \in 1..(2 * n + 1) : r[i] = g[i]
        /\ r[2 * n + 2] = a
    <3>1. Len(g) < MaxTurns
      BY <1>3, <1>4, <1>5, <2>1
    <3>2. g \in Seq(Turn)
      BY <2>1
    <3>3. /\ r \in Seq(Turn) /\ Len(r) = Len(g) + 1
          /\ \A i \in 1..Len(g) : r[i] = g[i]
          /\ r[Len(g) + 1] = a
      BY <1>1, <3>1, <3>2, AppendTurnRoom DEF r
    <3>4. Len(g) = 2 * n + 1 /\ Len(g) + 1 = 2 * n + 2
      BY <1>3, <2>1
    <3> QED
      BY <3>3, <3>4
  <2>3. ASSUME NEW i \in 1..(n + 1)
        PROVE  /\ r[2 * i - 1].role = "user" /\ r[2 * i].role = "assistant"
               /\ r[2 * i - 1].id = r[2 * i].id
    <3>1. CASE i = n + 1
      BY <1>1, <1>3, <2>1, <2>2, <3>1
    <3>2. CASE i \in 1..n
      <4>1. 2 * i - 1 \in 1..(2 * n) /\ 2 * i \in 1..(2 * n)
        BY <1>3, <3>2
      <4>2. r[2 * i - 1] = h[2 * i - 1] /\ r[2 * i] = h[2 * i]
        BY <1>3, <2>1, <2>2, <4>1
      <4> QED
        BY <3>2, <4>2 DEF Exchanges
    <3> QED
      BY <1>3, <3>1, <3>2
  <2>4. n + 1 \in 0..MaxTurns /\ Len(r) = 2 * (n + 1) /\ Len(r) <= MaxTurns
    BY <1>3, <1>4, <1>5, <2>2
  <2>5. Exchanges(r, n + 1)
    BY <2>3, <2>4 DEF Exchanges
  <2> QED
    BY <1>2, <2>2, <2>4, <2>5
<1>6. CASE n = m
  <2>1. Len(h) = MaxTurns
    BY <1>3, <1>4, <1>6
  <2>2. /\ g \in Seq(Turn) /\ Len(g) = MaxTurns
        /\ \A i \in 1..(MaxTurns - 1) : g[i] = h[i + 1]
        /\ g[MaxTurns] = u
    BY <1>1, <2>1, AppendTurnFull DEF g
  <2>3. /\ r \in Seq(Turn) /\ Len(r) = MaxTurns
        /\ \A i \in 1..(MaxTurns - 1) : r[i] = g[i + 1]
        /\ r[MaxTurns] = a
    BY <1>1, <2>2, AppendTurnFull DEF r
  <2>4. ASSUME NEW i \in 1..n
        PROVE  /\ r[2 * i - 1].role = "user" /\ r[2 * i].role = "assistant"
               /\ r[2 * i - 1].id = r[2 * i].id
    <3>1. CASE i = n
      <4>1. r[2 * i] = a
        BY <1>4, <1>6, <2>3, <3>1
      <4>2. 2 * i - 1 \in 1..(MaxTurns - 1) /\ (2 * i - 1) + 1 = MaxTurns
        BY <1>4, <1>6, <3>1
      <4>3. r[2 * i - 1] = u
        BY <2>2, <2>3, <4>2
      <4> QED
        BY <1>1, <4>1, <4>3
    <3>2. CASE i \in 1..(n - 1)
      <4>1. /\ 2 * i - 1 \in 1..(MaxTurns - 2) /\ 2 * i \in 1..(MaxTurns - 2)
            /\ i + 1 \in 1..n
            /\ (2 * i - 1) + 2 = 2 * (i + 1) - 1 /\ 2 * i + 2 = 2 * (i + 1)
        BY <1>3, <1>4, <1>6, <3>2
      <4>2. \A j \in 1..(MaxTurns - 2) : r[j] = h[j + 2]
        <5> SUFFICES ASSUME NEW j \in 1..(MaxTurns - 2) PROVE r[j] = h[j + 2]
          OBVIOUS
        <5>1. /\ j \in 1..(MaxTurns - 1) /\ j + 1 \in 1..(MaxTurns - 1)
              /\ (j + 1) + 1 = j + 2
          BY <1>3
        <5> QED
          BY <2>2, <2>3, <5>1
      <4>3. r[2 * i - 1] = h[2 * (i + 1) - 1] /\ r[2 * i] = h[2 * (i + 1)]
        BY <4>1, <4>2
      <4> QED
        BY <4>1, <4>3 DEF Exchanges
    <3> QED
      BY <1>3, <3>1, <3>2
  <2>5. Exchanges(r, n)
    BY <1>3, <2>1, <2>3, <2>4 DEF Exchanges
  <2> QED
    BY <1>2, <1>3, <2>3, <2>5
<1> QED
  BY <1>3, <1>4, <1>5, <1>6

-----------------------------------------------------------------------------
(* The plans.                                                              *)

\* A draft has grown from itself.
LEMMA DraftGrown ==
  ASSUME NEW d \in Drafts
  PROVE  Grown(d, d)
BY PlansAssumption DEF Grown

\* The required tasks of the draft keep validate_plan satisfied.
LEMMA SomeRequired ==
  ASSUME NEW d \in Drafts, NEW p, Required(d) \subseteq Required(p)
  PROVE  \E t \in p.tasks : t.kind = "required"
<1>1. PICK t \in d.tasks : t.kind = "required"
  BY PlansAssumption DEF ValidPlan
<1>2. t.id \in Required(d)
  BY <1>1 DEF Required
<1> QED
  BY <1>2 DEF Required

\* What validation leaves pending is harmless for every plan grown from the draft,
\* not only for the one it was validated against.
LEMMA ValidatedHarmless ==
  ASSUME NEW d \in Drafts, NEW p, Grown(d, p), NEW card \in ChangeCard, NEW cited \in BOOLEAN,
         validate_change_card(p, card, cited)
  PROVE  Harmless(d, card)
<1>1. /\ p.model = d.model /\ p.target = d.target /\ Required(d) \subseteq Required(p)
      /\ DOMAIN p.phases = DOMAIN d.phases
  BY DEF Grown, PlanOver
<1>2. DOMAIN d.phases \subseteq STRING
  BY PlansAssumption
<1>3. CASE card.type = "append_advice"
  BY <1>3 DEF Harmless
<1>4. CASE card.type = "move_task" /\ _validate_move(p, card)
  BY <1>4 DEF Harmless, _validate_move, ChangeCard
<1>5. CASE card.type = "add_task" /\ _validate_add(p, card)
  BY <1>1, <1>2, <1>5 DEF Harmless, _validate_add, ChangeCard
<1>6. CASE card.type = "delete_task" /\ _validate_delete(p, card)
  <2>1. card.task \notin Required(p)
    BY <1>6 DEF _validate_delete, TaskOf, Required
  <2> QED
    BY <1>1, <1>6, <2>1 DEF Harmless
<1>7. CASE card.type = "reschedule_phase" /\ _validate_reschedule(p, card)
  BY <1>1, <1>7 DEF Harmless, _validate_reschedule
<1> QED
  BY <1>3, <1>4, <1>5, <1>6, <1>7 DEF validate_change_card

\* The tasks after a change that keeps the required ones.
LEMMA TasksChanged ==
  ASSUME NEW d \in Drafts, NEW p, Grown(d, p), NEW kept \in SUBSET PlanTask,
         \A t \in p.tasks : t.kind = "required" /\ t.id \in Required(d) =>
             \E u \in kept : u.kind = "required" /\ u.id = t.id
  PROVE  Grown(d, [p EXCEPT !.tasks = kept])
<1> DEFINE q == [p EXCEPT !.tasks = kept]
<1>1. p \in PlanOver(DOMAIN d.phases)
  BY DEF Grown
<1>2. /\ q \in PlanOver(DOMAIN d.phases) /\ q.model = p.model /\ q.target = p.target
      /\ q.phases = p.phases /\ q.tasks = kept
  BY <1>1 DEF PlanOver
<1>3. Required(d) \subseteq Required(q)
  BY <1>2 DEF Required, Grown
<1>4. ValidPlan(q)
  <2>1. \E t \in q.tasks : t.kind = "required"
    BY <1>3, SomeRequired
  <2> QED
    BY <1>2, <2>1 DEF ValidPlan, Grown
<1> QED
  BY <1>2, <1>3, <1>4 DEF Grown

\* A harmless card keeps a grown plan grown.
LEMMA HarmlessKeeps ==
  ASSUME NEW d \in Drafts, NEW p, Grown(d, p), NEW card, Harmless(d, card)
  PROVE  Grown(d, ApplyCard(p, card))
<1>1. p \in PlanOver(DOMAIN d.phases) /\ card \in ChangeCard
  BY DEF Grown, Harmless
<1>2. p.tasks \subseteq PlanTask
  BY <1>1 DEF PlanOver
<1>3. CASE card.type = "append_advice"
  BY <1>3 DEF ApplyCard
<1>4. CASE card.type = "move_task"
  <2> DEFINE T == (p.tasks \ TaskOf(p, card.task)) \cup Moved(p, card)
  <2>1. ApplyCard(p, card) = [p EXCEPT !.tasks = T]
    BY <1>1, <1>4 DEF ApplyCard, PlanOver
  <2>2. card.date \in Int
    BY <1>4 DEF Harmless
  <2>3. ASSUME NEW t \in TaskOf(p, card.task)
        PROVE  PhaseOfMove(p, card) \in STRING
    <3>1. CASE card.phase # None
      BY <1>1, <3>1 DEF PhaseOfMove, ChangeCard
    <3>2. CASE card.phase = None
      <4>1. \E x \in TaskOf(p, card.task) : TRUE
        BY <2>3
      <4>2. (CHOOSE x \in TaskOf(p, card.task) : TRUE) \in TaskOf(p, card.task)
        BY <4>1
      <4>3. (CHOOSE x \in TaskOf(p, card.task) : TRUE) \in PlanTask
        BY <1>2, <4>2 DEF TaskOf
      <4> QED
        BY <3>2, <4>3 DEF PhaseOfMove, PlanTask
    <3> QED
      BY <3>1, <3>2
  <2>4. ASSUME NEW t \in TaskOf(p, card.task)
        PROVE  LET u == [t EXCEPT !.due = card.date, !.phase = PhaseOfMove(p, card)]
               IN  u \in PlanTask /\ u \in Moved(p, card) /\ u.kind = t.kind /\ u.id = t.id
    <3>1. t \in PlanTask
      BY <1>2 DEF TaskOf
    <3> QED
      BY <2>2, <2>3, <3>1 DEF PlanTask, Moved
  <2>5. T \in SUBSET PlanTask
    BY <1>2, <2>4 DEF Moved
  <2>6. ASSUME NEW t \in p.tasks
        PROVE  \E u \in T : u.kind = t.kind /\ u.id = t.id
    <3>1. CASE t \in TaskOf(p, card.task)
      BY <2>4, <3>1
    <3>2. CASE t \notin TaskOf(p, card.task)
      BY <3>2
    <3> QED
      BY <3>1, <3>2
  <2> HIDE DEF T
  <2> QED
    BY <2>1, <2>5, <2>6, TasksChanged
<1>5. CASE card.type = "delete_task"
  <2> DEFINE T == p.tasks \ TaskOf(p, card.task)
  <2>1. ApplyCard(p, card) = [p EXCEPT !.tasks = T]
    BY <1>1, <1>5 DEF ApplyCard, PlanOver
  <2>2. card.task \notin Required(d)
    BY <1>5 DEF Harmless
  <2>3. \A t \in p.tasks : t.id \in Required(d) => t \in T
    BY <2>2 DEF TaskOf
  <2>4. T \in SUBSET PlanTask
    BY <1>2
  <2> HIDE DEF T
  <2> QED
    BY <2>1, <2>3, <2>4, TasksChanged
<1>6. CASE card.type = "add_task"
  <2> DEFINE n == [id |-> card.task, phase |-> card.phase, kind |-> "userAdded", due |-> card.date]
             T == p.tasks \cup {n}
  <2>1. ApplyCard(p, card) = [p EXCEPT !.tasks = T]
    BY <1>1, <1>6 DEF ApplyCard, PlanOver
  <2>2. n \in PlanTask
    BY <1>1, <1>6 DEF Harmless, PlanTask, ChangeCard
  <2>3. T \in SUBSET PlanTask /\ p.tasks \subseteq T
    BY <1>2, <2>2
  <2> HIDE DEF T
  <2> QED
    BY <2>1, <2>3, TasksChanged
<1>7. CASE card.type = "reschedule_phase"
  <2> DEFINE new == [from |-> card.from, to |-> card.to]
             q == [p EXCEPT !.phases = [p.phases EXCEPT ![card.phase] = new]]
  <2>1. ApplyCard(p, card) = q
    BY <1>1, <1>7 DEF ApplyCard, PlanOver
  <2>2. p.phases \in [DOMAIN d.phases -> DateRange] /\ new \in DateRange
    BY <1>1 DEF PlanOver, ChangeCard, DateRange
  <2>3. /\ q \in PlanOver(DOMAIN d.phases) /\ q.model = p.model /\ q.target = p.target
        /\ q.tasks = p.tasks /\ q.phases = [p.phases EXCEPT ![card.phase] = new]
    BY <1>1, <2>2 DEF PlanOver
  <2>4. \A key \in DOMAIN d.phases :
          q.phases[key] = IF key = card.phase THEN new ELSE p.phases[key]
    BY <2>2, <2>3
  <2>5. DOMAIN q.phases = DOMAIN p.phases /\ DOMAIN p.phases = DOMAIN d.phases
    BY <2>2, <2>3
  <2>6. /\ p.model = d.model /\ p.target = d.target /\ new.from = card.from
        /\ d.model = "submission_deadline" /\ card.phase = "defense_prep" => card.from > d.target
        /\ d.model = "competition_window" /\ card.phase = "event_sprint" => card.from = d.target
    BY <1>7 DEF Grown, Harmless
  <2>7. Required(q) = Required(p)
    BY <2>3 DEF Required
  <2>8. ValidPlan(p)
    BY DEF Grown
  <2> HIDE DEF q, new
  <2>9. ValidPlan(q)
    BY <2>3, <2>4, <2>5, <2>6, <2>8 DEF ValidPlan
  <2> QED
    BY <2>1, <2>3, <2>7, <2>9 DEF Grown
<1> QED
  BY <1>3, <1>4, <1>5, <1>6, <1>7 DEF Harmless

\* The revision is not part of what grows.
LEMMA NewRevision ==
  ASSUME NEW d \in Drafts, NEW p, Grown(d, p), NEW n \in Nat
  PROVE  Grown(d, [p EXCEPT !.rev = n])
<1> DEFINE q == [p EXCEPT !.rev = n]
<1>1. p \in PlanOver(DOMAIN d.phases)
  BY DEF Grown
<1>2. /\ q \in PlanOver(DOMAIN d.phases) /\ q.model = p.model /\ q.target = p.target
      /\ q.phases = p.phases /\ q.tasks = p.tasks
  BY <1>1 DEF PlanOver
<1> HIDE DEF q
<1>3. Grown(d, q)
  BY <1>2 DEF Grown, ValidPlan, Required
<1> QED
  BY <1>3 DEF q

-----------------------------------------------------------------------------
(* Every step keeps the invariant.                                         *)

LEMMA InitHolds ==
  ASSUME PlansInit
  PROVE  PlansInv
<1>1. PICK d \in Drafts : copy = d
  BY DEF PlansInit
<1>2. PlanTypes(d)
  BY DEF PlansInit, PlanTypes, NoOffer
<1>3. GrownFrom(d)
  BY <1>1, <1>2, DraftGrown DEF PlansInit, GrownFrom, NoOffer
<1>4. KeysCount
  BY DEF PlansInit, KeysCount
<1>5. HistoryWhole
  <2>1. history = <<>> /\ Len(history) = 0 /\ history \in Seq(Turn) /\ asks = 0
    BY DEF PlansInit
  <2>2. Exchanges(history, 0)
    BY <2>1 DEF Exchanges
  <2> QED
    BY <2>1, <2>2, TurnsEven DEF HistoryWhole
<1> QED
  BY <1>3, <1>4, <1>5 DEF PlansInv

\* The client.
LEMMA ClientStep ==
  ASSUME NEW d \in Drafts, GrownFrom(d), SendCreate \/ SendEdit \/ GetPlan
  PROVE  GrownFrom(d)'
<1>1. /\ PlanTypes(d) /\ Grown(d, copy) /\ copy \in PlanOver(DOMAIN d.phases)
  BY DEF GrownFrom, Grown
<1>2. CASE SendCreate
  <2>1. PICK k \in Keys : sent' = [sent EXCEPT ![k] = [op |-> "create", snapshot |-> copy]]
    BY <1>2 DEF SendCreate, Fresh
  <2>2. UNCHANGED <<plan, idem, copy, offer, asking>>
    BY <1>2 DEF SendCreate
  <2>3. [op |-> "create", snapshot |-> copy] \in Write(d)
    BY <1>1 DEF Write
  <2>4. PlanTypes(d)'
    BY <1>1, <2>1, <2>2, <2>3 DEF PlanTypes
  <2>5. \A j \in Keys : sent'[j] = sent[j] \/ sent'[j] = [op |-> "create", snapshot |-> copy]
    BY <1>1, <2>1 DEF PlanTypes
  <2> QED
    BY <1>1, <2>2, <2>4, <2>5 DEF GrownFrom
<1>3. CASE SendEdit
  <2>1. PICK card \in offer.cards, k \in Keys :
          LET edited == [ApplyCard(copy, card) EXCEPT !.rev = copy.rev + 1]
          IN  /\ sent' = [sent EXCEPT ![k] = [op |-> "save", snapshot |-> edited]]
              /\ offer' = [offer EXCEPT !.cards = @ \ {card}]
    BY <1>3 DEF SendEdit, Fresh
  <2> DEFINE edited == [ApplyCard(copy, card) EXCEPT !.rev = copy.rev + 1]
  <2>2. UNCHANGED <<plan, idem, copy, asking>>
    BY <1>3 DEF SendEdit
  <2>3. Harmless(d, card)
    BY DEF GrownFrom
  <2>4. copy.rev + 1 \in Nat
    BY <1>1 DEF PlanOver
  <2>5. Grown(d, ApplyCard(copy, card))
    BY <1>1, <2>3, HarmlessKeeps
  <2>6. Grown(d, edited)
    BY <2>4, <2>5, NewRevision
  <2>7. edited \in PlanOver(DOMAIN d.phases)
    BY <2>6 DEF Grown
  <2>8. /\ sent' = [sent EXCEPT ![k] = [op |-> "save", snapshot |-> edited]]
        /\ offer' = [offer EXCEPT !.cards = @ \ {card}]
    BY <2>1
  <2> HIDE DEF edited
  <2>9. [op |-> "save", snapshot |-> edited] \in Write(d)
    BY <2>7 DEF Write
  <2>10. offer'.cards \subseteq offer.cards /\ offer' \in [base : Nat, cards : SUBSET ChangeCard]
    BY <1>1, <2>8 DEF PlanTypes
  <2>11. PlanTypes(d)'
    BY <1>1, <2>2, <2>8, <2>9, <2>10 DEF PlanTypes
  <2>12. \A j \in Keys : sent'[j] = sent[j] \/ sent'[j] = [op |-> "save", snapshot |-> edited]
    BY <1>1, <2>8 DEF PlanTypes
  <2> QED
    BY <2>2, <2>6, <2>10, <2>11, <2>12 DEF GrownFrom
<1>4. CASE GetPlan
  BY <1>4 DEF GetPlan, GrownFrom, PlanTypes
<1> QED
  BY <1>2, <1>3, <1>4

\* The repository.
LEMMA DeliverStep ==
  ASSUME NEW d \in Drafts, GrownFrom(d), NEW k \in Keys, Deliver(k)
  PROVE  GrownFrom(d)'
<1>1. PlanTypes(d) /\ sent[k] # None /\ Grown(d, sent[k].snapshot)
  BY DEF Deliver, GrownFrom
<1>2. UNCHANGED <<sent, offer, asking>>
  BY DEF Deliver
<1>3. CASE Replays(k) /\ Answered(idem[k]) /\ UNCHANGED <<plan, idem>>
  BY <1>2, <1>3 DEF Replays, Answered, GrownFrom, PlanTypes
<1>4. CASE Store(k) /\ Answered(sent[k].snapshot)
  <2>1. /\ plan' = sent[k].snapshot /\ idem' = [idem EXCEPT ![k] = sent[k].snapshot]
        /\ copy' = sent[k].snapshot \/ copy' = copy
    BY <1>4 DEF Store, Answered
  <2>2. sent[k].snapshot \in PlanOver(DOMAIN d.phases)
    BY <1>1 DEF Grown
  <2>3. PlanTypes(d)'
    BY <1>1, <1>2, <2>1, <2>2 DEF PlanTypes
  <2>4. \A j \in Keys : idem'[j] = idem[j] \/ idem'[j] = sent[k].snapshot
    BY <1>1, <2>1 DEF PlanTypes
  <2> QED
    BY <1>1, <1>2, <2>1, <2>3, <2>4 DEF GrownFrom
<1> QED
  BY <1>3, <1>4 DEF Deliver

\* The assistant.
LEMMA AssistantStep ==
  ASSUME NEW d \in Drafts, GrownFrom(d), HistoryWhole, NEW s \in Slots,
         handle_assistant(s) \/ AssistantFails(s) \/ AssistantAnswers(s)
  PROVE  GrownFrom(d)' /\ HistoryWhole'
<1>1. PlanTypes(d) /\ Grown(d, copy) /\ copy \in PlanOver(DOMAIN d.phases)
  BY DEF GrownFrom, Grown
<1>2. UNCHANGED <<plan, idem, sent, copy>>
  BY DEF handle_assistant, AssistantFails, AssistantAnswers
<1>3. CASE handle_assistant(s)
  <2> DEFINE r == [id |-> asks + 1, snapshot |-> copy, persisted |-> plan # None]
  <2>1. asking' = [asking EXCEPT ![s] = r] /\ asks' = asks + 1 /\ UNCHANGED <<offer, history>>
    BY <1>3 DEF handle_assistant
  <2>2. r \in Asked(d) /\ r.snapshot = copy
    BY <1>1 DEF Asked, HistoryWhole
  <2> HIDE DEF r
  <2>3. PlanTypes(d)'
    BY <1>1, <1>2, <2>1, <2>2 DEF PlanTypes
  <2>4. \A t \in Slots : asking'[t] = asking[t] \/ asking'[t] = r
    BY <1>1, <2>1 DEF PlanTypes
  <2>5. GrownFrom(d)'
    BY <1>1, <1>2, <2>1, <2>2, <2>3, <2>4 DEF GrownFrom
  <2> QED
    BY <2>1, <2>5 DEF HistoryWhole
<1>4. ASSUME asking' = [asking EXCEPT ![s] = None],
             offer' \in [base : Nat, cards : SUBSET ChangeCard],
             \A card \in offer'.cards : Harmless(d, card)
      PROVE  GrownFrom(d)'
  <2>1. PlanTypes(d)'
    BY <1>1, <1>2, <1>4 DEF PlanTypes
  <2>2. \A t \in Slots : asking'[t] = asking[t] \/ asking'[t] = None
    BY <1>1, <1>4 DEF PlanTypes
  <2> QED
    BY <1>2, <1>4, <2>1, <2>2 DEF GrownFrom
<1>5. CASE AssistantFails(s)
  <2>1. asking' = [asking EXCEPT ![s] = None] /\ UNCHANGED <<offer, history, asks>>
    BY <1>5 DEF AssistantFails
  <2>2. GrownFrom(d)'
    BY <1>4, <2>1 DEF GrownFrom, PlanTypes
  <2> QED
    BY <2>1, <2>2 DEF HistoryWhole
<1>6. CASE AssistantAnswers(s)
  <2>1. /\ asking[s] # None /\ asking' = [asking EXCEPT ![s] = None] /\ UNCHANGED asks
        /\ history' = IF asking[s].persisted THEN TurnPair(history, asking[s].id) ELSE history
    BY <1>6 DEF AssistantAnswers
  <2>2. /\ asking[s] \in Asked(d) /\ Grown(d, asking[s].snapshot)
    BY <1>1, <2>1 DEF GrownFrom, PlanTypes
  <2>3. PICK out \in CardOutputs \cup {<<>>}, cited \in BOOLEAN, heard \in BOOLEAN :
          offer' = IF heard THEN [base |-> asking[s].snapshot.rev,
                                  cards |-> PendingCards(asking[s].snapshot, out, cited)]
                            ELSE offer
    BY <1>6 DEF AssistantAnswers
  <2>4. ASSUME NEW card \in PendingCards(asking[s].snapshot, out, cited)
        PROVE  card \in ChangeCard /\ Harmless(d, card)
    <3>1. PICK i \in DOMAIN out :
            card = out[i] /\ validate_change_card(asking[s].snapshot, card, cited)
      BY <2>4 DEF PendingCards
    <3>2. out \in Seq(ChangeCard)
      BY PlansAssumption
    <3>3. card \in ChangeCard
      BY <3>1, <3>2
    <3> QED
      BY <2>2, <3>1, <3>3, ValidatedHarmless
  <2>5. asking[s].snapshot.rev \in Nat
    BY <2>2 DEF Asked, PlanOver
  <2>6. /\ offer' \in [base : Nat, cards : SUBSET ChangeCard]
        /\ \A card \in offer'.cards : Harmless(d, card)
    <3>1. CASE heard
      BY <2>3, <2>4, <2>5, <3>1
    <3>2. CASE ~heard
      BY <1>1, <2>3, <3>2 DEF GrownFrom, PlanTypes
    <3> QED
      BY <3>1, <3>2
  <2>7. GrownFrom(d)'
    BY <1>4, <2>1, <2>6
  <2>8. HistoryWhole'
    <3>1. CASE ~asking[s].persisted
      BY <2>1, <3>1 DEF HistoryWhole
    <3>2. CASE asking[s].persisted
      <4>1. PICK n \in 0..MaxTurns : Exchanges(history, n)
        BY DEF HistoryWhole
      <4>2. asking[s].id \in Nat
        BY <2>2 DEF Asked
      <4>3. history \in Seq(Turn) /\ Len(history) <= MaxTurns
        BY DEF HistoryWhole
      <4>4. /\ history' \in Seq(Turn) /\ Len(history') <= MaxTurns
            /\ \E m \in 0..MaxTurns : Exchanges(history', m)
        BY <2>1, <3>2, <4>1, <4>2, <4>3, TurnPairWhole
      <4> QED
        BY <2>1, <4>4 DEF HistoryWhole
    <3> QED
      BY <3>1, <3>2
  <2> QED
    BY <2>7, <2>8
<1> QED
  BY <1>3, <1>5, <1>6

\* Only a delivery records a key, and it was unused before.
LEMMA KeysCountStep ==
  ASSUME PlansInv, PlansNext
  PROVE  KeysCount'
<1>1. PICK d \in Drafts : GrownFrom(d)
  BY DEF PlansInv
<1>2. KeysCount
  BY DEF PlansInv
<1>3. CASE UNCHANGED <<idem, applied>>
  BY <1>2, <1>3 DEF KeysCount
<1>4. ASSUME NEW k \in Keys, Deliver(k), ~UNCHANGED <<idem, applied>>
      PROVE  KeysCount'
  <2>1. idem[k] = None /\ Store(k) /\ sent[k] # None
    BY <1>4 DEF Deliver, Replays
  <2>2. sent[k].snapshot # None
    BY <1>1, <2>1, PlansAssumption DEF GrownFrom, Grown
  <2>3. idem \in [Keys -> PlanOver(DOMAIN d.phases) \cup {None}]
    BY <1>1 DEF GrownFrom, PlanTypes
  <2>4. /\ idem' = [idem EXCEPT ![k] = sent[k].snapshot]
        /\ applied' = [applied EXCEPT ![k] = @ + 1]
    BY <2>1 DEF Store
  <2>5. applied[k] = 0
    BY <1>2, <2>1 DEF KeysCount
  <2>6. \A j \in Keys : idem'[j] = IF j = k THEN sent[k].snapshot ELSE idem[j]
    BY <2>3, <2>4
  <2>7. applied' = [j \in Keys |-> IF j = k THEN 1 ELSE IF idem[j] = None THEN 0 ELSE 1]
    BY <1>2, <2>4, <2>5 DEF KeysCount
  <2> QED
    BY <2>2, <2>6, <2>7 DEF KeysCount
<1> QED
  BY <1>3, <1>4 DEF PlansNext, SendCreate, SendEdit, GetPlan, handle_delete_plan, handle_assistant,
       AssistantFails, AssistantAnswers

LEMMA StepHolds ==
  ASSUME PlansInv, [PlansNext]_planVars
  PROVE  PlansInv'
<1>1. CASE UNCHANGED planVars
  BY <1>1 DEF planVars, PlansInv, GrownFrom, PlanTypes, KeysCount, HistoryWhole
<1>2. CASE PlansNext
  <2>1. PICK d \in Drafts : GrownFrom(d)
    BY DEF PlansInv
  <2>2. HistoryWhole
    BY DEF PlansInv
  <2>3. KeysCount'
    BY <1>2, KeysCountStep
  <2>4. CASE SendCreate \/ SendEdit \/ GetPlan
    <3>1. UNCHANGED <<history, asks>>
      BY <2>4 DEF SendCreate, SendEdit, GetPlan
    <3> QED
      BY <2>1, <2>2, <2>3, <2>4, <3>1, ClientStep DEF PlansInv, HistoryWhole
  <2>5. CASE handle_delete_plan
    <3>1. plan' = None /\ history' = <<>> /\ UNCHANGED <<idem, sent, copy, offer, asking, asks>>
      BY <2>5 DEF handle_delete_plan
    <3>2. GrownFrom(d)'
      BY <2>1, <3>1 DEF GrownFrom, PlanTypes
    <3>3. Len(history') = 0 /\ history' \in Seq(Turn)
      BY <3>1
    <3>4. Exchanges(history', 0)
      BY <3>3 DEF Exchanges
    <3>5. HistoryWhole'
      BY <2>2, <3>1, <3>3, <3>4, TurnsEven DEF HistoryWhole
    <3> QED
      BY <2>3, <3>2, <3>5 DEF PlansInv
  <2>6. CASE \E k \in Keys : Deliver(k)
    <3>1. UNCHANGED <<history, asks>>
      BY <2>6 DEF Deliver
    <3> QED
      BY <2>1, <2>2, <2>3, <2>6, <3>1, DeliverStep DEF PlansInv, HistoryWhole
  <2>7. CASE \E s \in Slots : handle_assistant(s) \/ AssistantFails(s) \/ AssistantAnswers(s)
    BY <2>1, <2>2, <2>3, <2>7, AssistantStep DEF PlansInv
  <2> QED
    BY <1>2, <2>4, <2>5, <2>6, <2>7 DEF PlansNext
<1> QED
  BY <1>1, <1>2

-----------------------------------------------------------------------------
(* The theorems.                                                           *)

\* Every plan in the system grew from one draft, every pending card is harmless for
\* what grew from it, a key is known exactly when its write took effect, and the history
\* is whole exchanges (repositories/plans.py and handle_assistant).
THEOREM Invariance == PlansSpec => []PlansInv
<1>1. PlansInit => PlansInv
  BY InitHolds
<1>2. PlansInv /\ [PlansNext]_planVars => PlansInv'
  BY StepHolds
<1> QED
  BY <1>1, <1>2, PTL DEF PlansSpec

\* A write takes effect at most once, for any number of keys, retries and deletions
\* (_idempotency of the plan repository).
THEOREM AppliedOnceAlways == PlansSpec => []AppliedOnce
<1>1. PlansInv => AppliedOnce
  BY DEF PlansInv, KeysCount, AppliedOnce
<1> QED
  BY <1>1, Invariance, PTL

\* The assistant's history is whole exchanges for any even limit and any number of
\* overlapping requests (append_turn twice in handle_assistant).
THEOREM HistoryPairedAlways == PlansSpec => []HistoryPaired
<1>1. ASSUME PlansInv PROVE HistoryPaired
  <2>1. PICK n \in 0..MaxTurns : Exchanges(history, n)
    BY <1>1 DEF PlansInv, HistoryWhole
  <2>2. n \in Nat /\ (2 * n) % 2 = 0 /\ (2 * n) \div 2 = n
    BY TurnsEven
  <2> QED
    BY <2>1, <2>2 DEF Exchanges, HistoryPaired
<1> QED
  BY <1>1, Invariance, PTL

\* The stored plan is valid and keeps the mandatory tasks of the draft it comes from, for
\* any drafts and any cards, applied in any order and to copies of any revision
\* (validate_change_card).
THEOREM StoredPlanValidAlways == PlansSpec => []StoredPlanValid
<1>1. PlansInv => StoredPlanValid
  BY DEF PlansInv, GrownFrom, Grown, StoredPlanValid
<1> QED
  BY <1>1, Invariance, PTL
=============================================================================
