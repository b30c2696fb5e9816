-------------------------- MODULE PreparationPlans --------------------------
(***************************************************************************)
(* The preparation plan an owner keeps on the server: the plan repository  *)
(* with its revisions and idempotency keys, the assistant's history, and   *)
(* the assistant turn that validates change cards against the plan the     *)
(* client sent.  The client is external: it edits its own copy of the plan *)
(* and sends it whole, over a network that delays, repeats and loses       *)
(* requests and loses answers.                                             *)
(*                                                                         *)
(* Every key of the repositories holds the owner, so the model is one      *)
(* owner's part of them, with one plan id.  A repository call never        *)
(* suspends, so it is one step; the assistant waits for the model between  *)
(* reading the plan and writing its history.                               *)
(***************************************************************************)
EXTENDS Integers, Sequences, FiniteSets

CONSTANTS
    Keys,        \* idempotency keys
    Drafts,      \* plans the client may create, at revision 0
    CardOutputs, \* the card sequences the model may return
    Slots,       \* concurrent assistant requests
    None,
    Today,       \* calendar_today of the client
    MaxCards,    \* max_cards of the assistant profile
    MaxTurns,    \* max_turns_per_plan
    MaxRev,      \* bound on the revisions explored
    MaxAsks      \* bound on the assistant requests explored

VARIABLES
    plan,      \* the stored snapshot, or None
    idem,      \* idem[k]: what the write with key k stored, or None
    history,   \* the assistant's turns
    sent,      \* sent[k]: the write the client sent with key k, or None
    applied,   \* applied[k]: how often it took effect (a history variable)
    copy,      \* the client's copy of the plan
    offer,     \* the pending cards the client holds, and their base revision
    asking,    \* asking[s]: the assistant request in progress, or None
    asks       \* the assistant requests made

planVars == <<plan, idem, history, sent, applied, copy, offer, asking, asks>>

ASSUME TurnsEven == MaxTurns \in Nat /\ MaxTurns % 2 = 0 /\ MaxTurns > 0

(***************************************************************************)
(* A plan with these phases, and a change card the model proposes.  None   *)
(* stands for a field that is missing.                                     *)
(***************************************************************************)
DateRange == [from : Int, to : Int]
PlanTask == [id : STRING, phase : STRING, kind : {"required", "optional", "userAdded"}, due : Int]

PlanOver(keys) == [model : {"submission_deadline", "competition_window"}, target : Int,
                   rev : Nat, phases : [keys -> DateRange], tasks : SUBSET PlanTask]

ChangeCard == [type : STRING, task : STRING, phase : STRING \cup {None},
               date : Int \cup {None}, from : Int, to : Int]

NoOffer == [base |-> 0, cards |-> {}]

PlansInit ==
    /\ plan = None
    /\ idem = [k \in Keys |-> None]
    /\ history = <<>>
    /\ sent = [k \in Keys |-> None]
    /\ applied = [k \in Keys |-> 0]
    /\ copy \in Drafts
    /\ offer = NoOffer
    /\ asking = [s \in Slots |-> None]
    /\ asks = 0

-----------------------------------------------------------------------------
(***************************************************************************)
(* The validation of a card against the plan it was proposed for.          *)
(***************************************************************************)
TaskOf(p, id) == {t \in p.tasks : t.id = id}

_date_in_phase(d, range) == d >= Today /\ range.from <= d /\ d <= range.to

\* A move without a target phase stays in the task's own.
PhaseOfMove(p, card) ==
    IF card.phase # None THEN card.phase ELSE (CHOOSE t \in TaskOf(p, card.task) : TRUE).phase

_validate_move(p, card) ==
    /\ TaskOf(p, card.task) # {}
    /\ card.date # None
    /\ PhaseOfMove(p, card) \in DOMAIN p.phases
    /\ _date_in_phase(card.date, p.phases[PhaseOfMove(p, card)])

_validate_add(p, card) ==
    /\ card.phase \in DOMAIN p.phases
    /\ card.date # None
    /\ _date_in_phase(card.date, p.phases[card.phase])

\* The kind of the task is not looked at.
AnyTaskDeleted(p, card) == TaskOf(p, card.task) # {}

_validate_delete(p, card) ==
    /\ TaskOf(p, card.task) # {}
    /\ \A t \in TaskOf(p, card.task) : t.kind # "required"

\* validate_plan, of the planning package.
ValidPlan(p) ==
    /\ p.model = "submission_deadline" =>
         "defense_prep" \in DOMAIN p.phases /\ p.phases["defense_prep"].from > p.target
    /\ p.model = "competition_window" =>
         "event_sprint" \in DOMAIN p.phases /\ p.phases["event_sprint"].from = p.target
    /\ \E t \in p.tasks : t.kind = "required"

_validate_reschedule(p, card) ==
    /\ card.phase \in DOMAIN p.phases
    /\ card.from >= Today /\ card.from <= card.to
    /\ p.model = "submission_deadline" /\ card.phase = "defense_prep" => card.from > p.target
    /\ p.model = "competition_window" /\ card.phase = "event_sprint" => card.from = p.target
    /\ ValidPlan(p)

\* The client creates what the generator returned, which has passed validate_plan; the
\* model's cards are any, except that the client gives an added task an ID of its own.
ASSUME PlansAssumption ==
    /\ \A d \in Drafts :
         /\ d \in PlanOver(DOMAIN d.phases) /\ None \notin PlanOver(DOMAIN d.phases)
         /\ DOMAIN d.phases \subseteq STRING
         /\ ValidPlan(d)
    /\ \A out \in CardOutputs :
         /\ out \in Seq(ChangeCard)
         /\ \A i \in DOMAIN out, d \in Drafts :
              out[i].type = "add_task" => TaskOf(d, out[i].task) = {}

\* A card that could not be parsed is rejected already; only advice needs no source.
validate_change_card(p, card, cited) ==
    \/ card.type = "append_advice"
    \/ card.type = "move_task" /\ cited /\ _validate_move(p, card)
    \/ card.type = "add_task" /\ cited /\ _validate_add(p, card)
    \/ card.type = "delete_task" /\ cited /\ _validate_delete(p, card)
    \/ card.type = "reschedule_phase" /\ cited /\ _validate_reschedule(p, card)

\* The pending cards of a change set: at most MaxCards are looked at.
PendingCards(p, out, cited) ==
    {out[i] : i \in {j \in DOMAIN out : j <= MaxCards /\ validate_change_card(p, out[j], cited)}}

-----------------------------------------------------------------------------
(***************************************************************************)
(* What the client does with a card its user accepts.                      *)
(***************************************************************************)
Moved(p, card) ==
    {[t EXCEPT !.due = card.date, !.phase = PhaseOfMove(p, card)] : t \in TaskOf(p, card.task)}

ApplyCard(p, card) ==
    CASE card.type = "append_advice" -> p
      [] card.type = "move_task" ->
           [p EXCEPT !.tasks = (@ \ TaskOf(p, card.task)) \cup Moved(p, card)]
      [] card.type = "delete_task" -> [p EXCEPT !.tasks = @ \ TaskOf(p, card.task)]
      [] card.type = "add_task" ->
           [p EXCEPT !.tasks = @ \cup {[id |-> card.task, phase |-> card.phase,
                                        kind |-> "userAdded", due |-> card.date]}]
      [] card.type = "reschedule_phase" ->
           [p EXCEPT !.phases[card.phase] = [from |-> card.from, to |-> card.to]]

Fresh == {k \in Keys : sent[k] = None}

\* The client sends its plan for the first time, or again after it was lost.
SendCreate ==
    /\ \E k \in Fresh : sent' = [sent EXCEPT ![k] = [op |-> "create", snapshot |-> copy]]
    /\ UNCHANGED <<plan, idem, history, applied, copy, offer, asking, asks>>

\* The user accepts a card of the current revision; the edit is sent as the next one.
SendEdit ==
    /\ copy.rev < MaxRev
    /\ offer.base = copy.rev
    /\ \E card \in offer.cards, k \in Fresh :
         LET edited == [ApplyCard(copy, card) EXCEPT !.rev = copy.rev + 1]
         IN  /\ sent' = [sent EXCEPT ![k] = [op |-> "save", snapshot |-> edited]]
             /\ offer' = [offer EXCEPT !.cards = @ \ {card}]
    /\ UNCHANGED <<plan, idem, history, applied, copy, asking, asks>>

\* The client reads the stored plan (handle_get_plan).
GetPlan ==
    /\ plan # None /\ copy # plan
    /\ copy' = plan
    /\ UNCHANGED <<plan, idem, history, sent, applied, offer, asking, asks>>

-----------------------------------------------------------------------------
(***************************************************************************)
(* A write arrives, for the first time or again.  A key that is known is   *)
(* answered with what it stored; a refused write leaves its key unused.    *)
(***************************************************************************)
Replays(k) == idem[k] # None

create_or_replace_plan(snap) == plan # None => snap.rev >= plan.rev
save_new_revision(snap) == plan # None /\ snap.rev = plan.rev + 1

Accepts(w) ==
    IF w.op = "create" THEN create_or_replace_plan(w.snapshot) ELSE save_new_revision(w.snapshot)

Store(k) ==
    /\ plan' = sent[k].snapshot
    /\ idem' = [idem EXCEPT ![k] = sent[k].snapshot]
    /\ applied' = [applied EXCEPT ![k] = @ + 1]

Answered(saved) == copy' = saved \/ copy' = copy

Deliver(k) ==
    /\ sent[k] # None
    /\ \/ Replays(k) /\ Answered(idem[k]) /\ UNCHANGED <<plan, idem, applied>>
       \/ ~Replays(k) /\ Accepts(sent[k]) /\ Store(k) /\ Answered(sent[k].snapshot)
    /\ UNCHANGED <<history, sent, offer, asking, asks>>

\* The keys are forgotten with the plan.
KeysDeletedToo ==
    /\ plan # None
    /\ plan' = None
    /\ history' = <<>>
    /\ idem' = [k \in Keys |-> None]
    /\ UNCHANGED <<sent, applied, copy, offer, asking, asks>>

\* The plan and its history are deleted; the keys stay, so that no old write comes back.
handle_delete_plan ==
    /\ plan # None \/ history # <<>>
    /\ plan' = None
    /\ history' = <<>>
    /\ UNCHANGED <<idem, sent, applied, copy, offer, asking, asks>>

-----------------------------------------------------------------------------
\* append_turn: the oldest turns go when the list is full.
append_turn(h, turn) ==
    LET l == Append(h, turn)
    IN  IF Len(l) > MaxTurns THEN SubSeq(l, Len(l) - MaxTurns + 1, Len(l)) ELSE l

\* The user's turn is recorded when the request arrives.
UserTurnFirst(s) ==
    /\ asks < MaxAsks
    /\ asking[s] = None
    /\ asks' = asks + 1
    /\ asking' = [asking EXCEPT ![s] = [id |-> asks + 1, snapshot |-> copy, persisted |-> FALSE]]
    /\ history' = append_turn(history, [role |-> "user", id |-> asks + 1])
    /\ UNCHANGED <<plan, idem, sent, applied, copy, offer>>

(***************************************************************************)
(* An assistant turn.  Whether the plan is stored is read first, then the  *)
(* model is asked; a base revision other than the snapshot's is refused    *)
(* before that.                                                            *)
(***************************************************************************)
handle_assistant(s) ==
    /\ asks < MaxAsks
    /\ asking[s] = None
    /\ asks' = asks + 1
    /\ asking' = [asking EXCEPT ![s] = [id |-> asks + 1, snapshot |-> copy, persisted |-> plan # None]]
    /\ UNCHANGED <<plan, idem, history, sent, applied, copy, offer>>

TurnPair(h, id) ==
    append_turn(append_turn(h, [role |-> "user", id |-> id]), [role |-> "assistant", id |-> id])

\* Generation failed or timed out: the request fails and leaves nothing.
AssistantFails(s) ==
    /\ asking[s] # None
    /\ asking' = [asking EXCEPT ![s] = None]
    /\ UNCHANGED <<plan, idem, history, sent, applied, copy, offer, asks>>

\* The model answered, safely or not; unsafe advice carries no cards.
AssistantAnswers(s) ==
    /\ asking[s] # None
    /\ \E out \in CardOutputs \cup {<<>>}, cited \in BOOLEAN, heard \in BOOLEAN :
         offer' = IF heard THEN [base |-> asking[s].snapshot.rev,
                                 cards |-> PendingCards(asking[s].snapshot, out, cited)]
                           ELSE offer
    /\ history' = IF asking[s].persisted THEN TurnPair(history, asking[s].id) ELSE history
    /\ asking' = [asking EXCEPT ![s] = None]
    /\ UNCHANGED <<plan, idem, sent, applied, copy, asks>>

PlansNext ==
    \/ SendCreate \/ SendEdit \/ GetPlan \/ handle_delete_plan
    \/ \E k \in Keys : Deliver(k)
    \/ \E s \in Slots : handle_assistant(s) \/ AssistantFails(s) \/ AssistantAnswers(s)

PlansSpec == PlansInit /\ [][PlansNext]_planVars

-----------------------------------------------------------------------------
(***************************************************************************)
(* A write takes effect at most once, however often it is repeated, even   *)
(* when the plan was edited further or deleted in between: no retry brings *)
(* an old state or a deleted plan back (_idempotency of the repository).   *)
(***************************************************************************)
AppliedOnce == \A k \in Keys : applied[k] <= 1

(***************************************************************************)
(* The history is always whole exchanges, a user turn and the answer to    *)
(* it, although requests overlap and the list is cut at its limit          *)
(* (append_turn twice in handle_assistant).                                *)
(***************************************************************************)
HistoryPaired ==
    /\ Len(history) % 2 = 0
    /\ \A i \in 1..(Len(history) \div 2) :
         /\ history[2 * i - 1].role = "user"
         /\ history[2 * i].role = "assistant"
         /\ history[2 * i - 1].id = history[2 * i].id

(***************************************************************************)
(* Accepting cards the validation left pending, in any order and across    *)
(* revisions, never breaks what validate_plan demands of the phases and    *)
(* never takes out of the stored plan a mandatory task of the draft it     *)
(* comes from (validate_change_card).                                      *)
(***************************************************************************)
Required(p) == {t.id : t \in {u \in p.tasks : u.kind = "required"}}

StoredPlanValid ==
    plan # None =>
        /\ ValidPlan(plan)
        /\ \E d \in Drafts : /\ d.model = plan.model /\ d.target = plan.target
                             /\ Required(d) \subseteq Required(plan)
=============================================================================
