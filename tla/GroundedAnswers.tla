--------------------------- MODULE GroundedAnswers ---------------------------
(***************************************************************************)
(* Grounded generation, from the facts to the answer a caller may show:    *)
(* the mentor operations (match analysis, outreach e-mail, comparison and  *)
(* the detail follow-up), the competition question and comparison, and the *)
(* label operations (quick actions, title, achievement extraction).  Each  *)
(* reads its facts, pinned to one build, asks the model and passes what    *)
(* comes back through a support map, the citation validator and the safety *)
(* guard.  The served build may change between two reads.                  *)
(*                                                                         *)
(* A fact item is a record: the references it carries, whether a contact   *)
(* was found in it, its size in tokens.  A claim of the model's output is  *)
(* its class, the references it reports (a key, and whether the content    *)
(* hash agrees), the fact indices it names, its tone (which of the safety  *)
(* patterns its text holds) and whether its user context is real.  The     *)
(* claims of a result are a set: each is treated alone, in any order.      *)
(***************************************************************************)
EXTENDS Integers, Sequences, FiniteSets, Functions

CONSTANTS
    Builds, NoBuild,   \* catalog builds; NoBuild: no snapshot is served
    People,            \* professors
    Refs,              \* source references (they name their build)
    Facts,             \* Facts[b][p]: the fact items of p in build b, a sequence
    Role,              \* Role[b][p]: included, review, excluded or absent
    Cards,             \* Cards[c]: the fact items of a competition card
    Hits,              \* the sequences of items a knowledge query may return
    TokenBudget,       \* trim_token_budget
    FactLimit          \* fact_limit of the outreach operation

VARIABLES
    served,   \* the build of the current snapshot, or NoBuild
    job,      \* the operation in progress
    answer    \* what the last operation returned, until the next one begins

groundedVars == <<served, job, answer>>

Mentor == {"match_analysis", "outreach_email", "professor_comparison", "detail_followup"}
Labels == {"quick_actions", "conversation_title", "achievement_extraction"}
Contest == {"competition_qa_answer", "competition_compare"}

\* A fact item as build_fact_items and the competition cards make them.
Item == [refs : SUBSET Refs, contact : BOOLEAN, size : Nat]

ASSUME GroundedAssumption ==
    /\ NoBuild \notin Builds
    /\ \A b \in Builds, p \in People : Facts[b][p] \in Seq(Item)
    /\ \A c \in DOMAIN Cards : Cards[c] \in Seq(Item)
    /\ Hits \subseteq Seq(Item)
    /\ TokenBudget \in Int /\ FactLimit \in Nat \ {0}

NoJob == [stage |-> "idle", op |-> "none", build |-> NoBuild, review |-> FALSE,
          todo |-> <<>>, done |-> <<>>, bundle |-> <<>>]
NoAnswer == [op |-> "none", kind |-> "none", build |-> NoBuild, about |-> {},
             claims |-> {}, cited |-> {}, unsupported |-> FALSE]

RefsOf(items) == UNION {items[i].refs : i \in DOMAIN items}

GroundedInit ==
    /\ served = NoBuild
    /\ job = NoJob
    /\ answer = NoAnswer

(***************************************************************************)
(* The snapshot provider serves another build, or none.                    *)
(***************************************************************************)
Refresh ==
    \E b \in Builds \cup {NoBuild} :
        /\ b # served
        /\ served' = b
        /\ UNCHANGED <<job, answer>>

(***************************************************************************)
(* The operation returns k: the caller is answered and the job is over.    *)
(***************************************************************************)
Conclude(k) ==
    /\ job' = NoJob
    /\ answer' = [NoAnswer EXCEPT !.op = job.op, !.kind = k, !.build = job.build,
                                  !.about = Range(job.done) \cup Range(job.todo)]
    /\ UNCHANGED served

(***************************************************************************)
(* A mentor operation: its subjects are distinct, it pins the snapshot     *)
(* being served, and it is refused without one or without its generation   *)
(* profile.                                                                *)
(***************************************************************************)
Compared == {<<p, q>> : p, q \in People}
Subjects(op) == IF op = "professor_comparison" THEN Compared ELSE {<<p>> : p \in People}

Refused(s) == served = NoBuild \/ ~IsInjective(s)

BeginMentor ==
    /\ job.stage = "idle"
    /\ \E op \in Mentor, review, profile \in BOOLEAN : \E s \in Subjects(op) :
        IF Refused(s) \/ ~profile
        THEN /\ answer' = [NoAnswer EXCEPT !.op = op, !.kind = "error", !.about = Range(s)]
             /\ UNCHANGED job
        ELSE /\ job' = [NoJob EXCEPT !.stage = "read", !.op = op, !.build = served,
                                    !.review = review, !.todo = s]
             /\ answer' = NoAnswer
    /\ UNCHANGED served

(***************************************************************************)
(* trim: an item with a contact is rejected, a query hit is always kept,   *)
(* another item while the budget lasts.  Kept(s, I): the elements of s at  *)
(* the positions in I, in their order.                                     *)
(***************************************************************************)
Kept(s, I) ==
    LET take[n \in 0..Len(s)] ==
            IF n = 0 THEN <<>>
            ELSE IF n \in I THEN Append(take[n-1], s[n]) ELSE take[n-1]
    IN  take[Len(s)]

Affordable(items, hits) ==
    LET left[i \in 1..Len(items) + 1] ==
            IF i = 1 THEN TokenBudget
            ELSE IF items[i-1].contact \/ i - 1 \in hits \/ items[i-1].size > left[i-1]
                 THEN left[i-1]
                 ELSE left[i-1] - items[i-1].size
    IN  {i \in DOMAIN items : i \in hits \/ (TokenBudget > 0 /\ items[i].size <= left[i])}

Trimmed(items, hits) ==
    Kept(items, {i \in Affordable(items, hits) : ~items[i].contact})

(***************************************************************************)
(* The bundle of an operation: the follow-up sends the professor's bundle  *)
(* as it is, the others trim the merged one, the e-mail takes the first    *)
(* fact_limit facts.                                                       *)
(***************************************************************************)
OutreachBundle(items, hits) ==
    LET t == Trimmed(items, hits)
    IN  SubSeq(t, 1, IF Len(t) < FactLimit THEN Len(t) ELSE FactLimit)

Bundle(op, items, hits) ==
    CASE op = "detail_followup" -> items
      [] op = "outreach_email" -> OutreachBundle(items, hits)
      [] OTHER -> Trimmed(items, hits)

(***************************************************************************)
(* get_detail of the next subject, in the pinned build.  A professor that  *)
(* is absent or excluded there, or under review and not visible to the     *)
(* viewer, ends the operation; after the last one the bundle is made.      *)
(***************************************************************************)
Visible(b, p) ==
    \/ Role[b][p] = "included"
    \/ Role[b][p] = "review" /\ job.review

SourceNow == IF served = NoBuild THEN job.build ELSE served
Source == job.build

ReadDetail ==
    /\ job.stage = "read"
    /\ LET p == Head(job.todo)
           items == job.bundle \o Facts[Source][p]
       IN  \/ /\ ~Visible(Source, p)
              /\ Conclude("error")
           \/ /\ Visible(Source, p)
              /\ Len(job.todo) > 1
              /\ job' = [job EXCEPT !.todo = Tail(@), !.done = Append(@, p), !.bundle = items]
              /\ UNCHANGED <<served, answer>>
           \/ /\ Visible(Source, p)
              /\ Len(job.todo) = 1
              /\ \E hits \in SUBSET DOMAIN items :
                    LET b == Bundle(job.op, items, hits)
                    IN  IF b = <<>>
                        THEN Conclude("error")
                        ELSE /\ job' = [job EXCEPT !.stage = "generate", !.todo = <<>>,
                                                   !.done = Append(@, p), !.bundle = b]
                             /\ UNCHANGED <<served, answer>>

(***************************************************************************)
(* A catalog read that fails: the mentor operations catch only a missing   *)
(* professor, so the exception leaves the operation.                       *)
(***************************************************************************)
ReadFails ==
    /\ job.stage = "read"
    /\ Conclude("raised")

(***************************************************************************)
(* A competition question: the card, if one is named and found, and the    *)
(* hits of the knowledge index.  With nothing to cite no model is asked.   *)
(* A comparison needs two to four distinct cards that exist, or it raises. *)
(***************************************************************************)
QuestionBundles == {x[1] \o x[2] : x \in ({<<>>} \cup Range(Cards)) \X Hits}
CompareBundles ==
    {Cards[x[1]] \o Cards[x[2]] : x \in {y \in (DOMAIN Cards) \X (DOMAIN Cards) : y[1] # y[2]}}

BeginQuestion ==
    /\ job.stage = "idle"
    /\ \E b \in QuestionBundles :
            IF RefsOf(b) = {}
            THEN /\ answer' = [NoAnswer EXCEPT !.op = "competition_qa_answer", !.kind = "uncertain"]
                 /\ UNCHANGED job
            ELSE /\ job' = [NoJob EXCEPT !.stage = "generate", !.op = "competition_qa_answer",
                                        !.bundle = b]
                 /\ answer' = NoAnswer
    /\ UNCHANGED served

BeginCompare ==
    /\ job.stage = "idle"
    /\ \/ /\ \E b \in CompareBundles :
               job' = [NoJob EXCEPT !.stage = "generate", !.op = "competition_compare",
                                    !.bundle = b]
          /\ answer' = NoAnswer
       \/ /\ answer' = [NoAnswer EXCEPT !.op = "competition_compare", !.kind = "raised"]
          /\ UNCHANGED job
    /\ UNCHANGED served

(***************************************************************************)
(* A label operation sends an empty bundle.                                *)
(***************************************************************************)
BeginLabel ==
    /\ job.stage = "idle"
    /\ \E op \in Labels : job' = [NoJob EXCEPT !.stage = "generate", !.op = op]
    /\ answer' = NoAnswer
    /\ UNCHANGED served

-----------------------------------------------------------------------------
(***************************************************************************)
(* What the model may return: nothing usable (no content, no JSON, against *)
(* the schema), or claims.  The schema makes the class and the indices     *)
(* mandatory, and only the mentor schemas let a claim report references.   *)
(***************************************************************************)
RawRefs == {{}} \cup {{[key |-> r, same |-> s]} : r \in Refs, s \in BOOLEAN}
Indices == {{}, {1}, {2}, {1, 2}, {1, 3}}
Tones == {"plain", "probability", "stale"}

(***************************************************************************)
(* What the safety guard may find anywhere in the claims and the output.   *)
(***************************************************************************)
Texts == {"plain", "probability", "stale", "unauthorized_contact", "content_policy_refusal",
          "unsafe_advice"}

RawClaims(op) ==
    LET reported == IF op \in Mentor THEN RawRefs ELSE {{}}
    IN  [class : {"fact"}, refs : {{}}, idx : Indices, tone : Tones, context : {"none"}]
        \cup [class : {"advice"}, refs : reported, idx : {{}, {1}}, tone : {"plain", "probability"},
              context : {"none", "fabricated"}]
        \cup [class : {"uncertain"}, refs : reported, idx : {{}}, tone : {"plain"},
              context : {"none"}]

Raw(op) ==
    IF op \in Labels THEN {{}}
    ELSE {{}} \cup {{c} : c \in RawClaims(op)} \cup
         {{c, d} : c \in {x \in RawClaims(op) : x.class = "fact"}, d \in RawClaims(op)}

(***************************************************************************)
(* The canonical references the indices of a claim name: none when one is  *)
(* out of range or names an item without a reference.                      *)
(***************************************************************************)
CanonicalRefs(idx, bundle) ==
    IF idx = {} \/ \E i \in idx : i > Len(bundle) \/ bundle[i].refs = {}
    THEN {} ELSE UNION {bundle[i].refs : i \in idx}

(***************************************************************************)
(* The same for the competition answers, which only reject an index out of *)
(* range.                                                                  *)
(***************************************************************************)
IndexedRefs(idx, bundle) ==
    IF \E i \in idx : i > Len(bundle) THEN {} ELSE UNION {bundle[i].refs : i \in idx}

RefsNamed(op, c, bundle) ==
    IF op \in Contest THEN IndexedRefs(c.idx, bundle) ELSE CanonicalRefs(c.idx, bundle)

Supported(op, c, bundle) == c.class # "fact" \/ RefsNamed(op, c, bundle) # {}

Canonical(keys) == {[key |-> k, same |-> TRUE] : k \in keys}

(***************************************************************************)
(* validate_fact_index_support: a fact claim takes the references its      *)
(* indices name and is dropped when there are none.                        *)
(***************************************************************************)
Resolved(c, bundle) ==
    CASE c.class = "fact" -> [c EXCEPT !.refs = Canonical(CanonicalRefs(c.idx, bundle))]
      [] c.class = "uncertain" -> [c EXCEPT !.refs = {}]
      [] OTHER -> c

MentorSupport(r, op, bundle) ==
    LET kept == {c \in r.claims : Supported(op, c, bundle)}
    IN  [r EXCEPT
           !.claims = {Resolved(c, bundle) : c \in kept},
           !.codes = @ \cup (IF kept # r.claims THEN {"insufficient_facts"} ELSE {})
                       \cup (IF kept = {} /\ r.claims # {} THEN {"no_grounded_output"} ELSE {})]

(***************************************************************************)
(* support_map_validator: the indices replace whatever was reported, a     *)
(* fact claim without support becomes an uncertain one.                    *)
(***************************************************************************)
Attached(c, op, bundle) ==
    IF c.class = "uncertain" \/ ~Supported(op, c, bundle)
    THEN [c EXCEPT !.class = "uncertain", !.refs = {}]
    ELSE [c EXCEPT !.refs = Canonical(IndexedRefs(c.idx, bundle))]

ContestSupport(r, op, bundle) ==
    [r EXCEPT
       !.claims = {Attached(c, op, bundle) : c \in r.claims},
       !.codes = @ \cup (IF \A c \in r.claims : Supported(op, c, bundle)
                         THEN {} ELSE {"insufficient_facts"})]

(***************************************************************************)
(* _validate_claim.  Genuine: the key is in the bundle and the content     *)
(* hash agrees.  A claim is dropped for a fabricated reference when it is  *)
(* a fact, or advice with no genuine one.                                  *)
(***************************************************************************)
Genuine(c, bundle) == {x \in c.refs : x.key \in RefsOf(bundle) /\ x.same}

Dropped(c, bundle) ==
    \/ c.class = "fact" /\ Genuine(c, bundle) # c.refs
    \/ c.class = "advice" /\ c.refs # {} /\ Genuine(c, bundle) = {}

Validated(c, bundle) ==
    CASE c.class = "fact" -> IF c.refs = {} THEN [c EXCEPT !.class = "uncertain"] ELSE c
      [] c.class = "advice" -> [c EXCEPT !.refs = Genuine(c, bundle), !.context = "none"]
      [] OTHER -> [c EXCEPT !.refs = {}]

ClaimCodes(c, bundle) ==
    (IF c.class = "fact" /\ c.refs = {} THEN {"fact_ref_missing"} ELSE {})
    \cup (IF c.class # "uncertain" /\ Genuine(c, bundle) # c.refs THEN {"fabricated_ref"} ELSE {})
    \cup (IF c.class = "uncertain" /\ c.refs # {} THEN {"uncertain_claim_with_refs"} ELSE {})
    \cup (IF c.context = "fabricated" THEN {"fabricated_user_context"} ELSE {})

(***************************************************************************)
(* CitationValidator.validate: cited holds the references of what is kept. *)
(***************************************************************************)
Citation(r, bundle) ==
    LET kept == {c \in r.claims : ~Dropped(c, bundle)}
        out == {Validated(c, bundle) : c \in kept}
    IN  [r EXCEPT
           !.claims = out,
           !.cited = {x.key : x \in UNION {c.refs : c \in out}},
           !.codes = @ \cup (UNION {ClaimCodes(c, bundle) : c \in r.claims})
                       \cup (IF kept = {} /\ r.claims # {} THEN {"no_grounded_output"} ELSE {})]

(***************************************************************************)
(* SafetyGuard.inspect.  Refused content and unsafe advice leave no claim; *)
(* a claim with a probability is dropped; in the competition domain a      *)
(* claim about a past edition becomes uncertain.  cited stays as it was.   *)
(***************************************************************************)
Dated(text, op) == op \in Contest /\ text = "stale"

Toned(c, op) ==
    IF Dated(c.tone, op) /\ c.class = "fact" THEN [c EXCEPT !.class = "uncertain"] ELSE c

Safety(r, op) ==
    LET kept == {c \in r.claims : c.tone # "probability"}
    IN  IF r.text \in {"content_policy_refusal", "unsafe_advice"}
        THEN [r EXCEPT !.claims = {}, !.codes = @ \cup {r.text}]
        ELSE [r EXCEPT
               !.claims = {Toned(c, op) : c \in kept},
               !.codes = @ \cup (IF kept # r.claims \/ r.text = "probability"
                                 THEN {"no_probability_claim"} ELSE {})
                           \cup (IF Dated(r.text, op) \/ \E c \in r.claims : Dated(c.tone, op)
                                 THEN {"stale_fact"} ELSE {})
                           \cup ({"unauthorized_contact"} \cap {r.text})]

(***************************************************************************)
(* The pipeline: support map, citations, safety, in this order.            *)
(***************************************************************************)
Pipeline(op, r, bundle) ==
    LET s == CASE op \in Mentor -> MentorSupport(r, op, bundle)
               [] op \in Contest -> ContestSupport(r, op, bundle)
               [] OTHER -> r
    IN  Safety(Citation(s, bundle), op)

(***************************************************************************)
(* What the callers make of a result.  A mentor operation answers only     *)
(* without an error code and with a fact claim that cites; a question gets *)
(* an evidence status; a label operation takes no warning at all.          *)
(***************************************************************************)
Errors == {"llm_unavailable", "generation_parse_error", "schema_validation_failed",
           "no_grounded_output", "unsafe_advice", "content_policy_refusal"}
Partial == {"fact_ref_missing", "fabricated_ref", "insufficient_facts", "no_grounded_output",
            "stale_fact"}

Grounded(r) == \E c \in r.claims : c.class = "fact" /\ c.refs # {}

Doubtful(r) == \E c \in r.claims : c.class = "uncertain"

EvidenceStatus(r) ==
    IF r.claims = {} \/ r.cited = {} THEN "uncertain"
    ELSE IF r.codes \cap Partial # {} \/ Doubtful(r) THEN "partial" ELSE "grounded"

MentorKind(r, usable) ==
    IF r.codes \cap Errors = {} /\ Grounded(r) /\ usable THEN "answer" ELSE "error"

(***************************************************************************)
(* The fallback of a label operation: no chips, the first message as the   *)
(* title, the achievements its own patterns find.                          *)
(***************************************************************************)
Fallback == "fallback"

LabelKind(r, usable) == IF r.codes = {} /\ usable THEN "answer" ELSE Fallback

Kind(op, r, usable) ==
    CASE op \in Mentor -> MentorKind(r, usable)
      [] op = "competition_qa_answer" -> EvidenceStatus(r)
      [] op = "competition_compare" -> "compared"
      [] OTHER -> LabelKind(r, usable)

(***************************************************************************)
(* The comparison of competitions cites its whole bundle when nothing was  *)
(* cited.                                                                  *)
(***************************************************************************)
Sources(op, r) ==
    IF op = "competition_compare" /\ r.cited = {} THEN RefsOf(job.bundle) ELSE r.cited

(***************************************************************************)
(* The model has answered: the rest of the handler runs without an await.  *)
(* A result refused before the model was asked, and one without content,   *)
(* JSON or schema, come without claims and with their code.                *)
(***************************************************************************)
Respond(r, raw, usable) ==
    /\ job' = NoJob
    /\ answer' = [op |-> job.op, kind |-> Kind(job.op, r, usable), build |-> job.build,
                  about |-> Range(job.done),
                  claims |-> {[class |-> c.class, refs |-> {x.key : x \in c.refs}] :
                                  c \in r.claims},
                  cited |-> Sources(job.op, r),
                  unsupported |-> \E c \in raw : ~Supported(job.op, c, job.bundle)]
    /\ UNCHANGED served

Generated ==
    /\ job.stage = "generate"
    /\ \E raw \in Raw(job.op), usable \in BOOLEAN, text \in Texts :
        Respond(Pipeline(job.op, [claims |-> raw, codes |-> {}, cited |-> {}, text |-> text],
                         job.bundle),
                raw, usable)

Unusable ==
    /\ job.stage = "generate"
    /\ \E code \in {"llm_unavailable", "generation_parse_error", "schema_validation_failed",
                    "content_policy_refusal"} :
        Respond([claims |-> {}, codes |-> {code}, cited |-> {}, text |-> "plain"], {}, FALSE)

(***************************************************************************)
(* The model raises or times out: the mentor and label operations answer   *)
(* for it, the competition ones let it pass.                               *)
(***************************************************************************)
GenerationFails ==
    /\ job.stage = "generate"
    /\ Conclude(CASE job.op \in Mentor -> "error"
                [] job.op \in Labels -> Fallback
                [] OTHER -> "raised")

GroundedNext ==
    \/ Refresh
    \/ BeginMentor
    \/ ReadDetail
    \/ ReadFails
    \/ BeginQuestion
    \/ BeginCompare
    \/ BeginLabel
    \/ Generated
    \/ Unusable
    \/ GenerationFails

GroundedSpec == GroundedInit /\ [][GroundedNext]_groundedVars

-----------------------------------------------------------------------------
(***************************************************************************)
(* What an operation may cite about the people in who: the references of   *)
(* the facts b holds about them, none of an item with a contact if it was  *)
(* to be trimmed.                                                          *)
(***************************************************************************)
Allowed(b, op, who) ==
    UNION {UNION {IF Facts[b][p][i].contact /\ op # "detail_followup"
                  THEN {} ELSE Facts[b][p][i].refs : i \in DOMAIN Facts[b][p]} : p \in who}

(***************************************************************************)
(* AnswersGrounded: a mentor answer states at least one fact with a        *)
(* source, and every reference in it is one of the facts the build pinned  *)
(* at the start holds about the professors asked for, all of whom that     *)
(* build shows; what was trimmed cites no item with a contact in it.       *)
(***************************************************************************)
AnswersGrounded ==
    (answer.op \in Mentor /\ answer.kind = "answer") =>
        LET allowed == Allowed(answer.build, answer.op, answer.about)
        IN  /\ \E c \in answer.claims : c.class = "fact" /\ c.refs # {}
            /\ answer.cited \subseteq allowed
            /\ \A c \in answer.claims : c.refs \subseteq allowed
            /\ \A p \in answer.about : Role[answer.build][p] \in {"included", "review"}

(***************************************************************************)
(* GroundedIsSupported: a question is answered as grounded only if every   *)
(* fact the model stated was backed by the bundle, before any of it was    *)
(* dropped or downgraded.                                                  *)
(***************************************************************************)
GroundedIsSupported == answer.kind = "grounded" => ~answer.unsupported /\ answer.cited # {}
=============================================================================
