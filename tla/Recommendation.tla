---------------------------- MODULE Recommendation ----------------------------
(***************************************************************************)
(* A mentor recommendation, from the request to the cards.  A request is a *)
(* chat turn (ConversationDispatcher.dispatch) or a direct call            *)
(* (RecommendationCore.recommend); it pins the build SnapshotReadiness     *)
(* hands out (served) and then awaits the LLM, the embedding, the vector   *)
(* store and the catalog while other builds are promoted (active).         *)
(*                                                                         *)
(* The rows of a build do not change while it is served                    *)
(* (CatalogRelease!ActiveUntouched), so Facts is a constant.  Ranking      *)
(* scores are abstracted to "any order": hits, survivors and windows are   *)
(* sets, and a cut-off keeps any part of the right size.                   *)
(***************************************************************************)
EXTENDS Naturals, Sequences, FiniteSetsExt

CONSTANTS
  Builds,
  NoBuild,
  Embeddable,  \* builds with the configured embedding provider and model
  Flagged,     \* builds coverage_flags_by_build_id has org_unit_ids for
  Professors,
  NoOne,
  Facts,     \* per build: the active, not excluded canonical rows
  Payload,   \* per build: what the Qdrant points say
  Unknown,   \* a city or an org unit that is not known, or not asked for
  Limit,     \* request.limit
  Steps,     \* oversample steps, a sequence of sizes
  Window,    \* detail_rerank_window
  PriorCap,  \* how many earlier results list_prior_entity_ids returns
  MaxTurns   \* bound on requests

ASSUME RecommendationAssumption ==
  /\ Limit \in Nat \ {0} /\ Window \in Nat \ {0} /\ PriorCap \in Nat
  /\ IsFiniteSet(Professors) /\ NoOne \notin Professors /\ NoBuild \notin Builds
  /\ \A b \in Builds : DOMAIN Facts[b] \cup DOMAIN Payload[b] \subseteq Professors

VARIABLES
  active, \* the build that is ACTIVE in the catalog
  served, \* what get_snapshot() returns
  req,    \* the request under way and, at pc "done", its response
  shown,  \* snapshot_json.result_entity_ids of the session's turns
  turns   \* requests made

servingVars == <<active, served>>
vars == <<servingVars, req, shown, turns>>

Intents == {"new_search", "more_mentors", "same_field", "refine_direction", "detail_followup"}
Cities(b) == {Facts[b][p].city : p \in DOMAIN Facts[b]}
Wanted == {Unknown} \cup UNION {Cities(b) : b \in Builds}
OrgUnits == {Unknown} \cup UNION {{Facts[b][p].org : p \in DOMAIN Facts[b]} : b \in Builds}

NoRequest ==
  [pc |-> "none", kind |-> "chat", intent |-> "new_search", build |-> NoBuild,
   anchor |-> NoOne, prior |-> {}, exclude |-> {}, review |-> FALSE, explicit |-> Unknown,
   city |-> Unknown, org |-> Unknown, relax |-> FALSE, step |-> 1,
   strict |-> {}, extra |-> {}, cards |-> {}, out |-> "none"]

Ends(out) == req' = [req EXCEPT !.pc = "done", !.out = out, !.cards = {}, !.strict = {},
                                !.extra = {}]

Init ==
  /\ active \in Builds /\ served = active
  /\ req = NoRequest /\ shown = <<>> /\ turns = 0

\* SnapshotReadiness: a build is promoted; the snapshot follows, or expires.
Release(b) == active' = b /\ UNCHANGED <<served, req, shown, turns>>
Refresh(b) == b \in {active, NoBuild} /\ served' = b /\ UNCHANGED <<active, req, shown, turns>>

-----------------------------------------------------------------------------
Everyone(k) == UNION {shown[i] : i \in 1..k}

\* Mutant: only the turn just before this one is looked up.
PriorLast == {IF shown = <<>> THEN {} ELSE shown[Len(shown)]}

\* The session's earlier results, as list_prior_entity_ids returns them: turn
\* by turn, until there are PriorCap of them.
Prior ==
  {S \in SUBSET Everyone(Len(shown)) :
     /\ Cardinality(S) = Min({PriorCap, Cardinality(Everyone(Len(shown)))})
     /\ \E k \in 0..Len(shown) :
          Everyone(k) \subseteq S /\ S \subseteq Everyone(Min({k + 1, Len(shown)}))}

\* A chat turn: the public request has no filters, an implicit intent and the
\* session's context.  A direct request has no conversation context.
Ask(kind, anchor, city, org, review, prior) ==
  /\ req = NoRequest
  /\ turns < MaxTurns
  /\ kind = "chat" => city = Unknown /\ org = Unknown /\ ~review
  /\ kind = "direct" => anchor = NoOne /\ prior = {}
  /\ req' = [NoRequest EXCEPT !.pc = "pin", !.kind = kind, !.anchor = anchor, !.prior = prior,
                              !.explicit = city, !.org = org, !.review = review]
  /\ turns' = turns + 1
  /\ UNCHANGED <<servingVars, shown>>

\* validate_request finds a malformed field.
Invalid ==
  /\ req.pc = "pin" /\ req.kind = "direct"
  /\ Ends("error")
  /\ UNCHANGED <<servingVars, shown, turns>>

\* The content policy, a permission or the context speaks against the request.
Refused ==
  /\ req.pc = "pin" /\ req.kind = "direct"
  /\ Ends("error")
  /\ UNCHANGED <<servingVars, shown, turns>>

\* One snapshot for the whole request.
Pin ==
  /\ req.pc = "pin"
  /\ IF served = NoBuild
     THEN Ends("error")
     ELSE req' = [req EXCEPT !.pc = IF req.kind = "chat" THEN "classify" ELSE "understand",
                             !.build = served]
  /\ UNCHANGED <<servingVars, shown, turns>>

\* resolve_recommend_route: some intents need earlier results or an anchor.
Routable(intent) ==
  /\ intent = "more_mentors" => req.prior # {}
  /\ intent \in {"same_field", "detail_followup"} => req.anchor # NoOne

\* _classify_implicit finds an intent: the request is routed by it.
Classify(intent) ==
  /\ req.pc = "classify"
  /\ IF Routable(intent)
     THEN req' = [req EXCEPT
            !.pc = IF intent = "detail_followup" THEN "followup" ELSE "understand",
            !.intent = intent,
            !.exclude = IF intent = "more_mentors" THEN req.prior ELSE {}]
     ELSE Ends("error")
  /\ UNCHANGED <<servingVars, shown, turns>>

\* It finds none, or the generation fails.
NotClassified(out) ==
  /\ req.pc = "classify"
  /\ Ends(out)
  /\ UNCHANGED <<servingVars, shown, turns>>

\* A question about one professor; GroundedAnswers has the generation.
Followup(answered) ==
  /\ req.pc = "followup"
  /\ IF answered /\ req.anchor \in DOMAIN Facts[req.build]
                 /\ Facts[req.build][req.anchor].role = "included"
     THEN req' = [req EXCEPT !.pc = "done", !.out = "followup", !.cards = {req.anchor}]
     ELSE Ends("error")
  /\ UNCHANGED <<servingVars, shown, turns>>

\* _effective_filters: a city the query prefers becomes a filter when the
\* request has none, and (_relaxed_preference_filters) may be given up later.
Merges == req.intent \in {"new_search", "refine_direction"} /\ req.explicit = Unknown
Relaxable(preferred) == Merges /\ preferred # Unknown

Understand(preferred) ==
  /\ req.pc = "understand"
  /\ req' = [req EXCEPT !.pc = IF req.intent = "same_field" THEN "anchor" ELSE "embed",
                        !.city = IF Merges THEN preferred ELSE req.explicit,
                        !.relax = Relaxable(preferred)]
  /\ UNCHANGED <<servingVars, shown, turns>>

\* The query is not understood well enough, or the LLM's output is no use.
Clarify ==
  /\ req.pc = "understand"
  /\ Ends("clarify")
  /\ UNCHANGED <<servingVars, shown, turns>>

\* Rows with role excluded are never read; review rows only on demand.
Visible(fact) == fact.role = "included" \/ (fact.role = "review" /\ req.review)

\* same_field: the anchor must be in the build, and is not recommended itself.
Anchor ==
  /\ req.pc = "anchor"
  /\ IF /\ req.anchor \in DOMAIN Facts[req.build]
        /\ Visible(Facts[req.build][req.anchor]) /\ Facts[req.build][req.anchor].topics
     THEN req' = [req EXCEPT !.pc = "embed", !.exclude = @ \cup {req.anchor}]
     ELSE Ends("error")
  /\ UNCHANGED <<servingVars, shown, turns>>

\* An exception in the pipeline: recommend() makes an error response of it,
\* dispatch() does not catch it and the attempt is left to its caller.
OnFailure == IF req.kind = "chat" THEN "raised" ELSE "error"

\* The adapter refuses a build with another embedding provider or model.
Embed ==
  /\ req.pc = "embed"
  /\ IF req.build \in Embeddable
     THEN req' = [req EXCEPT !.pc = "recall"]
     ELSE Ends(OnFailure)
  /\ UNCHANGED <<servingVars, shown, turns>>

-----------------------------------------------------------------------------
\* Recall.  The filters the request has in this loop; the city is dropped in
\* the second one.
City == IF req.pc = "relax" THEN Unknown ELSE req.city
OrgDegraded == req.build \notin Flagged

Matches(value, asked) == asked = Unknown \/ value = asked

\* payload_prefilter keeps what the payload does not say.
Prefiltered(point) ==
  OrgDegraded \/ point.org = Unknown \/ Matches(point.org, req.org)

\* The points of the pinned build's collection that pass the query's filter.
Hits ==
  {p \in DOMAIN Payload[req.build] : /\ Matches(Payload[req.build][p].city, City)
                                     /\ Prefiltered(Payload[req.build][p])}

\* Mutant: the rows of the build that is ACTIVE now.
HydratedActive == Facts[active]

\* hydrate(): the pinned build's rows.
Hydrated == Facts[req.build]

\* final_filter: the facts decide, not the payload.
Passes(p) ==
  /\ p \in DOMAIN Hydrated
  /\ Visible(Hydrated[p])
  /\ p \notin req.exclude
  /\ Matches(Hydrated[p].city, City)
  /\ OrgDegraded \/ Matches(Hydrated[p].org, req.org)

Extras(survivors) == survivors \ req.strict

\* One oversample step.  Fewer survivors than asked for: the next step starts
\* over with more hits.
RecallStep(hits) ==
  /\ req.pc \in {"recall", "relax"}
  /\ Cardinality(hits) = Min({Steps[req.step], Cardinality(Hits)})
  /\ LET survivors == {p \in hits : Passes(p)}
         strict == IF req.pc = "recall" THEN survivors ELSE req.strict
         extra == IF req.pc = "relax" THEN Extras(survivors) ELSE {}
     IN IF Cardinality(survivors) < Limit /\ req.step < Len(Steps)
        THEN req' = [req EXCEPT !.step = @ + 1]
        ELSE IF req.pc = "recall" /\ req.relax /\ Cardinality(survivors) < Limit
        THEN req' = [req EXCEPT !.pc = "relax", !.step = 1, !.strict = strict]
        ELSE IF strict \cup extra = {}
        THEN Ends("empty")
        ELSE req' = [req EXCEPT !.pc = "details", !.strict = strict, !.extra = extra]
  /\ UNCHANGED <<servingVars, shown, turns>>

\* The window that is reranked: strict survivors come first.
Windows ==
  {w \in SUBSET (req.strict \cup req.extra) :
     /\ Cardinality(w) = Min({Window, Cardinality(req.strict \cup req.extra)})
     /\ w \cap req.extra # {} => req.strict \subseteq w}

\* The details of the window, fetched in one batch that is retried once; when
\* they cannot be had the cards are made without them.
Details(w) ==
  /\ req.pc = "details"
  /\ req' = [req EXCEPT !.pc = "rerank", !.strict = @ \cap w, !.extra = @ \cap w]
  /\ UNCHANGED <<servingVars, shown, turns>>

\* Mutant: the score alone decides.
TopOfAny(w) == {c \in SUBSET w : Cardinality(c) = Min({Limit, Cardinality(w)})}

\* The cards: the best of the window, strict survivors before the others.
TopOf(w) ==
  {c \in SUBSET w : /\ Cardinality(c) = Min({Limit, Cardinality(w)})
                    /\ c \cap req.extra # {} => req.strict \subseteq c}

Respond(cards) ==
  /\ req.pc = "rerank"
  /\ req' = [req EXCEPT !.pc = "done", !.out = "cards", !.cards = cards]
  /\ UNCHANGED <<servingVars, shown, turns>>

\* A port raises; _guarded_async makes a ClassifiedRecommendError of it.
PortFails ==
  /\ req.pc \in {"understand", "anchor", "embed", "recall", "relax"}
  /\ Ends(OnFailure)
  /\ UNCHANGED <<servingVars, shown, turns>>

\* total_timeout.
TimesOut ==
  /\ req.pc \in {"understand", "anchor", "embed", "recall", "relax", "details", "rerank"}
  /\ Ends("error")
  /\ UNCHANGED <<servingVars, shown, turns>>

\* The attempt is completed: the turn remembers whom it showed.
Record ==
  /\ req.pc = "done"
  /\ shown' = IF req.kind = "chat" /\ req.out \in {"cards", "followup"}
              THEN Append(shown, req.cards) ELSE shown
  /\ req' = NoRequest
  /\ UNCHANGED <<servingVars, turns>>

RequestStep ==
  \/ \E kind \in {"chat", "direct"}, anchor \in Professors \cup {NoOne}, city \in Wanted,
        org \in OrgUnits, review \in BOOLEAN, prior \in Prior \cup {{}} :
       /\ kind = "chat" => prior \in Prior
       /\ Ask(kind, anchor, city, org, review, prior)
  \/ Invalid \/ Refused \/ Pin
  \/ \E intent \in Intents : Classify(intent)
  \/ \E out \in {"error", "clarify"} : NotClassified(out)
  \/ \E answered \in BOOLEAN : Followup(answered)
  \/ \E preferred \in Wanted : Understand(preferred)
  \/ Clarify \/ Anchor \/ Embed
  \/ req.pc \in {"recall", "relax"} /\ \E hits \in SUBSET Hits : RecallStep(hits)
  \/ \E w \in Windows : Details(w)
  \/ \E cards \in TopOf(req.strict \cup req.extra) : Respond(cards)
  \/ PortFails \/ TimesOut \/ Record

Next ==
  \/ \E b \in Builds : Release(b)
  \/ \E b \in Builds \cup {NoBuild} : Refresh(b)
  \/ RequestStep

Spec == Init /\ [][Next]_vars

-----------------------------------------------------------------------------

\* Every card satisfies the filters by the facts of the build the response
\* names, whatever the payloads said and whatever was promoted meanwhile; only
\* a location the user merely preferred may be given up (final_filter).
CardsPassFilters ==
  req.out = "cards" =>
    \A p \in req.cards :
      /\ p \in DOMAIN Facts[req.build] /\ Visible(Facts[req.build][p])
      /\ p # req.anchor \/ req.intent # "same_field"
      /\ Matches(Facts[req.build][p].org, req.org) \/ OrgDegraded
      /\ Matches(Facts[req.build][p].city, req.city) \/ (p \in req.extra /\ req.relax)

\* Someone outside the preferred location is shown only when the strict search
\* found too few, and then everyone it found is shown too (_recommend_pinned).
RelaxedOnlyFills ==
  req.out = "cards" /\ req.cards \cap req.extra # {} =>
    req.strict \subseteq req.cards /\ Cardinality(req.strict) < Limit

\* "More mentors" shows nobody the session has shown before, as long as the
\* session's results fit in what is looked up (_merge_stored_context).
MoreAreNew ==
  req.out = "cards" /\ req.intent = "more_mentors"
    /\ Cardinality(Everyone(Len(shown))) <= PriorCap =>
      req.cards \cap Everyone(Len(shown)) = {}
=============================================================================
