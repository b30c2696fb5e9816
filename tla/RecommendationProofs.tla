------------------------ MODULE RecommendationProofs ------------------------
(***************************************************************************)
(* Proofs about Recommendation, for any catalog, payloads, limits,         *)
(* oversample steps and number of turns.                                   *)
(*                                                                         *)
(* The request carries what earlier stages established: whom it must not   *)
(* recommend, that the strict survivors pass with the city and the others  *)
(* without it, and that there are others only when the strict ones did not *)
(* fill the page.  The window and the cards keep this because they are     *)
(* parts of the survivors that take the strict ones first.                 *)
(***************************************************************************)
EXTENDS Recommendation, FiniteSetTheorems, TLAPS

Request ==
  [pc : {"none", "pin", "classify", "followup", "understand", "anchor", "embed", "recall",
         "relax", "details", "rerank", "done"},
   kind : {"chat", "direct"}, intent : Intents, build : Builds \cup {NoBuild},
   anchor : Professors \cup {NoOne}, prior : SUBSET Professors, exclude : SUBSET Professors,
   review : BOOLEAN, explicit : Wanted, city : Wanted, org : OrgUnits, relax : BOOLEAN,
   step : Nat, strict : SUBSET Professors, extra : SUBSET Professors,
   cards : SUBSET Professors,
   out : {"none", "error", "clarify", "raised", "empty", "followup", "cards"}]

Typed ==
  /\ active \in Builds /\ served \in Builds \cup {NoBuild}
  /\ req \in Request /\ shown \in Seq(SUBSET Professors)
  /\ req.pc # "done" => req.out = "none"

\* The chat's earlier results were looked up, all of them when they fit.
LooksBack(r) ==
  r.pc # "none" /\ r.kind = "chat" /\ Cardinality(Everyone(Len(shown))) <= PriorCap =>
    Everyone(Len(shown)) \subseteq r.prior

\* Cards are on their way, or made.
Searching(r) ==
  r.pc \in {"embed", "recall", "relax", "details", "rerank"} \/ r.out = "cards"
Understood(r) == Searching(r) \/ r.pc \in {"understand", "anchor"}

\* The request excludes whom it must not recommend.
Excludes(r) ==
  /\ r.intent # "new_search" \/ r.pc = "classify" => r.kind = "chat"
  /\ r.pc \notin {"none", "pin", "done"} \/ r.out = "cards" => r.build \in Builds
  /\ Understood(r) /\ r.intent = "more_mentors" => r.prior \subseteq r.exclude
  /\ Searching(r) /\ r.intent = "same_field" => r.anchor \in r.exclude

\* A professor who may be recommended to someone who asked for this city.
Fits(r, p, city) ==
  /\ p \in DOMAIN Facts[r.build]
  /\ LET fact == Facts[r.build][p]
     IN  /\ fact.role = "included" \/ (fact.role = "review" /\ r.review)
         /\ Matches(fact.city, city)
         /\ r.build \notin Flagged \/ Matches(fact.org, r.org)
  /\ p \notin r.exclude

\* The survivors, and what is left of them.
Survived(r) ==
  /\ r.pc \in {"relax", "details", "rerank"} \/ r.out = "cards" =>
       \A p \in r.strict : Fits(r, p, r.city)
  /\ r.pc \in {"details", "rerank"} \/ r.out = "cards" =>
       /\ \A p \in r.extra : Fits(r, p, Unknown)
       /\ r.extra # {} => r.relax /\ Cardinality(r.strict) < Limit
  /\ r.pc = "relax" => r.relax /\ Cardinality(r.strict) < Limit
  /\ r.out = "cards" =>
       /\ r.cards \subseteq r.strict \cup r.extra
       /\ r.cards \cap r.extra # {} => r.strict \subseteq r.cards

RecommendationInv ==
  Typed /\ LooksBack(req) /\ Excludes(req) /\ Survived(req)

-----------------------------------------------------------------------------
(* Sets of professors and the smaller of two numbers.                      *)

LEMMA SmallerOfTwo ==
  ASSUME NEW a \in Nat, NEW b \in Nat
  PROVE  /\ Min({a, b}) \in Nat
         /\ a <= b => Min({a, b}) = a
         /\ b <= a => Min({a, b}) = b
<1> DEFINE P(x) == x \in {a, b} /\ \A y \in {a, b} : x <= y
<1>1. \E x : P(x)
  <2>1. CASE a <= b
    BY <2>1
  <2>2. CASE b <= a
    BY <2>2
  <2> QED
    BY <2>1, <2>2
<1>2. Min({a, b}) \in {a, b} /\ \A y \in {a, b} : Min({a, b}) <= y
  BY <1>1 DEF Min
<1> HIDE DEF P
<1> QED
  BY <1>2

LEMMA PartIsFinite ==
  ASSUME NEW S \in SUBSET Professors, NEW T \in SUBSET S
  PROVE  /\ Cardinality(S) \in Nat /\ Cardinality(T) \in Nat
         /\ Cardinality(T) <= Cardinality(S)
         /\ Cardinality(T) = Cardinality(S) => T = S
<1>1. IsFiniteSet(Professors)
  BY RecommendationAssumption
<1>2. IsFiniteSet(S)
  BY <1>1, FS_Subset
<1>3. IsFiniteSet(T) /\ Cardinality(T) <= Cardinality(S) /\ (Cardinality(S) = Cardinality(T) => S = T)
  BY <1>2, FS_Subset
<1> QED
  BY <1>2, <1>3, FS_CardinalityType

\* Everyone the session has shown, once they fit, is in the prior results.
LEMMA PriorIsEveryone ==
  ASSUME Typed, NEW S \in Prior, Cardinality(Everyone(Len(shown))) <= PriorCap
  PROVE  S = Everyone(Len(shown))
<1> DEFINE E == Everyone(Len(shown))
<1>1. E \in SUBSET Professors
  BY DEF Everyone, Typed
<1>2. S \in SUBSET E /\ Cardinality(S) = Min({PriorCap, Cardinality(E)})
  BY DEF Prior
<1> HIDE DEF E
<1>3. PriorCap \in Nat /\ Cardinality(E) \in Nat
  BY <1>1, PartIsFinite, RecommendationAssumption
<1>4. Min({PriorCap, Cardinality(E)}) = Cardinality(E)
  BY <1>3, SmallerOfTwo DEF E
<1> QED
  BY <1>1, <1>2, <1>4, PartIsFinite DEF E

-----------------------------------------------------------------------------
(* The steps.                                                              *)

LEMMA InitRecommendation == Init => RecommendationInv
<1> SUFFICES ASSUME Init PROVE RecommendationInv
  OBVIOUS
<1>1. Unknown \in Wanted /\ Unknown \in OrgUnits
  BY Zenon DEF Wanted, OrgUnits
<1>2. req \in Request
  BY <1>1 DEF Init, NoRequest, Request, Intents
<1> QED
  BY <1>2 DEF Init, NoRequest, RecommendationInv, Typed, LooksBack, Excludes, Survived, Understood, Searching

\* A response without cards needs nothing but what the request came with.
LEMMA EndsStep ==
  ASSUME RecommendationInv, req.pc # "none",
         NEW out \in {"error", "clarify", "raised", "empty"}, Ends(out),
         UNCHANGED <<servingVars, shown>>
  PROVE  RecommendationInv'
<1> USE DEF RecommendationInv
<1>1. /\ req'.pc = "done" /\ req'.out = out /\ req'.kind = req.kind
      /\ req'.intent = req.intent /\ req'.prior = req.prior
      /\ req' \in Request
  BY DEF Ends, Typed, Request
<1>2. Typed'
  BY <1>1 DEF Typed, servingVars
<1>3. LooksBack(req)'
  BY <1>1 DEF LooksBack, Everyone
<1>4. Excludes(req)' /\ Survived(req)'
  BY <1>1 DEF Excludes, Survived, Understood, Searching
<1> QED
  BY <1>2, <1>3, <1>4

LEMMA AskStep ==
  ASSUME RecommendationInv, NEW kind \in {"chat", "direct"}, NEW anchor \in Professors \cup {NoOne},
         NEW city \in Wanted, NEW org \in OrgUnits, NEW review \in BOOLEAN,
         NEW prior \in Prior \cup {{}}, kind = "chat" => prior \in Prior,
         Ask(kind, anchor, city, org, review, prior)
  PROVE  RecommendationInv'
<1> USE DEF RecommendationInv
<1>1. prior \in SUBSET Professors
  <2>1. Everyone(Len(shown)) \in SUBSET Professors
    BY DEF Everyone, Typed
  <2>2. prior = {} \/ prior \in SUBSET Everyone(Len(shown))
    BY DEF Prior
  <2> QED
    BY <2>1, <2>2
<1>2. req = NoRequest /\ NoRequest \in Request
  BY DEF Ask, Typed
<1>3. /\ req' \in Request /\ req'.pc = "pin" /\ req'.kind = kind /\ req'.prior = prior
      /\ req'.out = "none" /\ req'.intent = "new_search"
  <2>1. /\ NoRequest.out = "none" /\ NoRequest.intent = "new_search"
        /\ req' = [NoRequest EXCEPT !.pc = "pin", !.kind = kind, !.anchor = anchor,
                                    !.prior = prior, !.explicit = city, !.org = org,
                                    !.review = review]
    BY DEF Ask, NoRequest
  <2> QED
    BY <1>1, <1>2, <2>1 DEF Request
<1>4. shown' = shown /\ active' = active /\ served' = served
  BY DEF Ask, servingVars
<1>5. Typed'
  BY <1>3, <1>4 DEF Typed
<1>6. LooksBack(req)'
  BY <1>3, <1>4, PriorIsEveryone DEF LooksBack, Everyone
<1>7. Excludes(req)' /\ Survived(req)'
  BY <1>3 DEF Excludes, Survived, Understood, Searching
<1> QED
  BY <1>5, <1>6, <1>7

LEMMA PinStep ==
  ASSUME RecommendationInv, Pin
  PROVE  RecommendationInv'
<1> USE DEF RecommendationInv
<1>1. CASE served = NoBuild
  BY <1>1, EndsStep DEF Pin
<1>2. CASE served # NoBuild
  <2>1. /\ req' \in Request /\ req'.pc \in {"classify", "understand"} /\ req'.build = served
        /\ req'.kind = req.kind /\ req'.prior = req.prior /\ req'.intent = req.intent
        /\ req'.out = "none" /\ (req'.pc = "classify" <=> req.kind = "chat")
    <3> DEFINE pc == IF req.kind = "chat" THEN "classify" ELSE "understand"
    <3>1. pc \in {"classify", "understand"} /\ (pc = "classify" <=> req.kind = "chat")
      OBVIOUS
    <3>2. req' = [req EXCEPT !.pc = pc, !.build = served]
      BY <1>2 DEF Pin
    <3>3. req \in Request /\ served \in Builds \cup {NoBuild} /\ req.out = "none"
      BY DEF Pin, Typed
    <3> HIDE DEF pc
    <3> QED
      BY <3>1, <3>2, <3>3 DEF Request
  <2>2. shown' = shown /\ active' = active /\ served' = served /\ req.pc = "pin"
    BY DEF Pin, servingVars
  <2>3. Typed'
    BY <2>1, <2>2 DEF Typed
  <2>4. LooksBack(req)'
    BY <2>1, <2>2 DEF LooksBack, Everyone
  <2>5. Excludes(req)'
    BY <1>2, <2>1, <2>2 DEF Excludes, Understood, Searching, Typed
  <2>6. Survived(req)'
    BY <2>1 DEF Survived
  <2> QED
    BY <2>3, <2>4, <2>5, <2>6
<1> QED
  BY <1>1, <1>2

LEMMA ClassifyStep ==
  ASSUME RecommendationInv, NEW intent \in Intents, Classify(intent)
  PROVE  RecommendationInv'
<1> USE DEF RecommendationInv
<1>1. CASE ~Routable(intent)
  BY <1>1, EndsStep DEF Classify
<1>2. CASE Routable(intent)
  <2>1. /\ req' \in Request /\ req'.pc \in {"followup", "understand"} /\ req'.build = req.build
        /\ req'.kind = req.kind /\ req'.prior = req.prior /\ req'.intent = intent
        /\ req'.out = "none" /\ (intent = "more_mentors" => req'.exclude = req.prior)
    <3> DEFINE pc == IF intent = "detail_followup" THEN "followup" ELSE "understand"
               exclude == IF intent = "more_mentors" THEN req.prior ELSE {}
    <3>1. /\ pc \in {"followup", "understand"}
          /\ intent = "more_mentors" => exclude = req.prior
          /\ intent # "more_mentors" => exclude = {}
      OBVIOUS
    <3>2. req' = [req EXCEPT !.pc = pc, !.intent = intent, !.exclude = exclude]
      BY <1>2 DEF Classify
    <3>3. req \in Request /\ req.out = "none"
      BY DEF Classify, Typed
    <3> HIDE DEF pc, exclude
    <3>4. exclude \in SUBSET Professors
      BY <3>1, <3>3 DEF Request
    <3> QED
      BY <3>1, <3>2, <3>3, <3>4 DEF Request
  <2>2. shown' = shown /\ active' = active /\ served' = served /\ req.pc = "classify"
    BY DEF Classify, servingVars
  <2>3. Typed'
    BY <2>1, <2>2 DEF Typed
  <2>4. LooksBack(req)'
    BY <2>1, <2>2 DEF LooksBack, Everyone
  <2>5. Excludes(req)'
    BY <2>1, <2>2 DEF Excludes, Understood, Searching
  <2>6. Survived(req)'
    BY <2>1 DEF Survived
  <2> QED
    BY <2>3, <2>4, <2>5, <2>6
<1> QED
  BY <1>1, <1>2

\* A question about one professor ends without cards of a search.
LEMMA FollowupStep ==
  ASSUME RecommendationInv, NEW answered \in BOOLEAN, Followup(answered)
  PROVE  RecommendationInv'
<1> USE DEF RecommendationInv
<1> DEFINE found == /\ answered /\ req.anchor \in DOMAIN Facts[req.build]
                    /\ Facts[req.build][req.anchor].role = "included"
<1>1. CASE ~found
  BY <1>1, EndsStep DEF Followup
<1>2. CASE found
  <2>1. req.pc = "followup" /\ req.build \in Builds /\ req.anchor \in Professors
    BY <1>2, RecommendationAssumption DEF Followup, Excludes
  <2>2. req' = [req EXCEPT !.pc = "done", !.out = "followup", !.cards = {req.anchor}]
    BY <1>2 DEF Followup
  <2> HIDE DEF found
  <2>3. /\ req'.pc = "done" /\ req'.out = "followup" /\ req'.kind = req.kind
        /\ req'.intent = req.intent /\ req'.prior = req.prior /\ req' \in Request
    BY <2>1, <2>2 DEF Typed, Request
  <2>4. shown' = shown /\ active' = active /\ served' = served
    BY DEF Followup, servingVars
  <2>5. Typed'
    BY <2>3, <2>4 DEF Typed
  <2>6. LooksBack(req)'
    BY <2>1, <2>3, <2>4 DEF LooksBack, Everyone
  <2>7. Excludes(req)' /\ Survived(req)'
    BY <2>3 DEF Excludes, Survived, Understood, Searching
  <2> QED
    BY <2>5, <2>6, <2>7
<1> QED
  BY <1>1, <1>2

LEMMA UnderstandStep ==
  ASSUME RecommendationInv, NEW preferred \in Wanted, Understand(preferred)
  PROVE  RecommendationInv'
<1> USE DEF RecommendationInv
<1> DEFINE pc == IF req.intent = "same_field" THEN "anchor" ELSE "embed"
           city == IF Merges THEN preferred ELSE req.explicit
           relax == Relaxable(preferred)
<1>1. /\ pc \in {"anchor", "embed"} /\ (req.intent = "same_field" => pc = "anchor")
      /\ req.explicit \in Wanted => city \in Wanted
      /\ relax \in BOOLEAN
  BY DEF Relaxable, Merges
<1>2. req' = [req EXCEPT !.pc = pc, !.city = city, !.relax = relax]
  BY DEF Understand
<1>3. req \in Request /\ req.pc = "understand" /\ req.out = "none"
  BY DEF Understand, Typed
<1> HIDE DEF pc, city, relax
<1>4. city \in Wanted
  BY <1>1, <1>3 DEF Request
<1>5. /\ req' \in Request /\ req'.pc = pc /\ req'.out = "none" /\ req'.kind = req.kind
      /\ req'.intent = req.intent /\ req'.prior = req.prior /\ req'.exclude = req.exclude
      /\ req'.build = req.build /\ req'.anchor = req.anchor
  BY <1>1, <1>2, <1>3, <1>4 DEF Request
<1>6. shown' = shown /\ active' = active /\ served' = served
  BY DEF Understand, servingVars
<1>7. Typed'
  BY <1>1, <1>5, <1>6 DEF Typed
<1>8. LooksBack(req)'
  BY <1>3, <1>5, <1>6 DEF LooksBack, Everyone
<1>9. Excludes(req)' /\ Survived(req)'
  BY <1>1, <1>3, <1>5 DEF Excludes, Survived, Understood, Searching
<1> QED
  BY <1>7, <1>8, <1>9

LEMMA AnchorStep ==
  ASSUME RecommendationInv, Anchor
  PROVE  RecommendationInv'
<1> USE DEF RecommendationInv
<1> DEFINE found == /\ req.anchor \in DOMAIN Facts[req.build]
                    /\ Visible(Facts[req.build][req.anchor]) /\ Facts[req.build][req.anchor].topics
<1>1. CASE ~found
  BY <1>1, EndsStep DEF Anchor
<1>2. CASE found
  <2>1. /\ req.pc = "anchor" /\ req.out = "none" /\ req.build \in Builds
        /\ req.anchor \in Professors
    BY <1>2, RecommendationAssumption DEF Anchor, Excludes, Typed
  <2>2. req' = [req EXCEPT !.pc = "embed", !.exclude = @ \cup {req.anchor}]
    BY <1>2 DEF Anchor
  <2> HIDE DEF found
  <2>3. /\ req' \in Request /\ req'.pc = "embed" /\ req'.out = "none" /\ req'.kind = req.kind
        /\ req'.intent = req.intent /\ req'.prior = req.prior /\ req'.anchor = req.anchor
        /\ req'.exclude = req.exclude \cup {req.anchor} /\ req'.build = req.build
    BY <2>1, <2>2 DEF Typed, Request
  <2>4. shown' = shown /\ active' = active /\ served' = served
    BY DEF Anchor, servingVars
  <2>5. Typed'
    BY <2>3, <2>4 DEF Typed
  <2>6. LooksBack(req)'
    BY <2>1, <2>3, <2>4 DEF LooksBack, Everyone
  <2>7. Excludes(req)' /\ Survived(req)'
    BY <2>1, <2>3 DEF Excludes, Survived, Understood, Searching
  <2> QED
    BY <2>5, <2>6, <2>7
<1> QED
  BY <1>1, <1>2

LEMMA EmbedStep ==
  ASSUME RecommendationInv, Embed
  PROVE  RecommendationInv'
<1> USE DEF RecommendationInv
<1>1. CASE req.build \notin Embeddable
  BY <1>1, EndsStep DEF Embed, OnFailure
<1>2. CASE req.build \in Embeddable
  <2>1. /\ req' \in Request /\ req'.pc = "recall" /\ req'.out = "none" /\ req'.kind = req.kind
        /\ req'.intent = req.intent /\ req'.prior = req.prior /\ req'.anchor = req.anchor
        /\ req'.exclude = req.exclude /\ req'.build = req.build
    BY <1>2 DEF Embed, Typed, Request
  <2>2. shown' = shown /\ active' = active /\ served' = served /\ req.pc = "embed"
    BY DEF Embed, servingVars
  <2>3. Typed'
    BY <2>1, <2>2 DEF Typed
  <2>4. LooksBack(req)'
    BY <2>1, <2>2 DEF LooksBack, Everyone
  <2>5. Excludes(req)' /\ Survived(req)'
    BY <2>1, <2>2 DEF Excludes, Survived, Understood, Searching
  <2> QED
    BY <2>3, <2>4, <2>5
<1> QED
  BY <1>1, <1>2

-----------------------------------------------------------------------------
(* The recall loops, the window and the cards.                             *)

\* What the request keeps while it searches.
Same(r, q) ==
  /\ q.kind = r.kind /\ q.intent = r.intent /\ q.build = r.build /\ q.anchor = r.anchor
  /\ q.prior = r.prior /\ q.exclude = r.exclude /\ q.review = r.review
  /\ q.city = r.city /\ q.org = r.org /\ q.relax = r.relax

LEMMA SameFits ==
  ASSUME NEW r, NEW q, Same(r, q), NEW p, NEW city, Fits(r, p, city)
  PROVE  Fits(q, p, city)
BY DEF Same, Fits

\* Of a step of the search only the survivors need an argument.
LEMMA SearchStep ==
  ASSUME RecommendationInv, UNCHANGED <<servingVars, shown>>,
         req.pc \in {"recall", "relax", "details", "rerank"},
         req' \in Request, Same(req, req'), Searching(req'),
         req'.pc # "done" => req'.out = "none", req'.pc # "none",
         Survived(req')
  PROVE  RecommendationInv'
<1> USE DEF RecommendationInv
<1>1. Typed'
  BY DEF Typed, servingVars
<1>2. LooksBack(req)'
  BY DEF LooksBack, Everyone, Same
<1>3. Searching(req)
  BY DEF Searching
<1>4. Excludes(req')
  BY <1>3 DEF Excludes, Understood, Searching, Same
<1> QED
  BY <1>1, <1>2, <1>4

\* final_filter, in the loop with the city and in the loop without.
LEMMA PassesFits ==
  ASSUME NEW p, Passes(p)
  PROVE  /\ req.pc = "recall" => Fits(req, p, req.city)
         /\ req.pc = "relax" => Fits(req, p, Unknown)
BY DEF Passes, Fits, Hydrated, City, Visible, OrgDegraded

LEMMA RecallLoop ==
  ASSUME RecommendationInv, req.pc \in {"recall", "relax"}, NEW hits \in SUBSET Hits, RecallStep(hits)
  PROVE  RecommendationInv'
<1> DEFINE survivors == {p \in hits : Passes(p)}
           strict == IF req.pc = "recall" THEN survivors ELSE req.strict
           extra == IF req.pc = "relax" THEN Extras(survivors) ELSE {}
<1>1. /\ req \in Request /\ req.out = "none" /\ req.build \in Builds
      /\ Survived(req)
  BY DEF RecommendationInv, Typed, Excludes
<1>2. survivors \in SUBSET Professors
  BY <1>1, RecommendationAssumption DEF Hits
<1>3. /\ req.pc = "recall" => strict = survivors /\ extra = {}
      /\ req.pc = "relax" => strict = req.strict /\ extra \subseteq survivors
  BY DEF Extras
<1>4. /\ req.pc = "recall" => \A p \in survivors : Fits(req, p, req.city)
      /\ req.pc = "relax" => \A p \in survivors : Fits(req, p, Unknown)
  BY PassesFits
<1>5. UNCHANGED <<servingVars, shown>>
  BY DEF RecallStep, servingVars
<1>6. \/ req' = [req EXCEPT !.step = @ + 1]
      \/ /\ req.pc = "recall" /\ req.relax /\ Cardinality(survivors) < Limit
         /\ req' = [req EXCEPT !.pc = "relax", !.step = 1, !.strict = strict]
      \/ Ends("empty")
      \/ req' = [req EXCEPT !.pc = "details", !.strict = strict, !.extra = extra]
  BY DEF RecallStep
<1> HIDE DEF survivors, strict, extra
<1>7. strict \in SUBSET Professors /\ extra \in SUBSET Professors
  BY <1>1, <1>2, <1>3 DEF Request
<1>8. \A p \in strict : Fits(req, p, req.city)
  BY <1>1, <1>3, <1>4 DEF Survived
<1>9. /\ \A p \in extra : Fits(req, p, Unknown)
      /\ extra # {} => req.relax /\ Cardinality(strict) < Limit
  BY <1>1, <1>3, <1>4 DEF Survived
<1>10. CASE req' = [req EXCEPT !.step = @ + 1]
  <2>1. /\ req' \in Request /\ Same(req, req') /\ req'.pc = req.pc /\ req'.out = "none"
        /\ req'.strict = req.strict
    BY <1>1, <1>10 DEF Request, Same
  <2>2. Survived(req')
    BY <1>1, <2>1, SameFits DEF Survived, Same
  <2> QED
    BY <1>5, <2>1, <2>2, SearchStep DEF Searching
<1>11. CASE /\ req.pc = "recall" /\ req.relax /\ Cardinality(survivors) < Limit
            /\ req' = [req EXCEPT !.pc = "relax", !.step = 1, !.strict = strict]
  <2>1. /\ req' \in Request /\ Same(req, req') /\ req'.pc = "relax" /\ req'.out = "none"
        /\ req'.strict = strict
    BY <1>1, <1>7, <1>11 DEF Request, Same
  <2>2. Survived(req')
    <3>1. \A p \in req'.strict : Fits(req', p, req'.city)
      BY <1>8, <2>1, SameFits DEF Same
    <3>2. req'.relax /\ Cardinality(req'.strict) < Limit
      BY <1>3, <1>11, <2>1 DEF Same
    <3> QED
      BY <2>1, <3>1, <3>2 DEF Survived
  <2> QED
    BY <1>5, <2>1, <2>2, SearchStep DEF Searching
<1>12. CASE Ends("empty")
  BY <1>5, <1>12, EndsStep
<1>13. CASE req' = [req EXCEPT !.pc = "details", !.strict = strict, !.extra = extra]
  <2>1. /\ req' \in Request /\ Same(req, req') /\ req'.pc = "details" /\ req'.out = "none"
        /\ req'.strict = strict /\ req'.extra = extra
    BY <1>1, <1>7, <1>13 DEF Request, Same
  <2>2. Survived(req')
    <3>1. /\ \A p \in req'.strict : Fits(req', p, req'.city)
          /\ \A p \in req'.extra : Fits(req', p, Unknown)
      BY <1>8, <1>9, <2>1, SameFits DEF Same
    <3>2. req'.extra # {} => req'.relax /\ Cardinality(req'.strict) < Limit
      BY <1>9, <2>1 DEF Same
    <3> QED
      BY <2>1, <3>1, <3>2 DEF Survived
  <2> QED
    BY <1>5, <2>1, <2>2, SearchStep DEF Searching
<1> QED
  BY <1>6, <1>10, <1>11, <1>12, <1>13

LEMMA DetailsStep ==
  ASSUME RecommendationInv, NEW w \in Windows, Details(w)
  PROVE  RecommendationInv'
<1>1. req \in Request /\ req.pc = "details" /\ req.out = "none" /\ Survived(req)
  BY DEF RecommendationInv, Typed, Details
<1>2. /\ req' \in Request /\ Same(req, req') /\ req'.pc = "rerank" /\ req'.out = "none"
      /\ req'.strict = req.strict \cap w /\ req'.extra = req.extra \cap w
  BY <1>1 DEF Details, Request, Same
<1>3. Survived(req')
  <2>1. /\ \A p \in req'.strict : Fits(req', p, req'.city)
        /\ \A p \in req'.extra : Fits(req', p, Unknown)
    BY <1>1, <1>2, SameFits DEF Survived, Same
  <2>2. ASSUME req'.extra # {}
        PROVE  req'.relax /\ Cardinality(req'.strict) < Limit
    <3>1. req.relax /\ Cardinality(req.strict) < Limit
      BY <1>1, <1>2, <2>2 DEF Survived
    <3>2. req.strict \in SUBSET Professors /\ req'.strict \in SUBSET req.strict
      BY <1>1, <1>2 DEF Request
    <3>3. /\ Cardinality(req.strict) \in Nat /\ Cardinality(req'.strict) \in Nat
          /\ Cardinality(req'.strict) <= Cardinality(req.strict)
      BY <3>2, PartIsFinite
    <3>4. Limit \in Nat
      BY RecommendationAssumption
    <3>5. Cardinality(req'.strict) < Limit
      BY <3>1, <3>3, <3>4
    <3> QED
      BY <1>2, <3>1, <3>5 DEF Same
  <2> QED
    BY <1>2, <2>1, <2>2 DEF Survived
<1>4. UNCHANGED <<servingVars, shown>>
  BY DEF Details, servingVars
<1> QED
  BY <1>1, <1>2, <1>3, <1>4, SearchStep DEF Searching

LEMMA RespondStep ==
  ASSUME RecommendationInv, NEW cards \in TopOf(req.strict \cup req.extra), Respond(cards)
  PROVE  RecommendationInv'
<1>1. req \in Request /\ req.pc = "rerank" /\ req.out = "none" /\ Survived(req)
  BY DEF RecommendationInv, Typed, Respond
<1>2. /\ cards \subseteq req.strict \cup req.extra
      /\ cards \cap req.extra # {} => req.strict \subseteq cards
  BY DEF TopOf
<1>3. cards \in SUBSET Professors
  BY <1>1, <1>2 DEF Request
<1>4. /\ req' \in Request /\ Same(req, req') /\ req'.pc = "done" /\ req'.out = "cards"
      /\ req'.strict = req.strict /\ req'.extra = req.extra /\ req'.cards = cards
  BY <1>1, <1>3 DEF Respond, Request, Same
<1>5. Survived(req')
  <2>1. /\ \A p \in req'.strict : Fits(req', p, req'.city)
        /\ \A p \in req'.extra : Fits(req', p, Unknown)
    BY <1>1, <1>4, SameFits DEF Survived, Same
  <2>2. req'.extra # {} => req'.relax /\ Cardinality(req'.strict) < Limit
    BY <1>1, <1>4 DEF Survived, Same
  <2> QED
    BY <1>2, <1>4, <2>1, <2>2 DEF Survived
<1>6. UNCHANGED <<servingVars, shown>>
  BY DEF Respond, servingVars
<1> QED
  BY <1>1, <1>4, <1>5, <1>6, SearchStep DEF Searching

LEMMA RecordStep ==
  ASSUME RecommendationInv, Record
  PROVE  RecommendationInv'
<1>1. NoRequest \in Request
  <2>1. Unknown \in Wanted /\ Unknown \in OrgUnits
    BY Zenon DEF Wanted, OrgUnits
  <2> QED
    BY <2>1 DEF NoRequest, Request, Intents
<1>2. req.cards \in SUBSET Professors
  BY DEF RecommendationInv, Typed, Request
<1>3. shown' \in Seq(SUBSET Professors)
  BY <1>2 DEF Record, RecommendationInv, Typed
<1>4. Typed'
  BY <1>1, <1>3 DEF Record, RecommendationInv, Typed, servingVars, NoRequest
<1> QED
  BY <1>4 DEF Record, RecommendationInv, LooksBack, Excludes, Survived, Understood, Searching, NoRequest

-----------------------------------------------------------------------------
LEMMA NextRecommendation == RecommendationInv /\ [Next]_vars => RecommendationInv'
<1> SUFFICES ASSUME RecommendationInv, [Next]_vars PROVE RecommendationInv'
  OBVIOUS
<1>1. CASE UNCHANGED <<req, shown>> /\ active' \in Builds /\ served' \in Builds \cup {NoBuild}
  BY <1>1 DEF RecommendationInv, Typed, LooksBack, Excludes, Survived, Understood, Searching,
              Fits, Everyone
<1>2. CASE UNCHANGED vars
  BY <1>1, <1>2 DEF vars, servingVars, RecommendationInv, Typed
<1>3. CASE \E b \in Builds : Release(b)
  BY <1>1, <1>3 DEF Release, RecommendationInv, Typed
<1>4. CASE \E b \in Builds \cup {NoBuild} : Refresh(b)
  BY <1>1, <1>4 DEF Refresh, RecommendationInv, Typed
<1>5. CASE RequestStep
  <2>1. CASE \E kind \in {"chat", "direct"}, anchor \in Professors \cup {NoOne}, city \in Wanted,
                org \in OrgUnits, review \in BOOLEAN, prior \in Prior \cup {{}} :
               /\ kind = "chat" => prior \in Prior
               /\ Ask(kind, anchor, city, org, review, prior)
    BY <2>1, AskStep
  <2>2. CASE Invalid \/ Refused
    BY <2>2, EndsStep DEF Invalid, Refused
  <2>3. CASE Pin
    BY <2>3, PinStep
  <2>4. CASE \E intent \in Intents : Classify(intent)
    BY <2>4, ClassifyStep
  <2>5. CASE \E out \in {"error", "clarify"} : NotClassified(out)
    BY <2>5, EndsStep DEF NotClassified
  <2>6. CASE \E answered \in BOOLEAN : Followup(answered)
    BY <2>6, FollowupStep
  <2>7. CASE \E preferred \in Wanted : Understand(preferred)
    BY <2>7, UnderstandStep
  <2>8. CASE Clarify
    BY <2>8, EndsStep DEF Clarify
  <2>9. CASE Anchor
    BY <2>9, AnchorStep
  <2>10. CASE Embed
    BY <2>10, EmbedStep
  <2>11. CASE req.pc \in {"recall", "relax"} /\ \E hits \in SUBSET Hits : RecallStep(hits)
    BY <2>11, RecallLoop
  <2>12. CASE \E w \in Windows : Details(w)
    BY <2>12, DetailsStep
  <2>13. CASE \E cards \in TopOf(req.strict \cup req.extra) : Respond(cards)
    BY <2>13, RespondStep
  <2>14. CASE PortFails \/ TimesOut
    BY <2>14, EndsStep DEF PortFails, TimesOut, OnFailure
  <2>15. CASE Record
    BY <2>15, RecordStep
  <2> QED
    BY <1>5, <2>1, <2>2, <2>3, <2>4, <2>5, <2>6, <2>7, <2>8, <2>9, <2>10, <2>11, <2>12, <2>13,
       <2>14, <2>15 DEF RequestStep
<1> QED
  BY <1>2, <1>3, <1>4, <1>5 DEF Next

\* The invariant holds in every state.
THEOREM RecommendationInvariance == Spec => []RecommendationInv
BY InitRecommendation, NextRecommendation, PTL DEF Spec

\* Every card passes the filters by the facts of the pinned build (final_filter), for any
\* catalog and payloads and whatever is promoted meanwhile.
THEOREM CardsPassFiltersAlways == Spec => []CardsPassFilters
<1>1. RecommendationInv => CardsPassFilters
  <2> SUFFICES ASSUME RecommendationInv, req.out = "cards", NEW p \in req.cards
               PROVE  /\ p \in DOMAIN Facts[req.build] /\ Visible(Facts[req.build][p])
                      /\ p # req.anchor \/ req.intent # "same_field"
                      /\ Matches(Facts[req.build][p].org, req.org) \/ OrgDegraded
                      /\ Matches(Facts[req.build][p].city, req.city) \/ (p \in req.extra /\ req.relax)
    BY DEF CardsPassFilters
  <2>1. Survived(req) /\ Excludes(req)
    BY DEF RecommendationInv
  <2>2. req.intent = "same_field" => req.anchor \in req.exclude
    BY <2>1 DEF Excludes, Searching
  <2>3. CASE p \in req.strict
    BY <2>1, <2>2, <2>3 DEF Survived, Fits, Visible, OrgDegraded
  <2>4. CASE p \in req.extra
    BY <2>1, <2>2, <2>4 DEF Survived, Fits, Visible, OrgDegraded
  <2> QED
    BY <2>1, <2>3, <2>4 DEF Survived
<1> QED
  BY <1>1, RecommendationInvariance, PTL

\* A relaxed card is shown only on a page the strict survivors did not fill, next to all of
\* them (_recommend_pinned), for any limit and window.
THEOREM RelaxedOnlyFillsAlways == Spec => []RelaxedOnlyFills
<1>1. RecommendationInv => RelaxedOnlyFills
  BY DEF RecommendationInv, Survived, RelaxedOnlyFills
<1> QED
  BY <1>1, RecommendationInvariance, PTL

\* "More mentors" repeats nobody while the session fits in the look-up
\* (_merge_stored_context), for any number of turns.
THEOREM MoreAreNewAlways == Spec => []MoreAreNew
<1>1. RecommendationInv => MoreAreNew
  <2> SUFFICES ASSUME RecommendationInv, req.out = "cards", req.intent = "more_mentors",
                      Cardinality(Everyone(Len(shown))) <= PriorCap
               PROVE  req.cards \cap Everyone(Len(shown)) = {}
    BY DEF MoreAreNew
  <2>1. /\ req.pc = "done" /\ req.kind = "chat" /\ req.prior \subseteq req.exclude
    BY DEF RecommendationInv, Typed, Excludes, Understood, Searching
  <2>2. Everyone(Len(shown)) \subseteq req.exclude
    BY <2>1 DEF RecommendationInv, LooksBack
  <2>3. \A p \in req.cards : p \notin req.exclude
    BY DEF RecommendationInv, Survived, Fits
  <2> QED
    BY <2>2, <2>3
<1> QED
  BY <1>1, RecommendationInvariance, PTL
=============================================================================
