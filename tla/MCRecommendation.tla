-------------------------- MODULE MCRecommendation --------------------------
\* Two builds.  Between them a professor moves to another city, one changes
\* from review to included and one disappears; the index of the second build
\* still has stale payloads.
EXTENDS Recommendation

CONSTANTS b1, b2, p1, p2, p3, A, B, U

Row(role, city, org) == [role |-> role, city |-> city, org |-> org, topics |-> TRUE]

MCFacts ==
  [b \in Builds |->
    IF b = b1
    THEN [p \in {p1, p2, p3} |-> IF p = p1 THEN Row("included", A, U)
                                 ELSE IF p = p2 THEN Row("review", A, Unknown)
                                 ELSE Row("included", B, U)]
    ELSE [p \in {p1, p2} |-> IF p = p1 THEN Row("included", B, Unknown)
                             ELSE Row("included", A, U)]]

MCPayload == [b \in Builds |-> [p \in {p1, p2, p3} |->
                [city |-> IF p = p3 THEN B ELSE A, org |-> IF p = p2 THEN Unknown ELSE U]]]
MCSteps == <<1, 3>>
=============================================================================
