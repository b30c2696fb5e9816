---------------------------- MODULE MCConversations ----------------------------
(***************************************************************************)
(* The conversations of an owner, and the grounded answers that are        *)
(* generated for them.  The model of the one shares no state with the      *)
(* model of the other: a behaviour is of one of them.                      *)
(***************************************************************************)
EXTENDS Conversations, GroundedAnswers, TLC

CONSTANTS b1, b2, p1, p2, r1, r2, r3, r4

VARIABLE service   \* the one that this behaviour is of

\* Requests and handlers are interchangeable.
Symmetry == Permutations(Keys) \cup Permutations(Handlers)

-----------------------------------------------------------------------------
\* Two builds that differ, two professors, two competitions.  The first build has
\* an item with a contact and one without a reference; in the second one professor
\* is under review.
It(refs, contact, size) == [refs |-> refs, contact |-> contact, size |-> size]

MCFacts == b1 :> (p1 :> <<It({r1}, FALSE, 1), It({r2}, TRUE, 1), It({}, FALSE, 1)>> @@
                  p2 :> <<It({r3}, FALSE, 2)>>) @@
           b2 :> (p1 :> <<It({r4}, FALSE, 1)>> @@ p2 :> <<It({r3}, TRUE, 1)>>)
MCRole == b1 :> (p1 :> "included" @@ p2 :> "included") @@
          b2 :> (p1 :> "included" @@ p2 :> "review")
MCCards == 1 :> <<It({r1}, FALSE, 1)>> @@ 2 :> <<It({r2}, FALSE, 1), It({}, FALSE, 1)>>
MCHits == {<<>>, <<It({r3}, FALSE, 1)>>}

-----------------------------------------------------------------------------
MCInit == service \in {"conversations", "answers"} /\ Init /\ GroundedInit

\* The conversations stop when their ids run out; an operation never stops for good,
\* because the served build may always change.
MCNext ==
    \/ service = "conversations" /\ Next /\ UNCHANGED <<groundedVars, service>>
    \/ service = "answers" /\ GroundedNext /\ UNCHANGED <<vars, service>>

MCSpec == MCInit /\ [][MCNext]_<<vars, groundedVars, service>>
=============================================================================
