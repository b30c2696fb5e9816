---------------------------- MODULE MCCancellation ----------------------------
\* One request of one session, and a cancellation beside it.  The two handlers
\* are interchangeable.
EXTENDS Conversations, TLC

Symmetry == Permutations(Handlers)
==============================================================================
