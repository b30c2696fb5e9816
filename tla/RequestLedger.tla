---------------------------- MODULE RequestLedger ----------------------------
(***************************************************************************)
(* What the chat tables keep of a request id, whatever transactions        *)
(* interleave: the id is admitted once, gets at most one answer, and never *)
(* loses it while the owner's data exists.  Closing an id without an       *)
(* answer is a cancellation.                                               *)
(*                                                                         *)
(* LateAnswer is what the code does and its design forbids (07b, 7.2: a    *)
(* completion that finds a committed cancel discards its result): an       *)
(* answer whose transaction read the attempt before the cancellation       *)
(* committed is stored after it.  Conversations!TerminalStays states what  *)
(* the design asks for.                                                    *)
(***************************************************************************)
CONSTANT Ids

VARIABLE ledger

Init == ledger = [i \in Ids |-> "absent"]

Open(i) == ledger[i] = "absent" /\ ledger' = [ledger EXCEPT ![i] = "open"]

Close(i) == ledger[i] = "open" /\ ledger' = [ledger EXCEPT ![i] = "closed"]

Answer(i) == ledger[i] = "open" /\ ledger' = [ledger EXCEPT ![i] = "answered"]

LateAnswer(i) == ledger[i] = "closed" /\ ledger' = [ledger EXCEPT ![i] = "answered"]

\* The owner removes everything the service holds for them.
Erase == ledger' = [i \in Ids |-> "absent"]

Next == Erase \/ \E i \in Ids : Open(i) \/ Close(i) \/ Answer(i) \/ LateAnswer(i)

Spec == Init /\ [][Next]_ledger
==============================================================================
