---------------------------- MODULE Conversations ----------------------------
(***************************************************************************)
(* The chat part of the recommendation service: the rows of one owner      *)
(* (app_state/models.py), the transactions of AppStateRepository on them,  *)
(* and the HTTP handlers that run those transactions around a dispatch.    *)
(*                                                                         *)
(* PostgreSQL runs each transaction at its default isolation, READ         *)
(* COMMITTED, and the repository takes no row locks: what a transaction    *)
(* read may be old when it writes.  A transaction is therefore two steps,  *)
(* one that reads (and keeps what it saw in the handler's record) and one  *)
(* that writes and commits.  The ORM updates only the columns whose value  *)
(* differs from the one it loaded (Set).                                   *)
(*                                                                         *)
(* The Idempotency-Key of a request must equal its request_id, and         *)
(* (owner, request_id) is unique over attempts, so a key names the attempt *)
(* it created, and the turn, if it created one.                            *)
(***************************************************************************)
EXTENDS Naturals, Sequences, FiniteSetsExt

CONSTANTS
  Keys,        \* request ids
  Sessions,    \* session ids the service may hand out
  Root,        \* the session that exists at the start
  Handlers,    \* requests served at the same time
  SourceTurns, \* what clients name as the turn to fork from
  None

ASSUME KeysAssumption == IsFiniteSet(Keys) /\ None \notin Keys \cup Sessions
ASSUME RootAssumption == Root \in Sessions

VARIABLES
  owner,    \* "active", or "revoked" once remote data was deleted
  sess,     \* conversation_sessions
  turn,     \* conversation_turns
  att,      \* conversation_attempts
  answers,  \* assistant rows of conversation_messages, by attempt
  idem,     \* idempotency_records
  h         \* the request each handler is serving

vars == <<owner, sess, turn, att, answers, idem, h>>
db == <<owner, sess, turn, att, answers, idem>>

Terminal == {"completed", "failed", "interrupted"}
Outcomes == {"completed", "failed"}

NoSession == [st |-> "none", rev |-> 0, src |-> None, root |-> None, titled |-> FALSE]
NoTurn == [st |-> "none", sess |-> None, ord |-> 0, active |-> None]
NoAttempt == [st |-> "none", turn |-> None, cancel |-> FALSE]
NoRecord == [st |-> "none", scope |-> None]
NoView == [att |-> NoAttempt, turn |-> NoTurn, rev |-> 0]
Idle == [pc |-> "idle", op |-> "none", key |-> None, target |-> None,
         saw |-> NoView, out |-> "none"]

\* The value a flushed column has: the ORM writes it only if it changed it.
Set(current, loaded, new) == IF new = loaded THEN current ELSE new

Done(p) == h' = [h EXCEPT ![p] = Idle]
\* The request goes on at pc; only the attempt it serves matters from here.
Goto(p, pc) == h' = [h EXCEPT ![p] = [Idle EXCEPT !.pc = pc, !.key = h[p].key]]

\* Pcs in which the dispatch task of a handler is running.
InTask == {"dispatch", "complete", "commit", "title"}

\* Session ids are never handed out again, so an erased one is not "none".
Exists(s) == sess[s].st \in {"live", "deleted"}

TurnsOf(s) == {t \in Keys : turn[t].st # "none" /\ turn[t].sess = s}

(***************************************************************************)
(* Admission.  A request starts with the read of its first transaction; one *)
(* that is refused there (unknown or revoked identity, missing row, stale  *)
(* revision, known key) changes nothing and is left out.  An owner erased   *)
(* after authentication has no rows left to find.                           *)
(***************************************************************************)

\* _check_idempotency finds the key's record only in the scope of this request:
\* it is running (409), has another body (409), or its stored result is replayed.
Recorded(k, scope) == idem[k].st # "none" /\ idem[k].scope = scope

\* An authenticated request reaches an idle handler.
Begin(p, req) ==
  /\ owner = "active"
  /\ h[p].pc = "idle"
  /\ h' = [h EXCEPT ![p] = req]

\* admit_turn up to its first write; the client states the session's revision.
AdmitRead(p, k, s) ==
  /\ ~Recorded(k, <<"turn", s>>)
  /\ sess[s].st = "live"
  /\ Begin(p, [Idle EXCEPT !.pc = "insert", !.op = "turn", !.key = k, !.target = s,
                           !.saw.rev = sess[s].rev])
  /\ UNCHANGED db

\* create_retry_attempt does not look at deleted_at, and refuses only a
\* completed turn: one whose first attempt is still running may be retried.
RetryRead(p, k, t) ==
  /\ ~Recorded(k, <<"retry", t>>)
  /\ turn[t].st \notin {"none", "completed"}
  /\ Begin(p, [Idle EXCEPT !.pc = "insert", !.op = "retry", !.key = k, !.target = t,
                           !.saw.turn = turn[t]])
  /\ UNCHANGED db

\* Mutant: without the unique constraint on (owner_id, request_id).
TakenNever(k) == FALSE

\* uq_attempt_request: the key already has an attempt.
Taken(k) == att[k].st # "none"

NextOrdinal(s) ==
  IF TurnsOf(s) = {} THEN 0 ELSE 1 + Max({turn[t].ord : t \in TurnsOf(s)})

\* Mutant: the ordinal is the revision the request was admitted at.
TurnOrdinalRevision(p) == h[p].saw.rev

TurnOrdinal(p) == NextOrdinal(h[p].target)

\* A unique or foreign key that no longer holds rolls the admission back (500).
AdmitCommit(p) ==
  /\ h[p].pc = "insert" /\ h[p].op = "turn"
  /\ LET k == h[p].key
         s == h[p].target
     IN IF Taken(k) \/ ~Exists(s)
        THEN Done(p) /\ UNCHANGED db
        ELSE /\ turn' = [turn EXCEPT ![k] = [st |-> "queued", sess |-> s,
                                              ord |-> TurnOrdinal(p), active |-> k]]
             /\ att' = [att EXCEPT ![k] = [NoAttempt EXCEPT !.st = "queued", !.turn = k]]
             /\ idem' = [idem EXCEPT ![k] = [st |-> "running", scope |-> <<"turn", s>>]]
             /\ sess' = [sess EXCEPT ![s].rev = h[p].saw.rev + 1]
             /\ Goto(p, "ack")
             /\ UNCHANGED <<owner, answers>>

RetryCommit(p) ==
  /\ h[p].pc = "insert" /\ h[p].op = "retry"
  /\ LET k == h[p].key
         t == h[p].target
     IN IF Taken(k) \/ turn[t].st = "none"
        THEN Done(p) /\ UNCHANGED db
        ELSE /\ turn' = [turn EXCEPT ![t].active = k,
                                     ![t].st = Set(@, h[p].saw.turn.st, "queued")]
             /\ att' = [att EXCEPT ![k] = [NoAttempt EXCEPT !.st = "queued", !.turn = t]]
             /\ idem' = [idem EXCEPT ![k] = [st |-> "running", scope |-> <<"retry", t>>]]
             /\ Goto(p, "ack")
             /\ UNCHANGED <<owner, sess, answers>>

\* The transaction rolls back: a concurrent admission took the ordinal
\* (uq_turn_ordinal), or the connection was lost.
AdmitFails(p) ==
  /\ h[p].pc = "insert"
  /\ Done(p)
  /\ UNCHANGED db

(***************************************************************************)
(* The stream of an admitted attempt                                       *)
(***************************************************************************)

\* The ack is written outside the try block: if the client has gone, the
\* request ends and the attempt stays queued.
Ack(p) ==
  /\ h[p].pc = "ack"
  /\ Goto(p, "dispatch") \/ Done(p)
  /\ UNCHANGED db

\* The dispatch answers, reports a failure, or raises; an exception is sent to
\* the client as an error event and touches no row.
Dispatch(p) ==
  /\ h[p].pc = "dispatch"
  /\ \/ Done(p)
     \/ \E o \in Outcomes : h' = [h EXCEPT ![p].pc = "complete", ![p].out = o]
  /\ UNCHANGED db

\* The attempt and turn rows a transaction loads for attempt k.
View(k) == [att |-> att[k], turn |-> turn[att[k].turn], rev |-> 0]

CompleteRead(p) ==
  /\ h[p].pc = "complete"
  /\ LET k == h[p].key IN
     IF att[k].st = "none" THEN Done(p)
     ELSE h' = [h EXCEPT ![p].pc = "commit", ![p].saw = View(k)]
  /\ UNCHANGED db

FinishIdempotency(k) == idem' = [idem EXCEPT ![k].st = "completed"]

\* What complete_attempt makes of the attempt it loaded: nothing if it had
\* ended, an interruption if a cancel was requested, else the outcome.
Verdict(saw, out) ==
  IF saw.att.st \in Terminal THEN saw.att.st
  ELSE IF saw.att.cancel THEN "interrupted" ELSE out

CompleteCommit(p) ==
  /\ h[p].pc = "commit"
  /\ LET k == h[p].key
         saw == h[p].saw
         t == saw.att.turn
         v == Verdict(saw, h[p].out)
         ended == saw.att.st \in Terminal
     IN IF att[k].st = "none"
        THEN Done(p) /\ UNCHANGED db
        ELSE /\ FinishIdempotency(k)
             /\ att' = [att EXCEPT ![k].st = Set(@, saw.att.st, v)]
             /\ turn' = IF ended THEN turn
                        ELSE [turn EXCEPT ![t].st = Set(@, saw.turn.st, v),
                                          ![t].active = Set(@, saw.turn.active, None)]
             /\ answers' = IF ended \/ saw.att.cancel THEN answers
                           ELSE [answers EXCEPT ![k] = Append(@, v)]
             /\ h' = [h EXCEPT ![p].pc = "title", ![p].saw = [NoView EXCEPT !.att.turn = t]]
             /\ UNCHANGED <<owner, sess>>

\* Only the first turn of a session that is still there gives it a title.
set_initial_session_title(s, t) ==
  sess' = IF turn[t].st # "none" /\ turn[t].ord = 0 /\ sess[s].st = "live"
          THEN [sess EXCEPT ![s].titled = TRUE]
          ELSE sess

\* The session is read again (404 if it was deleted meanwhile) and a turn that
\* completed may give it a title; then the events are written, whether or not
\* the client is still there.
Title(p) ==
  /\ h[p].pc = "title"
  /\ LET t == h[p].saw.att.turn IN
     IF h[p].out = "completed" THEN set_initial_session_title(turn[t].sess, t)
     ELSE UNCHANGED sess
  /\ Done(p)
  /\ UNCHANGED <<owner, turn, att, answers, idem>>

\* The client is found gone at a heartbeat, or the server cancels the handler:
\* the task is cancelled, its open transaction rolls back.
Interrupted(p) ==
  /\ h[p].pc \in InTask
  /\ Goto(p, "mark")
  /\ UNCHANGED db

(***************************************************************************)
(* Cancellation                                                            *)
(***************************************************************************)

\* cancel_attempt for a cancel request...
CancelRequest(p, k) ==
  /\ att[k].st # "none"
  /\ Begin(p, [Idle EXCEPT !.pc = "markcommit", !.op = "cancel", !.key = k, !.saw = View(k)])
  /\ UNCHANGED db

\* ... and for an interrupted stream.
CancelRead(p) ==
  /\ h[p].pc = "mark"
  /\ LET k == h[p].key IN
     IF att[k].st = "none" THEN Done(p)
     ELSE h' = [h EXCEPT ![p].pc = "markcommit", ![p].saw = View(k)]
  /\ UNCHANGED db

\* cancel_attempt interrupts an attempt it did not find ended.
Cancelled(current, saw) == IF saw.att.st \in Terminal THEN current ELSE "interrupted"

\* Mutant: a cancelled attempt keeps its idempotency record running.
CancelCommitRecord(p) ==
  /\ h[p].pc = "markcommit"
  /\ LET k == h[p].key
         saw == h[p].saw
     IN IF att[k].st = "none"
        THEN Done(p) /\ UNCHANGED db
        ELSE /\ att' = [att EXCEPT ![k].st = Cancelled(@, saw),
                                   ![k].cancel = TRUE]
             /\ IF h[p].op = "cancel" THEN Goto(p, "signal") ELSE Done(p)
             /\ UNCHANGED <<owner, sess, turn, answers, idem>>

CancelCommit(p) ==
  /\ h[p].pc = "markcommit"
  /\ LET k == h[p].key
         saw == h[p].saw
         t == saw.att.turn
     IN IF att[k].st = "none"
        THEN Done(p) /\ UNCHANGED db
        ELSE /\ att' = [att EXCEPT ![k].st = Cancelled(@, saw),
                                   ![k].cancel = TRUE]
             /\ turn' = IF saw.turn.st \in Terminal THEN turn
                        ELSE [turn EXCEPT ![t].st = "interrupted",
                                          ![t].active = Set(@, saw.turn.active, None)]
             /\ FinishIdempotency(k)
             /\ IF h[p].op = "cancel" THEN Goto(p, "signal") ELSE Done(p)
             /\ UNCHANGED <<owner, sess, answers>>

\* AttemptRegistry.cancel: the task of the attempt, if one runs, is cancelled;
\* its stream marks the attempt too and sends the interrupted result.
Signal(p) ==
  /\ h[p].pc = "signal"
  /\ h' = [q \in Handlers |->
             IF q = p THEN Idle
             ELSE IF h[q].pc \in InTask /\ h[q].key = h[p].key
                  THEN [Idle EXCEPT !.pc = "mark", !.key = h[q].key]
                  ELSE h[q]]
  /\ UNCHANGED db

(***************************************************************************)
(* Sessions and the owner's data                                           *)
(***************************************************************************)

\* soft_delete_session_tree
DeleteTree(s) ==
  /\ owner = "active"
  /\ sess[s].st = "live"
  /\ sess' = [x \in Sessions |->
                IF Exists(x) /\ sess[x].root = sess[s].root
                THEN [sess[x] EXCEPT !.st = "deleted", !.rev = @ + 1]
                ELSE sess[x]]
  /\ UNCHANGED <<owner, turn, att, answers, idem, h>>

\* create_fork looks for a live fork of the same source, which it would return, and
\* create_session for the source session.  The named turn is not looked at: it may be
\* unfinished, of another session, or not exist.
ForkRead(p, s, t) ==
  /\ sess[s].st = "live"
  /\ \A x \in Sessions : ~(sess[x].st = "live" /\ sess[x].src = <<s, t>>)
  /\ Begin(p, [Idle EXCEPT !.pc = "forkinsert", !.op = "fork",
                           !.target = [src |-> <<s, t>>, root |-> sess[s].root]])
  /\ UNCHANGED db

\* The insertion is a transaction of its own, and no constraint is on it.
ForkCommit(p) ==
  /\ h[p].pc = "forkinsert"
  /\ \E x \in Sessions :
       /\ sess[x].st = "none"
       /\ sess' = [sess EXCEPT ![x] = [NoSession EXCEPT !.st = "live", !.src = h[p].target.src,
                                                        !.root = h[p].target.root]]
  /\ Done(p)
  /\ UNCHANGED <<owner, turn, att, answers, idem>>

\* No session id is left in the instance: the fork is not created.
ForkFull(p) ==
  /\ h[p].pc = "forkinsert"
  /\ \A s \in Sessions : sess[s].st # "none"
  /\ Done(p)
  /\ UNCHANGED db

\* delete_remote_data: one transaction removes every row and revokes the
\* identity; requests already past authentication go on.
EraseOwner ==
  /\ owner = "active"
  /\ owner' = "revoked"
  /\ sess' = [s \in Sessions |->
                IF sess[s].st = "none" THEN NoSession ELSE [NoSession EXCEPT !.st = "erased"]]
  /\ turn' = [k \in Keys |-> NoTurn]
  /\ att' = [k \in Keys |-> NoAttempt]
  /\ answers' = [k \in Keys |-> <<>>]
  /\ idem' = [k \in Keys |-> NoRecord]
  /\ UNCHANGED h

\* The server process dies: every request in flight is gone, no row changes.
Crash ==
  /\ \E p \in Handlers : h[p].pc # "idle"
  /\ h' = [p \in Handlers |-> Idle]
  /\ UNCHANGED db

(***************************************************************************)
(* Specification                                                           *)
(***************************************************************************)

Init ==
  /\ owner = "active"
  /\ sess = [s \in Sessions |->
               IF s = Root THEN [NoSession EXCEPT !.st = "live", !.root = Root] ELSE NoSession]
  /\ turn = [k \in Keys |-> NoTurn]
  /\ att = [k \in Keys |-> NoAttempt]
  /\ answers = [k \in Keys |-> <<>>]
  /\ idem = [k \in Keys |-> NoRecord]
  /\ h = [p \in Handlers |-> Idle]

\* A step of the server for the request it is serving.
Serve(p) ==
  \/ AdmitCommit(p) \/ RetryCommit(p) \/ AdmitFails(p)
  \/ Ack(p) \/ Dispatch(p) \/ CompleteRead(p) \/ CompleteCommit(p) \/ Title(p)
  \/ CancelRead(p) \/ CancelCommit(p) \/ Signal(p)
  \/ ForkCommit(p) \/ ForkFull(p)

Request(p) ==
  \/ \E k \in Keys :
       \/ \E s \in Sessions : AdmitRead(p, k, s)
       \/ \E t \in Keys : RetryRead(p, k, t)
       \/ CancelRequest(p, k)
  \/ \E s \in Sessions, t \in SourceTurns : ForkRead(p, s, t)

Next ==
  \/ \E p \in Handlers : Request(p) \/ Serve(p) \/ Interrupted(p)
  \/ \E s \in Sessions : DeleteTree(s)
  \/ EraseOwner
  \/ Crash

Spec == Init /\ [][Next]_vars

(***************************************************************************)
(* Properties                                                              *)
(***************************************************************************)

\* Whatever order admissions, completions, cancellations, retries and crashes
\* commit in, a request's idempotency record is running exactly while its
\* attempt has not ended: a replay never returns an unfinished attempt, and an
\* ended one is never refused as "request in progress".
RecordFollowsAttempt ==
  \A k \in Keys : /\ idem[k].st = "running" <=> att[k].st = "queued"
                  /\ idem[k].st = "completed" <=> att[k].st \in Terminal

\* The turns of a session are numbered 0, 1, 2, ... without a gap or a repeat,
\* and each belongs to a session that exists (no turn outlives an erased owner).
TurnsDense ==
  \A s \in Sessions :
    /\ {turn[t].ord : t \in TurnsOf(s)} = 0 .. Cardinality(TurnsOf(s)) - 1
    /\ TurnsOf(s) # {} => Exists(s)

\* What the tables say of a request id.
LedgerState(k) ==
  IF att[k].st = "none" THEN "absent"
  ELSE IF Len(answers[k]) = 1 THEN "answered"
  ELSE IF Len(answers[k]) > 1 THEN "answered twice"
  ELSE IF idem[k].st = "completed" THEN "closed" ELSE "open"

LedgerTable == [k \in Keys |-> LedgerState(k)]

Ledger == INSTANCE RequestLedger WITH Ids <- Keys, ledger <- LedgerTable

\* The conversation tables implement RequestLedger: an id is admitted once, answered at
\* most once and keeps its answer, through duplicates, races and crashes.  The ledger lets
\* an answer follow a cancellation, as the code does; see TerminalStays.
ImplementsLedger == Ledger!Spec

\* An attempt that has ended stays as it ended until the owner's data is deleted: the
\* design's "终态不可回退" (07b, 6.2), and a completion that finds the cancel committed
\* leaves the attempt interrupted (7.2).  complete_attempt and cancel_attempt write what
\* they decided from rows read before, without the compare-and-set the design asks for.
TerminalStays ==
  [][\A k \in Keys : att[k].st \in Terminal => att'[k].st \in {att[k].st, "none"}]_vars
==============================================================================
