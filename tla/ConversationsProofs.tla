------------------------- MODULE ConversationsProofs -------------------------
(***************************************************************************)
(* RecordFollowsAttempt, and that the conversation tables implement        *)
(* RequestLedger, for any number of requests, sessions and handlers.       *)
(*                                                                         *)
(* Neither is inductive: a transaction writes what it decided from rows it *)
(* read earlier.  The invariant says how far such a view can be out of     *)
(* date (Means), that one handler streams an attempt (OneStream), and that *)
(* nothing is admitted once the owner is erased (Erased).                  *)
(*                                                                         *)
(* At the end, AnswersGrounded and GroundedIsSupported of the generation   *)
(* the conversations ask for, with what an operation in progress must know *)
(* of its bundle (GroundedInv).                                            *)
(***************************************************************************)
EXTENDS Conversations, GroundedAnswers, FiniteSetTheorems, SequenceTheorems,
        WellFoundedInduction, TLAPS

Pcs == {"idle", "insert", "ack", "dispatch", "complete", "commit", "title", "mark",
        "markcommit", "signal", "forkinsert"}

\* The pcs before the answer of an admitted attempt is written.
Stream == {"ack", "dispatch", "complete", "commit"}

Scopes == {None} \cup ({"turn"} \X Sessions) \cup ({"retry"} \X Keys)
Attempt == [st : {"none", "queued"} \cup Terminal, turn : Keys \cup {None}, cancel : BOOLEAN]

TablesShape ==
  /\ owner \in {"active", "revoked"}
  /\ att \in [Keys -> Attempt]
  /\ idem \in [Keys -> [st : {"none", "running", "completed"}, scope : Scopes]]
  /\ answers \in [Keys -> Seq(Outcomes)]
  /\ sess = [s \in Sessions |-> sess[s]]
  /\ \A s \in Sessions :
       sess[s] \in [st : {"none", "live", "deleted", "erased"}, rev : {sess[s].rev},
                    src : {sess[s].src}, root : {sess[s].root}, titled : BOOLEAN]

\* A record of a handler; what it saw and is aimed at is said by Means.
IsRequest(r) ==
  r \in [pc : Pcs, op : {"none", "turn", "retry", "cancel", "fork"}, key : Keys \cup {None},
         target : {r.target}, saw : {r.saw}, out : {"none"} \cup Outcomes]

HandlersShape ==
  /\ h = [p \in Handlers |-> h[p]]
  /\ \A p \in Handlers : IsRequest(h[p])

\* What a handler has read still means for the tables.
Admits(r) ==
  /\ r.pc = "insert" => r.op \in {"turn", "retry"}
  /\ r.pc = "insert" /\ r.op = "turn" =>
       /\ r.target \in Sessions
       /\ sess[r.target].st # "none"
       /\ owner = "revoked" => sess[r.target].st = "erased"
  /\ r.pc = "insert" /\ r.op = "retry" => r.target \in Keys

Streams(r) ==
  /\ r.pc \in Stream =>
       /\ answers[r.key] = <<>>
       /\ att[r.key].st = "none" => owner = "revoked"
  /\ r.pc \in {"complete", "commit"} => r.out \in Outcomes

Sees(r) ==
  r.pc \in {"commit", "markcommit"} =>
    /\ r.saw.att.st \in {"queued"} \cup Terminal
    /\ r.saw.att.st \in Terminal => att[r.key].st \in {"none"} \cup Terminal
    /\ att[r.key].st = "none" => owner = "revoked"

Means(r) ==
  /\ r.pc \notin {"idle", "forkinsert"} => r.key \in Keys
  /\ Admits(r) /\ Streams(r) /\ Sees(r)

HandlersMean == \A p \in Handlers : Means(h[p])

OneStream ==
  \A p, q \in Handlers :
    h[p].pc \in Stream /\ h[q].pc \in Stream /\ h[p].key = h[q].key => p = q

Erased == owner = "revoked" => \A k \in Keys : att[k].st = "none" /\ turn[k].st = "none"

AnsweredOnce ==
  \A k \in Keys : Len(answers[k]) <= 1 /\ (att[k].st = "none" => answers[k] = <<>>)

LedgerInv ==
  /\ TablesShape /\ HandlersShape /\ HandlersMean /\ OneStream /\ Erased
  /\ AnsweredOnce /\ RecordFollowsAttempt

-----------------------------------------------------------------------------
LEMMA InitLedger == Init => LedgerInv
<1> SUFFICES ASSUME Init PROVE LedgerInv
  OBVIOUS
<1> USE DEF Init
<1>1. TablesShape
  <2>1. NoAttempt \in Attempt
    BY DEF Attempt, NoAttempt
  <2>2. NoRecord \in [st : {"none", "running", "completed"}, scope : Scopes]
    BY DEF NoRecord, Scopes
  <2>3. sess = [s \in Sessions |-> sess[s]]
    OBVIOUS
  <2>4. \A s \in Sessions :
          sess[s] \in [st : {"none", "live", "deleted", "erased"}, rev : {sess[s].rev},
                       src : {sess[s].src}, root : {sess[s].root}, titled : BOOLEAN]
    BY DEF NoSession
  <2>5. answers \in [Keys -> Seq(Outcomes)]
    OBVIOUS
  <2> QED
    BY <2>1, <2>2, <2>3, <2>4, <2>5 DEF TablesShape
<1>2. HandlersShape
  BY DEF HandlersShape, IsRequest, Idle, Pcs, Outcomes
<1>3. HandlersMean /\ OneStream
  BY DEF HandlersMean, OneStream, Means, Admits, Streams, Sees, Stream, Idle
<1>4. Erased /\ AnsweredOnce /\ RecordFollowsAttempt
  BY DEF Erased, AnsweredOnce, RecordFollowsAttempt, NoAttempt, NoRecord, Terminal
<1> QED
  BY <1>1, <1>2, <1>3, <1>4 DEF LedgerInv

\* A step of handler p that writes no table.
LEMMA LocalStep ==
  ASSUME LedgerInv, NEW p \in Handlers, NEW r, UNCHANGED db, h' = [h EXCEPT ![p] = r],
         IsRequest(r), Means(r),
         r.pc \in Stream => h[p].pc \in Stream /\ r.key = h[p].key
  PROVE  LedgerInv'
<1> USE DEF db
<1>1. TablesShape' /\ Erased' /\ AnsweredOnce' /\ RecordFollowsAttempt'
  BY DEF LedgerInv, TablesShape, Erased, AnsweredOnce, RecordFollowsAttempt
<1>2. h'[p] = r /\ \A q \in Handlers \ {p} : h'[q] = h[q]
  BY DEF LedgerInv, HandlersShape
<1>3. HandlersShape'
  <2>1. h' = [q \in Handlers |-> h'[q]]
    BY DEF LedgerInv, HandlersShape
  <2>2. \A q \in Handlers : IsRequest(h'[q])
    BY <1>2 DEF LedgerInv, HandlersShape
  <2> QED
    BY <2>1, <2>2 DEF HandlersShape, IsRequest
<1>4. HandlersMean'
  <2>1. \A q \in Handlers : Means(h'[q])
    BY <1>2 DEF LedgerInv, HandlersMean
  <2> QED
    BY <2>1 DEF HandlersMean, Means, Admits, Streams, Sees
<1>5. OneStream'
  BY <1>2 DEF LedgerInv, OneStream
<1> QED
  BY <1>1, <1>3, <1>4, <1>5 DEF LedgerInv

\* A handler goes back to rest, or on to a later point with the same key.
LEMMA DoneStep ==
  ASSUME LedgerInv, NEW p \in Handlers, UNCHANGED db, Done(p)
  PROVE  LedgerInv'
<1>1. IsRequest(Idle) /\ Means(Idle) /\ Idle.pc \notin Stream
  BY DEF IsRequest, Idle, Pcs, Outcomes, Means, Admits, Streams, Sees, Stream
<1> QED
  BY <1>1, LocalStep DEF Done

LEMMA GotoStep ==
  ASSUME LedgerInv, NEW p \in Handlers, NEW pc \in {"dispatch", "mark", "signal"},
         UNCHANGED db, Goto(p, pc), h[p].pc \notin {"idle", "forkinsert"}, pc = "dispatch" => h[p].pc = "ack"
  PROVE  LedgerInv'
<1> DEFINE r == [Idle EXCEPT !.pc = pc, !.key = h[p].key]
<1>1. r.pc = pc /\ r.key = h[p].key /\ r.out = "none"
  BY DEF Idle
<1>2. h[p].key \in Keys
  BY DEF LedgerInv, HandlersMean, Means
<1>3. IsRequest(r)
  BY <1>2 DEF IsRequest, Idle, Pcs, Outcomes
<1>4. r.pc \in Stream => h[p].pc \in Stream
  BY <1>1 DEF Stream
<1>5. Means(r)
  BY <1>1, <1>2 DEF LedgerInv, HandlersMean, Means, Admits, Streams, Sees, Stream
<1> HIDE DEF r
<1> QED
  BY <1>1, <1>3, <1>4, <1>5, LocalStep DEF Goto, r

\* The reads of a new request.
LEMMA RequestStep ==
  ASSUME LedgerInv, NEW p \in Handlers, Request(p)
  PROVE  LedgerInv'
<1>1. \/ \E k \in Keys :
            \/ \E s \in Sessions : AdmitRead(p, k, s)
            \/ \E t \in Keys : RetryRead(p, k, t)
            \/ CancelRequest(p, k)
      \/ \E s \in Sessions, t \in SourceTurns : ForkRead(p, s, t)
  BY DEF Request
<1>2. ASSUME NEW k \in Keys, NEW s \in Sessions, AdmitRead(p, k, s) PROVE LedgerInv'
  <2> DEFINE r == [Idle EXCEPT !.pc = "insert", !.op = "turn", !.key = k, !.target = s,
                               !.saw.rev = sess[s].rev]
  <2>1. r.pc = "insert" /\ r.op = "turn" /\ r.key = k /\ r.target = s
    BY DEF Idle
  <2>2. IsRequest(r)
    BY DEF IsRequest, Idle, Pcs, Outcomes
  <2>3. Means(r)
    BY <1>2, <2>1 DEF Means, Admits, Streams, Sees, Stream, AdmitRead, Begin
  <2>4. UNCHANGED db /\ h' = [h EXCEPT ![p] = r]
    BY <1>2 DEF AdmitRead, Begin
  <2> HIDE DEF r
  <2> QED
    BY <2>1, <2>2, <2>3, <2>4, LocalStep DEF Stream
<1>3. ASSUME NEW k \in Keys, NEW t \in Keys, RetryRead(p, k, t) PROVE LedgerInv'
  <2> DEFINE r == [Idle EXCEPT !.pc = "insert", !.op = "retry", !.key = k, !.target = t,
                               !.saw.turn = turn[t]]
  <2>1. r.pc = "insert" /\ r.op = "retry" /\ r.key = k /\ r.target = t
    BY DEF Idle
  <2>2. IsRequest(r)
    BY DEF IsRequest, Idle, Pcs, Outcomes
  <2>3. Means(r)
    BY <2>1 DEF Means, Admits, Streams, Sees, Stream
  <2>4. UNCHANGED db /\ h' = [h EXCEPT ![p] = r]
    BY <1>3 DEF RetryRead, Begin
  <2> HIDE DEF r
  <2> QED
    BY <2>1, <2>2, <2>3, <2>4, LocalStep DEF Stream
<1>4. ASSUME NEW k \in Keys, CancelRequest(p, k) PROVE LedgerInv'
  <2> DEFINE r == [Idle EXCEPT !.pc = "markcommit", !.op = "cancel", !.key = k, !.saw = View(k)]
  <2>1. r.pc = "markcommit" /\ r.key = k /\ r.saw.att = att[k]
    BY DEF Idle, View
  <2>2. IsRequest(r)
    BY DEF IsRequest, Idle, Pcs, Outcomes
  <2>3. Means(r)
    BY <1>4, <2>1 DEF LedgerInv, TablesShape, Attempt, Means, Admits, Streams, Sees, Stream,
                     CancelRequest
  <2>4. UNCHANGED db /\ h' = [h EXCEPT ![p] = r]
    BY <1>4 DEF CancelRequest, Begin
  <2> HIDE DEF r
  <2> QED
    BY <2>1, <2>2, <2>3, <2>4, LocalStep DEF Stream
<1>5. ASSUME NEW s \in Sessions, NEW t \in SourceTurns, ForkRead(p, s, t) PROVE LedgerInv'
  <2> DEFINE r == [Idle EXCEPT !.pc = "forkinsert", !.op = "fork",
                               !.target = [src |-> <<s, t>>, root |-> sess[s].root]]
  <2>1. r.pc = "forkinsert"
    BY DEF Idle
  <2>2. IsRequest(r)
    BY DEF IsRequest, Idle, Pcs, Outcomes
  <2>3. Means(r)
    BY <2>1 DEF Means, Admits, Streams, Sees, Stream
  <2>4. UNCHANGED db /\ h' = [h EXCEPT ![p] = r]
    BY <1>5 DEF ForkRead, Begin
  <2> HIDE DEF r
  <2> QED
    BY <2>1, <2>2, <2>3, <2>4, LocalStep DEF Stream
<1> QED
  BY <1>1, <1>2, <1>3, <1>4, <1>5

\* The steps of a handler between its transactions.
LEMMA BetweenStep ==
  ASSUME LedgerInv, NEW p \in Handlers,
         \/ AdmitFails(p) \/ Ack(p) \/ Dispatch(p) \/ CompleteRead(p) \/ CancelRead(p)
         \/ ForkFull(p) \/ Interrupted(p)
  PROVE  LedgerInv'
<1>0. h[p].pc \notin {"idle", "forkinsert"} => h[p].key \in Keys
  BY DEF LedgerInv, HandlersMean, Means
<1>1. IsRequest(h[p]) /\ Means(h[p])
  BY DEF LedgerInv, HandlersShape, HandlersMean
<1>2. CASE AdmitFails(p) \/ ForkFull(p)
  BY <1>2, DoneStep DEF AdmitFails, ForkFull
<1>3. CASE Ack(p)
  BY <1>3, DoneStep, GotoStep DEF Ack
<1>4. CASE Interrupted(p)
  BY <1>4, GotoStep DEF Interrupted, InTask
<1>5. CASE Dispatch(p)
  <2>1. CASE Done(p)
    BY <1>5, <2>1, DoneStep DEF Dispatch
  <2>2. ASSUME NEW o \in Outcomes, h' = [h EXCEPT ![p].pc = "complete", ![p].out = o]
        PROVE  LedgerInv'
    <3> DEFINE r == [h[p] EXCEPT !.pc = "complete", !.out = o]
    <3>1. h[p].pc = "dispatch" /\ UNCHANGED db
      BY <1>5 DEF Dispatch
    <3>2. r.pc = "complete" /\ r.out = o /\ r.key = h[p].key
      BY <1>1 DEF IsRequest
    <3>3. IsRequest(r)
      BY <1>1 DEF IsRequest, Pcs
    <3>4. Means(r)
      BY <1>0, <1>1, <3>1, <3>2 DEF Means, Admits, Streams, Sees, Stream
    <3>5. h' = [h EXCEPT ![p] = r]
      BY <2>2 DEF LedgerInv, HandlersShape
    <3> HIDE DEF r
    <3> QED
      BY <3>1, <3>2, <3>3, <3>4, <3>5, LocalStep DEF Stream
  <2> QED
    BY <1>5, <2>1, <2>2 DEF Dispatch
<1>6. ASSUME CompleteRead(p) \/ CancelRead(p) PROVE LedgerInv'
  <2> DEFINE k == h[p].key
  <2>1. CASE att[k].st = "none"
    BY <1>6, <2>1, DoneStep DEF CompleteRead, CancelRead
  <2>2. ASSUME att[k].st # "none", NEW pc \in {"commit", "markcommit"},
               h' = [h EXCEPT ![p].pc = pc, ![p].saw = View(k)],
               pc = "commit" => h[p].pc = "complete",
               h[p].pc \notin {"idle", "forkinsert"}
        PROVE  LedgerInv'
    <3> DEFINE r == [h[p] EXCEPT !.pc = pc, !.saw = View(k)]
    <3>1. UNCHANGED db
      BY <1>6 DEF CompleteRead, CancelRead
    <3>2. r.pc = pc /\ r.out = h[p].out /\ r.key = k /\ r.saw.att = att[k]
      BY <1>1 DEF IsRequest, View
    <3>3. IsRequest(r)
      BY <1>1 DEF IsRequest, Pcs
    <3>4. att[k].st \in {"queued"} \cup Terminal
      BY <1>0, <2>2 DEF LedgerInv, TablesShape, Attempt
    <3>5. Means(r)
      BY <1>0, <1>1, <2>2, <3>2, <3>4 DEF Means, Admits, Streams, Sees, Stream
    <3>6. h' = [h EXCEPT ![p] = r]
      BY <2>2 DEF LedgerInv, HandlersShape
    <3> HIDE DEF r
    <3> QED
      BY <2>2, <3>1, <3>2, <3>3, <3>5, <3>6, LocalStep DEF Stream
  <2> QED
    BY <1>6, <2>1, <2>2 DEF CompleteRead, CancelRead
<1> QED
  BY <1>2, <1>3, <1>4, <1>5, <1>6

\* A step of handler p that writes tables.
LEMMA WriteStep ==
  ASSUME LedgerInv, NEW p \in Handlers, NEW r, h' = [h EXCEPT ![p] = r], IsRequest(r),
         r.pc \in Stream => \A q \in Handlers \ {p} : h[q].pc \in Stream => h[q].key # r.key,
         TablesShape', Erased', AnsweredOnce', RecordFollowsAttempt',
         \A q \in Handlers : Means(h[q])'
  PROVE  LedgerInv'
<1>1. h'[p] = r /\ \A q \in Handlers \ {p} : h'[q] = h[q]
  BY DEF LedgerInv, HandlersShape
<1>2. HandlersShape'
  <2>1. h' = [q \in Handlers |-> h'[q]]
    BY DEF LedgerInv, HandlersShape
  <2>2. \A q \in Handlers : IsRequest(h'[q])
    BY <1>1 DEF LedgerInv, HandlersShape
  <2> QED
    BY <2>1, <2>2 DEF HandlersShape, IsRequest
<1>3. OneStream'
  BY <1>1 DEF LedgerInv, OneStream
<1>4. HandlersMean'
  BY DEF HandlersMean
<1> QED
  BY <1>2, <1>3, <1>4 DEF LedgerInv

\* What an admission makes of the handler that ran it.
Acking(p) == [Idle EXCEPT !.pc = "ack", !.key = h[p].key]

LEMMA AckingIsRequest ==
  ASSUME LedgerInv, NEW p \in Handlers, h[p].pc = "insert"
  PROVE  /\ Acking(p).pc = "ack" /\ Acking(p).key = h[p].key /\ h[p].key \in Keys
         /\ IsRequest(Acking(p))
<1>1. h[p].key \in Keys
  BY DEF LedgerInv, HandlersMean, Means
<1> QED
  BY <1>1 DEF Acking, Idle, IsRequest, Pcs, Outcomes

\* An admission opens an attempt that no handler is serving.
LEMMA OpenStep ==
  ASSUME LedgerInv, NEW p \in Handlers, NEW a \in Attempt, NEW sc \in Scopes,
         h[p].pc = "insert", owner = "active", ~Taken(h[p].key), a.st = "queued",
         att' = [att EXCEPT ![h[p].key] = a],
         idem' = [idem EXCEPT ![h[p].key] = [st |-> "running", scope |-> sc]],
         Goto(p, "ack"), UNCHANGED <<owner, answers>>,
         \A s \in Sessions : sess'[s].st = sess[s].st,
         TablesShape'
  PROVE  LedgerInv'
<1> DEFINE k == h[p].key
           r == Acking(p)
<1>1. r.pc = "ack" /\ r.key = k /\ k \in Keys /\ IsRequest(r)
  BY AckingIsRequest
<1>2. h' = [h EXCEPT ![p] = r]
  BY DEF Goto, Acking
<1>3. att[k].st = "none" /\ answers[k] = <<>>
  BY <1>1 DEF Taken, LedgerInv, AnsweredOnce
<1>4. att'[k].st = "queued" /\ idem'[k].st = "running"
      /\ \A x \in Keys \ {k} : att'[x] = att[x] /\ idem'[x] = idem[x]
  BY <1>1 DEF LedgerInv, TablesShape
<1>5. \A q \in Handlers : h[q].pc \in Stream \cup {"commit", "markcommit"} => h[q].key # k
  BY <1>3 DEF LedgerInv, HandlersMean, Means, Streams, Sees
<1>6. Erased' /\ AnsweredOnce' /\ RecordFollowsAttempt'
  BY <1>1, <1>3, <1>4 DEF LedgerInv, Erased, AnsweredOnce, RecordFollowsAttempt, Terminal
<1>7. ASSUME NEW q \in Handlers PROVE Means(h[q])'
  <2>1. CASE q = p
    <3>1. h'[p] = r
      BY <1>2 DEF LedgerInv, HandlersShape
    <3> HIDE DEF r
    <3> QED
      BY <1>1, <1>3, <1>4, <2>1, <3>1 DEF Means, Admits, Streams, Sees, Stream
  <2>2. CASE q # p
    <3>1. h'[q] = h[q] /\ Means(h[q])
      BY <1>2, <2>2 DEF LedgerInv, HandlersShape, HandlersMean
    <3>2. Admits(h[q])'
      BY <3>1 DEF Means, Admits
    <3>3. Streams(h[q])' /\ Sees(h[q])'
      BY <1>4, <1>5, <3>1 DEF Means, Streams, Sees, Stream
    <3> QED
      BY <3>1, <3>2, <3>3 DEF Means
  <2> QED
    BY <2>1, <2>2
<1> HIDE DEF r
<1> QED
  BY <1>1, <1>2, <1>5, <1>6, <1>7, WriteStep

LEMMA AdmitCommitStep ==
  ASSUME LedgerInv, NEW p \in Handlers, AdmitCommit(p)
  PROVE  LedgerInv'
<1> DEFINE k == h[p].key
           s == h[p].target
<1>1. CASE Taken(k) \/ ~Exists(s)
  BY <1>1, DoneStep DEF AdmitCommit
<1>2. CASE ~(Taken(k) \/ ~Exists(s))
  <2> DEFINE a == [NoAttempt EXCEPT !.st = "queued", !.turn = k]
  <2>1. /\ h[p].pc = "insert" /\ h[p].op = "turn"
        /\ att' = [att EXCEPT ![k] = a]
        /\ idem' = [idem EXCEPT ![k] = [st |-> "running", scope |-> <<"turn", s>>]]
        /\ sess' = [sess EXCEPT ![s].rev = h[p].saw.rev + 1]
        /\ Goto(p, "ack") /\ UNCHANGED <<owner, answers>>
    BY <1>2 DEF AdmitCommit
  <2>2. k \in Keys /\ s \in Sessions /\ owner = "active"
    <3>1. Means(h[p])
      BY DEF LedgerInv, HandlersMean
    <3>2. k \in Keys
      BY <2>1, <3>1 DEF Means
    <3>3. s \in Sessions /\ (owner = "revoked" => sess[s].st = "erased")
      BY <2>1, <3>1 DEF Means, Admits
    <3>4. owner \in {"active", "revoked"}
      BY DEF LedgerInv, TablesShape
    <3> QED
      BY <1>2, <3>2, <3>3, <3>4 DEF Exists
  <2>3. a \in Attempt /\ a.st = "queued"
    BY <2>2 DEF Attempt, NoAttempt
  <2>4. <<"turn", s>> \in Scopes
    BY <2>2 DEF Scopes
  <2>5. /\ \A x \in Sessions : sess'[x].st = sess[x].st
        /\ sess' = [x \in Sessions |-> sess'[x]]
        /\ \A x \in Sessions :
             sess'[x] \in [st : {"none", "live", "deleted", "erased"}, rev : {sess'[x].rev},
                           src : {sess'[x].src}, root : {sess'[x].root}, titled : BOOLEAN]
    <3>1. sess' = [x \in Sessions |-> IF x = s THEN [sess[s] EXCEPT !.rev = h[p].saw.rev + 1]
                                      ELSE sess[x]]
      BY <2>1, <2>2 DEF LedgerInv, TablesShape
    <3>2. \A x \in Sessions \ {s} : sess'[x] = sess[x]
      BY <3>1
    <3>3. sess'[s] = [sess[s] EXCEPT !.rev = h[p].saw.rev + 1]
      BY <2>2, <3>1
    <3>4. \A x \in Sessions :
            sess[x] \in [st : {"none", "live", "deleted", "erased"}, rev : {sess[x].rev},
                         src : {sess[x].src}, root : {sess[x].root}, titled : BOOLEAN]
      BY DEF LedgerInv, TablesShape
    <3>5. /\ sess'[s].st = sess[s].st
          /\ sess'[s] \in [st : {"none", "live", "deleted", "erased"}, rev : {sess'[s].rev},
                           src : {sess'[s].src}, root : {sess'[s].root}, titled : BOOLEAN]
      BY <2>2, <3>3, <3>4
    <3>6. sess' = [x \in Sessions |-> sess'[x]]
      BY <3>1
    <3> QED
      BY <3>2, <3>4, <3>5, <3>6
  <2> HIDE DEF a
  <2>6. TablesShape'
    BY <2>1, <2>2, <2>3, <2>4, <2>5 DEF LedgerInv, TablesShape
  <2> QED
    BY <1>2, <2>1, <2>2, <2>3, <2>4, <2>5, <2>6, OpenStep
<1> QED
  BY <1>1, <1>2

LEMMA RetryCommitStep ==
  ASSUME LedgerInv, NEW p \in Handlers, RetryCommit(p)
  PROVE  LedgerInv'
<1> DEFINE k == h[p].key
           t == h[p].target
<1>1. CASE Taken(k) \/ turn[t].st = "none"
  BY <1>1, DoneStep DEF RetryCommit
<1>2. CASE ~(Taken(k) \/ turn[t].st = "none")
  <2> DEFINE a == [NoAttempt EXCEPT !.st = "queued", !.turn = t]
  <2>1. /\ h[p].pc = "insert" /\ h[p].op = "retry"
        /\ att' = [att EXCEPT ![k] = a]
        /\ idem' = [idem EXCEPT ![k] = [st |-> "running", scope |-> <<"retry", t>>]]
        /\ Goto(p, "ack") /\ UNCHANGED <<owner, sess, answers>>
    BY <1>2 DEF RetryCommit
  <2>2. k \in Keys /\ t \in Keys
    BY <2>1 DEF LedgerInv, HandlersMean, Means, Admits
  <2>3. owner = "active"
    BY <1>2, <2>2 DEF LedgerInv, TablesShape, Erased
  <2>4. a \in Attempt /\ a.st = "queued"
    BY <2>2 DEF Attempt, NoAttempt
  <2>5. <<"retry", t>> \in Scopes
    BY <2>2 DEF Scopes
  <2> HIDE DEF a
  <2>6. TablesShape'
    BY <2>1, <2>2, <2>4, <2>5 DEF LedgerInv, TablesShape
  <2> QED
    BY <1>2, <2>1, <2>3, <2>4, <2>5, <2>6, OpenStep
<1> QED
  BY <1>1, <1>2

LEMMA EndedAttempt ==
  ASSUME NEW a \in Attempt, NEW st \in Terminal
  PROVE  /\ [a EXCEPT !.st = st] \in Attempt /\ [a EXCEPT !.st = st].st = st
         /\ [a EXCEPT !.st = st, !.cancel = TRUE] \in Attempt
         /\ [a EXCEPT !.st = st, !.cancel = TRUE].st = st
<1>1. a = [st |-> a.st, turn |-> a.turn, cancel |-> a.cancel]
      /\ a.turn \in Keys \cup {None} /\ a.cancel \in BOOLEAN
  BY DEF Attempt
<1>2. [a EXCEPT !.st = st] = [st |-> st, turn |-> a.turn, cancel |-> a.cancel]
  BY <1>1
<1>3. [a EXCEPT !.st = st, !.cancel = TRUE] = [st |-> st, turn |-> a.turn, cancel |-> TRUE]
  <2> DEFINE e == [a EXCEPT !.st = st, !.cancel = TRUE]
  <2>1. DOMAIN a = {"st", "turn", "cancel"}
    BY <1>1
  <2>2. e = [x \in {"st", "turn", "cancel"} |-> e[x]]
    BY <2>1
  <2>3. e.st = st /\ e.turn = a.turn /\ e.cancel = TRUE
    BY <2>1
  <2> HIDE DEF e
  <2>4. e = [st |-> e.st, turn |-> e.turn, cancel |-> e.cancel]
    BY <2>2
  <2> QED
    BY <2>3, <2>4 DEF e
<1>4. \A c \in BOOLEAN : [st |-> st, turn |-> a.turn, cancel |-> c] \in Attempt
  BY <1>1 DEF Attempt
<1> QED
  BY <1>1, <1>2, <1>3, <1>4

\* A handler that is past its attempt means nothing but its key.
LEMMA PastMeans ==
  ASSUME NEW r, r.pc \in {"idle", "signal", "title", "mark"}, r.pc # "idle" => r.key \in Keys
  PROVE  Means(r) /\ r.pc \notin Stream
BY DEF Means, Admits, Streams, Sees, Stream

\* The answers of attempt k are touched only by the handler that streams it.
AnswerMayCome(p, k) ==
  \/ UNCHANGED answers
  \/ /\ h[p].pc \in Stream
     /\ \E v \in Outcomes : answers' = [answers EXCEPT ![k] = Append(@, v)]

\* A completion or a cancellation ends the attempt.
LEMMA CloseStep ==
  ASSUME LedgerInv, NEW p \in Handlers, NEW r, IsRequest(r), h' = [h EXCEPT ![p] = r],
         r.pc \in {"idle", "signal", "title"}, r.pc # "idle" => r.key \in Keys,
         h[p].pc \in {"commit", "markcommit"}, att[h[p].key].st # "none",
         att' \in [Keys -> Attempt], att'[h[p].key].st \in Terminal,
         \A x \in Keys \ {h[p].key} : att'[x] = att[x],
         FinishIdempotency(h[p].key), AnswerMayCome(p, h[p].key), UNCHANGED <<owner, sess>>
  PROVE  LedgerInv'
<1> DEFINE k == h[p].key
<1>1. k \in Keys /\ owner = "active"
  BY DEF LedgerInv, HandlersMean, Means, TablesShape, Erased
<1>2. h'[p] = r /\ \A q \in Handlers \ {p} : h'[q] = h[q]
  BY DEF LedgerInv, HandlersShape
<1>3. idem' \in [Keys -> [st : {"none", "running", "completed"}, scope : Scopes]]
      /\ idem'[k].st = "completed" /\ \A x \in Keys \ {k} : idem'[x] = idem[x]
  <2> DEFINE R == [st : {"none", "running", "completed"}, scope : Scopes]
             i == [idem[k] EXCEPT !.st = "completed"]
  <2>1. idem \in [Keys -> R]
    BY DEF LedgerInv, TablesShape
  <2>2. idem' = [idem EXCEPT ![k] = i]
    BY <1>1, <2>1 DEF FinishIdempotency
  <2>3. idem[k] \in R
    BY <1>1, <2>1
  <2>4. i \in R /\ i.st = "completed"
    BY <2>3
  <2> HIDE DEF R, i
  <2>5. idem' \in [Keys -> R] /\ idem'[k] = i /\ \A x \in Keys \ {k} : idem'[x] = idem[x]
    BY <1>1, <2>1, <2>2, <2>4
  <2> QED
    BY <2>4, <2>5 DEF R
<1> DEFINE Answered == /\ answers' \in [Keys -> Seq(Outcomes)] /\ Len(answers'[k]) <= 1
                       /\ \A x \in Keys \ {k} : answers'[x] = answers[x]
<1>4. Answered
  <2>1. CASE UNCHANGED answers
    BY <1>1, <2>1 DEF LedgerInv, TablesShape, AnsweredOnce
  <2>2. ASSUME h[p].pc \in Stream, NEW v \in Outcomes,
               answers' = [answers EXCEPT ![k] = Append(@, v)]
        PROVE  Answered
    <3>1. answers[k] = <<>>
      BY <2>2 DEF LedgerInv, HandlersMean, Means, Streams
    <3>2. Append(answers[k], v) = <<v>> /\ Len(<<v>>) = 1 /\ <<v>> \in Seq(Outcomes)
      BY <3>1
    <3> QED
      BY <1>1, <2>2, <3>2 DEF LedgerInv, TablesShape
  <2> QED
    BY <2>1, <2>2 DEF AnswerMayCome
<1>5. TablesShape'
  BY <1>3, <1>4 DEF LedgerInv, TablesShape
<1>6. Erased' /\ AnsweredOnce' /\ RecordFollowsAttempt'
  <2>1. Erased'
    BY <1>1 DEF Erased
  <2>2. AnsweredOnce'
    BY <1>1, <1>4 DEF LedgerInv, AnsweredOnce, Terminal
  <2>3. RecordFollowsAttempt'
    BY <1>1, <1>3 DEF LedgerInv, RecordFollowsAttempt, Terminal
  <2> QED
    BY <2>1, <2>2, <2>3
<1>7. ASSUME NEW q \in Handlers PROVE Means(h[q])'
  <2>1. CASE q = p
    BY <1>2, <2>1, PastMeans DEF Means, Admits, Streams, Sees, Stream
  <2>2. CASE q # p
    <3>1. h'[q] = h[q] /\ Means(h[q])
      BY <1>2, <2>2 DEF LedgerInv, HandlersMean
    <3>2. Admits(h[q])'
      BY <3>1 DEF Means, Admits
    <3>3. Streams(h[q])'
      <4>1. CASE h[q].pc \in Stream /\ h[q].key = k
        <5>1. h[p].pc \notin Stream
          BY <2>2, <4>1 DEF LedgerInv, OneStream
        <5>2. UNCHANGED answers
          BY <5>1 DEF AnswerMayCome
        <5> QED
          BY <3>1, <4>1, <5>2 DEF Means, Streams, Terminal, Stream
      <4>2. CASE h[q].pc \in Stream /\ h[q].key # k
        BY <1>4, <3>1, <4>2 DEF Means, Streams, Stream
      <4>3. CASE h[q].pc \notin Stream
        BY <3>1, <4>3 DEF Streams, Stream
      <4> QED
        BY <4>1, <4>2, <4>3
    <3>4. Sees(h[q])'
      BY <3>1 DEF Means, Sees, Terminal
    <3> QED
      BY <3>1, <3>2, <3>3, <3>4 DEF Means
  <2> QED
    BY <2>1, <2>2
<1>8. r.pc \notin Stream
  BY DEF Stream
<1> QED
  BY <1>5, <1>6, <1>7, <1>8, WriteStep

LEMMA CompleteCommitStep ==
  ASSUME LedgerInv, NEW p \in Handlers, CompleteCommit(p)
  PROVE  LedgerInv'
<1> DEFINE k == h[p].key
           saw == h[p].saw
           v == Verdict(saw, h[p].out)
           ended == saw.att.st \in Terminal
<1>1. IsRequest(h[p]) /\ Means(h[p]) /\ h[p].pc = "commit"
  BY DEF LedgerInv, HandlersShape, HandlersMean, CompleteCommit
<1>2. k \in Keys /\ h[p].out \in Outcomes /\ saw.att.st \in {"queued"} \cup Terminal
      /\ (ended => att[k].st \in {"none"} \cup Terminal)
  BY <1>1 DEF Means, Streams, Sees
<1>3. CASE att[k].st = "none"
  BY <1>3, DoneStep DEF CompleteCommit
<1>4. CASE att[k].st # "none"
  <2> DEFINE r == [h[p] EXCEPT !.pc = "title", !.saw = [NoView EXCEPT !.att.turn = saw.att.turn]]
  <2>1. /\ FinishIdempotency(k)
        /\ att' = [att EXCEPT ![k].st = Set(@, saw.att.st, v)]
        /\ answers' = IF ended \/ saw.att.cancel THEN answers
                      ELSE [answers EXCEPT ![k] = Append(@, v)]
        /\ h' = [h EXCEPT ![p].pc = "title", ![p].saw = [NoView EXCEPT !.att.turn = saw.att.turn]]
        /\ UNCHANGED <<owner, sess>>
    BY <1>4 DEF CompleteCommit
  <2>2. h' = [h EXCEPT ![p] = r]
    BY <2>1 DEF LedgerInv, HandlersShape
  <2>3. r.pc = "title" /\ r.key = k /\ IsRequest(r)
    BY <1>1 DEF IsRequest, Pcs
  <2>4. v \in Terminal /\ (ended => v = saw.att.st)
    BY <1>2 DEF Verdict, Outcomes, Terminal
  <2>5. ~ended /\ ~saw.att.cancel => v \in Outcomes
    BY <1>2 DEF Verdict
  <2>6. Set(att[k].st, saw.att.st, v) \in Terminal
    BY <1>2, <1>4, <2>4 DEF Set, Terminal
  <2> HIDE DEF v
  <2>7. att' \in [Keys -> Attempt] /\ att'[k].st \in Terminal
        /\ \A x \in Keys \ {k} : att'[x] = att[x]
    <3> DEFINE a == [att[k] EXCEPT !.st = Set(@, saw.att.st, v)]
    <3>1. att' = [att EXCEPT ![k] = a]
      BY <1>2, <2>1 DEF LedgerInv, TablesShape
    <3>2. a \in Attempt /\ a.st \in Terminal
      <4>1. att[k] \in Attempt
        BY <1>2 DEF LedgerInv, TablesShape
      <4> QED
        BY <2>6, <4>1, EndedAttempt
    <3> HIDE DEF a
    <3> QED
      BY <1>2, <3>1, <3>2 DEF LedgerInv, TablesShape
  <2>8. AnswerMayCome(p, k)
    BY <1>1, <2>1, <2>5 DEF AnswerMayCome, Stream
  <2> HIDE DEF r
  <2> QED
    BY <1>1, <1>2, <1>4, <2>1, <2>2, <2>3, <2>7, <2>8, CloseStep
<1> QED
  BY <1>3, <1>4

LEMMA CancelCommitStep ==
  ASSUME LedgerInv, NEW p \in Handlers, CancelCommit(p)
  PROVE  LedgerInv'
<1> DEFINE k == h[p].key
           saw == h[p].saw
           r == IF h[p].op = "cancel" THEN [Idle EXCEPT !.pc = "signal", !.key = k] ELSE Idle
<1>1. IsRequest(h[p]) /\ Means(h[p]) /\ h[p].pc = "markcommit"
  BY DEF LedgerInv, HandlersShape, HandlersMean, CancelCommit
<1>2. k \in Keys /\ (saw.att.st \in Terminal => att[k].st \in {"none"} \cup Terminal)
  BY <1>1 DEF Means, Sees
<1>3. CASE att[k].st = "none"
  BY <1>3, DoneStep DEF CancelCommit
<1>4. CASE att[k].st # "none"
  <2>1. /\ FinishIdempotency(k)
        /\ att' = [att EXCEPT ![k].st = Cancelled(@, saw), ![k].cancel = TRUE]
        /\ h' = [h EXCEPT ![p] = r]
        /\ UNCHANGED <<owner, sess, answers>>
    BY <1>4 DEF CancelCommit, Goto, Done
  <2>2. Cancelled(att[k].st, saw) \in Terminal
    BY <1>2, <1>4 DEF Cancelled, Terminal
  <2>3. att' \in [Keys -> Attempt] /\ att'[k].st \in Terminal
        /\ \A x \in Keys \ {k} : att'[x] = att[x]
    <3> DEFINE a == [att[k] EXCEPT !.st = Cancelled(@, saw), !.cancel = TRUE]
    <3>1. att' = [att EXCEPT ![k] = a]
      BY <1>2, <2>1 DEF LedgerInv, TablesShape
    <3>2. a \in Attempt /\ a.st \in Terminal
      <4>1. att[k] \in Attempt
        BY <1>2 DEF LedgerInv, TablesShape
      <4> QED
        BY <2>2, <4>1, EndedAttempt
    <3> HIDE DEF a
    <3> QED
      BY <1>2, <3>1, <3>2 DEF LedgerInv, TablesShape
  <2>4. r.pc \in {"idle", "signal"} /\ (r.pc # "idle" => r.key = k) /\ IsRequest(r)
    BY <1>2 DEF Idle, IsRequest, Pcs, Outcomes
  <2> HIDE DEF r
  <2> QED
    BY <1>1, <1>2, <1>4, <2>1, <2>3, <2>4, CloseStep DEF AnswerMayCome
<1> QED
  BY <1>3, <1>4

SessionsShape ==
  /\ sess = [s \in Sessions |-> sess[s]]
  /\ \A s \in Sessions :
       sess[s] \in [st : {"none", "live", "deleted", "erased"}, rev : {sess[s].rev},
                    src : {sess[s].src}, root : {sess[s].root}, titled : BOOLEAN]

\* A step that writes only sessions, and removes none, disturbs no handler but
\* the one that makes it.
LEMMA SessionStep ==
  ASSUME LedgerInv, SessionsShape', UNCHANGED <<owner, turn, att, answers, idem>>,
         \/ UNCHANGED h
         \/ \E p \in Handlers : Done(p),
         \A s \in Sessions :
           /\ sess[s].st # "none" => sess'[s].st # "none"
           /\ sess[s].st = "erased" => sess'[s].st = "erased"
  PROVE  LedgerInv'
<1>1. TablesShape' /\ Erased' /\ AnsweredOnce' /\ RecordFollowsAttempt'
  BY DEF LedgerInv, TablesShape, SessionsShape, Erased, AnsweredOnce, RecordFollowsAttempt
<1>2. h' = [q \in Handlers |-> h'[q]] /\ \A q \in Handlers : h'[q] \in {h[q], Idle}
  BY DEF LedgerInv, HandlersShape, Done
<1>3. IsRequest(Idle) /\ Idle.pc = "idle" /\ Idle.pc \notin Stream
  BY DEF IsRequest, Idle, Pcs, Outcomes, Stream
<1>4. HandlersShape'
  <2>1. \A q \in Handlers : IsRequest(h'[q])
    BY <1>2, <1>3 DEF LedgerInv, HandlersShape
  <2> QED
    BY <1>2, <2>1 DEF HandlersShape, IsRequest
<1>5. HandlersMean'
  <2>1. ASSUME NEW q \in Handlers PROVE Means(h[q])'
    <3>1. CASE h'[q] = h[q]
      BY <2>1, <3>1 DEF LedgerInv, HandlersMean, Means, Admits, Streams, Sees
    <3>2. CASE h'[q] = Idle
      BY <1>3, <3>2 DEF Means, Admits, Streams, Sees, Stream
    <3> QED
      BY <1>2, <2>1, <3>1, <3>2
  <2> QED
    BY <2>1 DEF HandlersMean
<1>6. OneStream'
  BY <1>2, <1>3 DEF LedgerInv, OneStream
<1> QED
  BY <1>1, <1>4, <1>5, <1>6 DEF LedgerInv

LEMMA TitleStep ==
  ASSUME LedgerInv, NEW p \in Handlers, Title(p)
  PROVE  LedgerInv'
<1>1. UNCHANGED sess \/ \E s : sess' = [sess EXCEPT ![s].titled = TRUE] /\ sess[s].st = "live"
  BY DEF Title, set_initial_session_title
<1>2. SessionsShape' /\ \A s \in Sessions : sess'[s].st = sess[s].st
  <2>1. CASE UNCHANGED sess
    BY <2>1 DEF LedgerInv, TablesShape, SessionsShape
  <2>2. ASSUME NEW s, sess' = [sess EXCEPT ![s].titled = TRUE]
        PROVE  SessionsShape' /\ \A x \in Sessions : sess'[x].st = sess[x].st
    <3>1. sess' = [x \in Sessions |-> IF x = s THEN [sess[x] EXCEPT !.titled = TRUE]
                                      ELSE sess[x]]
      BY <2>2 DEF LedgerInv, TablesShape
    <3> QED
      BY <3>1 DEF LedgerInv, TablesShape, SessionsShape
  <2> QED
    BY <1>1, <2>1, <2>2
<1> QED
  BY <1>2, SessionStep DEF Title

LEMMA ForkCommitStep ==
  ASSUME LedgerInv, NEW p \in Handlers, ForkCommit(p)
  PROVE  LedgerInv'
<1> DEFINE fork == [NoSession EXCEPT !.st = "live", !.src = h[p].target.src,
                             !.root = h[p].target.root]
<1>1. PICK s \in Sessions : sess[s].st = "none" /\ sess' = [sess EXCEPT ![s] = fork]
  BY DEF ForkCommit
<1>2. fork \in [st : {"none", "live", "deleted", "erased"}, rev : {fork.rev},
                src : {fork.src}, root : {fork.root}, titled : BOOLEAN]
  BY DEF NoSession
<1> HIDE DEF fork
<1>3. sess' = [x \in Sessions |-> IF x = s THEN fork ELSE sess[x]]
  BY <1>1 DEF LedgerInv, TablesShape
<1>4. SessionsShape'
  BY <1>2, <1>3 DEF LedgerInv, TablesShape, SessionsShape
<1> QED
  BY <1>1, <1>3, <1>4, SessionStep DEF ForkCommit

LEMMA DeleteTreeStep ==
  ASSUME LedgerInv, NEW s \in Sessions, DeleteTree(s)
  PROVE  LedgerInv'
<1>1. sess' = [x \in Sessions |->
                 IF Exists(x) /\ sess[x].root = sess[s].root
                 THEN [sess[x] EXCEPT !.st = "deleted", !.rev = @ + 1] ELSE sess[x]]
  BY DEF DeleteTree
<1>2. SessionsShape'
  BY <1>1 DEF LedgerInv, TablesShape, SessionsShape
<1>3. \A x \in Sessions :
        /\ sess[x].st # "none" => sess'[x].st # "none"
        /\ sess[x].st = "erased" => sess'[x].st = "erased"
  BY <1>1 DEF LedgerInv, TablesShape, Exists
<1> QED
  BY <1>2, <1>3, SessionStep DEF DeleteTree

\* Handlers only go past their attempts, or end: no table is written.
LEMMA PastStep ==
  ASSUME LedgerInv, UNCHANGED db, h' = [q \in Handlers |-> h'[q]],
         \A q \in Handlers :
           \/ h'[q] = h[q]
           \/ /\ IsRequest(h'[q]) /\ h'[q].pc \in {"idle", "mark"}
              /\ h'[q].pc # "idle" => h'[q].key \in Keys
  PROVE  LedgerInv'
<1>1. TablesShape' /\ Erased' /\ AnsweredOnce' /\ RecordFollowsAttempt'
  BY DEF db, LedgerInv, TablesShape, Erased, AnsweredOnce, RecordFollowsAttempt
<1>2. HandlersShape'
  <2>1. \A q \in Handlers : IsRequest(h'[q])
    BY DEF LedgerInv, HandlersShape
  <2> QED
    BY <2>1 DEF HandlersShape, IsRequest
<1>3. HandlersMean'
  <2>1. ASSUME NEW q \in Handlers PROVE Means(h[q])'
    <3>1. CASE h'[q] = h[q]
      BY <2>1, <3>1 DEF db, LedgerInv, HandlersMean, Means, Admits, Streams, Sees
    <3>2. CASE h'[q] # h[q]
      BY <2>1, <3>2 DEF Means, Admits, Streams, Sees, Stream
    <3> QED
      BY <3>1, <3>2
  <2> QED
    BY <2>1 DEF HandlersMean
<1>4. OneStream'
  BY DEF LedgerInv, OneStream, Stream
<1> QED
  BY <1>1, <1>2, <1>3, <1>4 DEF LedgerInv

LEMMA SignalStep ==
  ASSUME LedgerInv, NEW p \in Handlers, Signal(p)
  PROVE  LedgerInv'
<1>1. IsRequest(Idle) /\ Idle.pc = "idle"
  BY DEF IsRequest, Idle, Pcs, Outcomes
<1>2. ASSUME NEW k \in Keys
      PROVE  /\ [Idle EXCEPT !.pc = "mark", !.key = k].pc = "mark"
             /\ [Idle EXCEPT !.pc = "mark", !.key = k].key = k
             /\ IsRequest([Idle EXCEPT !.pc = "mark", !.key = k])
  BY DEF IsRequest, Idle, Pcs, Outcomes
<1>3. \A q \in Handlers : h[q].pc \in InTask => h[q].key \in Keys
  BY DEF LedgerInv, HandlersMean, Means, InTask
<1>4. \A q \in Handlers :
        \/ h'[q] = Idle
        \/ h[q].pc \in InTask /\ h'[q] = [Idle EXCEPT !.pc = "mark", !.key = h[q].key]
        \/ h'[q] = h[q]
  BY DEF Signal
<1>5. \A q \in Handlers :
        \/ h'[q] = h[q]
        \/ /\ IsRequest(h'[q]) /\ h'[q].pc \in {"idle", "mark"}
           /\ h'[q].pc # "idle" => h'[q].key \in Keys
  <2> TAKE q \in Handlers
  <2>1. CASE h'[q] = Idle
    BY <1>1, <2>1
  <2>2. CASE h[q].pc \in InTask /\ h'[q] = [Idle EXCEPT !.pc = "mark", !.key = h[q].key]
    <3>1. h[q].key \in Keys
      BY <1>3, <2>2
    <3>2. h'[q].pc = "mark" /\ h'[q].key = h[q].key /\ IsRequest(h'[q])
      BY <1>2, <2>2, <3>1
    <3> QED
      BY <3>1, <3>2
  <2> QED
    BY <1>4, <2>1, <2>2
<1>6. UNCHANGED db /\ h' = [q \in Handlers |-> h'[q]]
  BY DEF Signal
<1> QED
  BY <1>5, <1>6, PastStep

LEMMA CrashStep ==
  ASSUME LedgerInv, Crash
  PROVE  LedgerInv'
<1>1. IsRequest(Idle) /\ Idle.pc = "idle"
  BY DEF IsRequest, Idle, Pcs, Outcomes
<1> QED
  BY <1>1, PastStep DEF Crash

LEMMA EraseStep ==
  ASSUME LedgerInv, EraseOwner
  PROVE  LedgerInv'
<1> USE DEF EraseOwner
<1>1. \A k \in Keys : att'[k] = NoAttempt /\ turn'[k].st = "none" /\ answers'[k] = <<>>
                      /\ idem'[k] = NoRecord
  BY DEF NoTurn
<1>2. TablesShape'
  <2>1. NoAttempt \in Attempt /\ NoRecord \in [st : {"none", "running", "completed"},
                                               scope : Scopes]
    BY DEF Attempt, NoAttempt, NoRecord, Scopes
  <2>2. answers' \in [Keys -> Seq(Outcomes)]
    OBVIOUS
  <2>3. SessionsShape'
    BY DEF SessionsShape, NoSession
  <2> QED
    BY <2>1, <2>2, <2>3 DEF TablesShape, SessionsShape
<1>3. Erased' /\ AnsweredOnce' /\ RecordFollowsAttempt'
  BY <1>1 DEF Erased, AnsweredOnce, RecordFollowsAttempt, NoAttempt, NoRecord, Terminal
<1>4. HandlersShape' /\ OneStream'
  BY DEF LedgerInv, HandlersShape, OneStream
<1>5. HandlersMean'
  <2>1. ASSUME NEW q \in Handlers PROVE Means(h[q])'
    <3>1. Means(h[q])
      BY <2>1 DEF LedgerInv, HandlersMean
    <3>2. \A s \in Sessions : sess[s].st # "none" => sess'[s].st = "erased"
      BY DEF NoSession
    <3>3. Admits(h[q])'
      BY <3>1, <3>2 DEF Means, Admits
    <3>4. Streams(h[q])' /\ Sees(h[q])'
      BY <1>1, <3>1 DEF Means, Streams, Sees, NoAttempt, Stream
    <3> QED
      BY <3>1, <3>3, <3>4 DEF Means
  <2> QED
    BY <2>1 DEF HandlersMean
<1> QED
  BY <1>2, <1>3, <1>4, <1>5 DEF LedgerInv

-----------------------------------------------------------------------------
LEMMA StepLedger == LedgerInv /\ [Next]_vars => LedgerInv'
<1> SUFFICES ASSUME LedgerInv, [Next]_vars PROVE LedgerInv'
  OBVIOUS
<1>1. ASSUME NEW p \in Handlers, Request(p) PROVE LedgerInv'
  BY <1>1, RequestStep
<1>2. ASSUME NEW p \in Handlers, Serve(p) PROVE LedgerInv'
  <2>1. CASE AdmitCommit(p)
    BY <2>1, AdmitCommitStep
  <2>2. CASE RetryCommit(p)
    BY <2>2, RetryCommitStep
  <2>3. CASE AdmitFails(p) \/ Ack(p) \/ Dispatch(p) \/ CompleteRead(p) \/ CancelRead(p)
             \/ ForkFull(p)
    BY <2>3, BetweenStep
  <2>4. CASE CompleteCommit(p)
    BY <2>4, CompleteCommitStep
  <2>5. CASE Title(p)
    BY <2>5, TitleStep
  <2>6. CASE CancelCommit(p)
    BY <2>6, CancelCommitStep
  <2>7. CASE Signal(p)
    BY <2>7, SignalStep
  <2>8. CASE ForkCommit(p)
    BY <2>8, ForkCommitStep
  <2> QED
    BY <1>2, <2>1, <2>2, <2>3, <2>4, <2>5, <2>6, <2>7, <2>8 DEF Serve
<1>3. ASSUME NEW p \in Handlers, Interrupted(p) PROVE LedgerInv'
  BY <1>3, BetweenStep
<1>4. ASSUME NEW s \in Sessions, DeleteTree(s) PROVE LedgerInv'
  BY <1>4, DeleteTreeStep
<1>5. CASE EraseOwner
  BY <1>5, EraseStep
<1>6. CASE Crash
  BY <1>6, CrashStep
<1>7. CASE UNCHANGED vars
  <2>1. h' = [q \in Handlers |-> h'[q]] /\ \A q \in Handlers : h'[q] = h[q]
    BY <1>7 DEF vars, LedgerInv, HandlersShape
  <2>2. UNCHANGED db
    BY <1>7 DEF vars, db
  <2> QED
    BY <2>1, <2>2, PastStep
<1> QED
  BY <1>1, <1>2, <1>3, <1>4, <1>5, <1>6, <1>7 DEF Next

\* Whatever order the transactions of any number of requests commit in, and
\* however often the server dies between them, a request's idempotency record
\* (_check_idempotency) is running exactly while its attempt is unfinished.
THEOREM RecordsFollowAttempts == Spec => []RecordFollowsAttempt
<1>1. Init => LedgerInv
  BY InitLedger
<1>2. LedgerInv /\ [Next]_vars => LedgerInv'
  BY StepLedger
<1>3. LedgerInv => RecordFollowsAttempt
  BY DEF LedgerInv
<1> QED
  BY <1>1, <1>2, <1>3, PTL DEF Spec

-----------------------------------------------------------------------------
LEMMA LedgerStutter ==
  ASSUME UNCHANGED <<att, answers, idem>>
  PROVE  UNCHANGED LedgerTable
BY DEF LedgerTable, LedgerState

\* A transaction on one attempt is a step of the ledger for its id, or none.
LEMMA LedgerMove ==
  ASSUME LedgerInv, LedgerInv', NEW k \in Keys,
         \A x \in Keys \ {k} : att'[x] = att[x] /\ answers'[x] = answers[x] /\ idem'[x] = idem[x],
         \/ att[k].st = "none" /\ att'[k].st = "queued" /\ UNCHANGED answers
         \/ /\ att[k].st # "none" /\ att'[k].st \in Terminal
            /\ answers'[k] = answers[k] \/ Len(answers'[k]) = 1
  PROVE  [Ledger!Next]_LedgerTable
<1>1. \A x \in Keys \ {k} : LedgerState(x)' = LedgerState(x)
  BY DEF LedgerState
<1>2. \A v : LedgerState(k)' = v => LedgerTable' = [LedgerTable EXCEPT ![k] = v]
  BY <1>1 DEF LedgerTable
<1>3. LedgerTable[k] = LedgerState(k)
  BY DEF LedgerTable
<1>4. CASE att[k].st = "none" /\ att'[k].st = "queued" /\ UNCHANGED answers
  <2>1. LedgerState(k) = "absent"
    BY <1>4 DEF LedgerState
  <2>2. LedgerState(k)' = "open"
    BY <1>4 DEF LedgerState, LedgerInv, AnsweredOnce, RecordFollowsAttempt
  <2> QED
    BY <1>2, <1>3, <2>1, <2>2 DEF Ledger!Next, Ledger!Open
<1>5. ASSUME att[k].st # "none", att'[k].st \in Terminal,
             answers'[k] = answers[k] \/ Len(answers'[k]) = 1
      PROVE  [Ledger!Next]_LedgerTable
  <2>1. answers[k] \in Seq(Outcomes) /\ answers'[k] \in Seq(Outcomes)
    BY DEF LedgerInv, TablesShape
  <2>2. Len(answers[k]) \in {0, 1} /\ Len(answers'[k]) \in {0, 1}
    <3>1. Len(answers[k]) \in Nat /\ Len(answers'[k]) \in Nat
      BY <2>1
    <3>2. Len(answers[k]) <= 1 /\ Len(answers'[k]) <= 1
      BY DEF LedgerInv, AnsweredOnce
    <3>3. \A n \in Nat : n <= 1 => n \in {0, 1}
      OBVIOUS
    <3> QED
      BY <3>1, <3>2, <3>3, Zenon
  <2>3. idem'[k].st = "completed" /\ att'[k].st # "none"
    BY <1>5 DEF LedgerInv, RecordFollowsAttempt, Terminal
  <2>4. CASE Len(answers'[k]) = 1
    <3>1. LedgerState(k)' = "answered" /\ LedgerState(k) \in {"open", "closed", "answered"}
      BY <1>5, <2>2, <2>3, <2>4 DEF LedgerState
    <3>2. CASE LedgerState(k) = "answered"
      BY <1>1, <3>1, <3>2 DEF LedgerTable
    <3> QED
      BY <1>2, <1>3, <3>1, <3>2 DEF Ledger!Next, Ledger!Answer, Ledger!LateAnswer
  <2>5. CASE Len(answers'[k]) = 0
    <3>1. LedgerState(k)' = "closed" /\ LedgerState(k) \in {"open", "closed"}
      BY <1>5, <2>2, <2>3, <2>5 DEF LedgerState
    <3>2. CASE LedgerState(k) = "closed"
      BY <1>1, <3>1, <3>2 DEF LedgerTable
    <3> QED
      BY <1>2, <1>3, <3>1, <3>2 DEF Ledger!Next, Ledger!Close
  <2> QED
    BY <2>2, <2>4, <2>5
<1> QED
  BY <1>4, <1>5

LEMMA AdmissionMove ==
  ASSUME LedgerInv, LedgerInv', NEW p \in Handlers, AdmitCommit(p) \/ RetryCommit(p)
  PROVE  [Ledger!Next]_LedgerTable
<1> DEFINE k == h[p].key
<1>1. k \in Keys
  BY DEF LedgerInv, HandlersMean, Means, AdmitCommit, RetryCommit
<1>2. CASE UNCHANGED db
  BY <1>2, LedgerStutter DEF db
<1>3. ASSUME NEW t, NEW i, att[k].st = "none", UNCHANGED answers,
             att' = [att EXCEPT ![k] = [NoAttempt EXCEPT !.st = "queued", !.turn = t]],
             idem' = [idem EXCEPT ![k] = i]
      PROVE  [Ledger!Next]_LedgerTable
  <2>1. /\ \A x \in Keys \ {k} : att'[x] = att[x] /\ answers'[x] = answers[x] /\ idem'[x] = idem[x]
        /\ att'[k].st = "queued"
    BY <1>1, <1>3 DEF LedgerInv, TablesShape, NoAttempt
  <2> QED
    BY <1>1, <1>3, <2>1, LedgerMove
<1>4. CASE AdmitCommit(p)
  BY <1>2, <1>3, <1>4 DEF AdmitCommit, Taken
<1>5. CASE RetryCommit(p)
  BY <1>2, <1>3, <1>5 DEF RetryCommit, Taken
<1> QED
  BY <1>4, <1>5

LEMMA EndMove ==
  ASSUME LedgerInv, LedgerInv', NEW p \in Handlers, CompleteCommit(p) \/ CancelCommit(p)
  PROVE  [Ledger!Next]_LedgerTable
<1> DEFINE k == h[p].key
<1>1. k \in Keys
  BY DEF LedgerInv, HandlersMean, Means, CompleteCommit, CancelCommit
<1>2. CASE att[k].st = "none"
  BY <1>2, LedgerStutter DEF db, CompleteCommit, CancelCommit
<1>3. CASE att[k].st # "none"
  <2>1. FinishIdempotency(k)
    BY <1>3 DEF CompleteCommit, CancelCommit
  <2>2. \A x \in Keys \ {k} : att'[x] = att[x] /\ idem'[x] = idem[x]
    <3>1. \A x \in Keys \ {k} : idem'[x] = idem[x]
      BY <2>1 DEF FinishIdempotency, LedgerInv, TablesShape
    <3>2. \E a : att' = [att EXCEPT ![k] = a]
      <4>1. CASE CompleteCommit(p)
        BY <1>3, <4>1 DEF CompleteCommit
      <4>2. CASE CancelCommit(p)
        <5> DEFINE a == [att[k] EXCEPT !.st = Cancelled(@, h[p].saw), !.cancel = TRUE]
        <5>1. att' = [att EXCEPT ![k] = a]
          BY <1>1, <1>3, <4>2 DEF CancelCommit, LedgerInv, TablesShape
        <5> QED
          BY <5>1
      <4> QED
        BY <4>1, <4>2
    <3> QED
      BY <3>1, <3>2 DEF LedgerInv, TablesShape
  <2>3. att'[k].st \in Terminal
    <3>1. idem'[k].st = "completed"
      BY <1>1, <2>1 DEF FinishIdempotency, LedgerInv, TablesShape
    <3> QED
      BY <1>1, <3>1 DEF LedgerInv, RecordFollowsAttempt
  <2>4. UNCHANGED answers \/ \E v : answers' = [answers EXCEPT ![k] = Append(@, v)] /\ answers[k] = <<>>
    BY <1>3 DEF CompleteCommit, CancelCommit, LedgerInv, HandlersMean, Means, Streams, Stream
  <2>5. /\ \A x \in Keys \ {k} : answers'[x] = answers[x]
        /\ answers'[k] = answers[k] \/ Len(answers'[k]) = 1
    <3>1. ASSUME NEW v, answers' = [answers EXCEPT ![k] = Append(@, v)], answers[k] = <<>>
          PROVE  (\A x \in Keys \ {k} : answers'[x] = answers[x]) /\ Len(answers'[k]) = 1
      <4>1. answers'[k] = Append(<<>>, v) /\ \A x \in Keys \ {k} : answers'[x] = answers[x]
        BY <1>1, <3>1 DEF LedgerInv, TablesShape
      <4>2. Len(Append(<<>>, v)) = 1
        OBVIOUS
      <4> QED
        BY <4>1, <4>2
    <3> QED
      BY <2>4, <3>1
  <2> QED
    BY <1>1, <1>3, <2>2, <2>3, <2>5, LedgerMove
<1> QED
  BY <1>2, <1>3

LEMMA EraseMove ==
  ASSUME EraseOwner
  PROVE  Ledger!Next
<1>1. \A k \in Keys : LedgerState(k)' = "absent"
  BY DEF EraseOwner, LedgerState, NoAttempt
<1>2. LedgerTable' = [k \in Keys |-> "absent"]
  BY <1>1 DEF LedgerTable
<1> QED
  BY <1>2 DEF Ledger!Next, Ledger!Erase

LEMMA StepMove == LedgerInv /\ LedgerInv' /\ [Next]_vars => [Ledger!Next]_LedgerTable
<1> SUFFICES ASSUME LedgerInv, LedgerInv', [Next]_vars PROVE [Ledger!Next]_LedgerTable
  OBVIOUS
<1>1. ASSUME NEW p \in Handlers, Request(p) PROVE UNCHANGED <<att, answers, idem>>
  BY <1>1 DEF Request, AdmitRead, RetryRead, CancelRequest, ForkRead, db
<1>2. ASSUME NEW p \in Handlers, Serve(p) PROVE [Ledger!Next]_LedgerTable
  <2>1. CASE AdmitCommit(p) \/ RetryCommit(p)
    BY <2>1, AdmissionMove
  <2>2. CASE CompleteCommit(p) \/ CancelCommit(p)
    BY <2>2, EndMove
  <2>3. CASE AdmitFails(p) \/ Ack(p) \/ Dispatch(p) \/ CompleteRead(p) \/ CancelRead(p)
             \/ ForkFull(p) \/ Title(p) \/ Signal(p) \/ ForkCommit(p)
    <3>1. UNCHANGED <<att, answers, idem>>
      BY <2>3 DEF AdmitFails, Ack, Dispatch, CompleteRead, CancelRead, ForkFull, Title, Signal,
                  ForkCommit, db
    <3> QED
      BY <3>1, LedgerStutter
  <2> QED
    BY <1>2, <2>1, <2>2, <2>3 DEF Serve
<1>3. ASSUME NEW p \in Handlers, Interrupted(p) PROVE UNCHANGED <<att, answers, idem>>
  BY <1>3 DEF Interrupted, db
<1>4. ASSUME NEW s \in Sessions, DeleteTree(s) PROVE UNCHANGED <<att, answers, idem>>
  BY <1>4 DEF DeleteTree
<1>5. CASE EraseOwner
  BY <1>5, EraseMove
<1>6. CASE Crash \/ UNCHANGED vars
  BY <1>6, LedgerStutter DEF Crash, db, vars
<1> QED
  BY <1>1, <1>2, <1>3, <1>4, <1>5, <1>6, LedgerStutter DEF Next

\* The conversation tables implement RequestLedger, for any number of requests,
\* sessions and handlers: an id is admitted once, answered at most once by
\* complete_attempt, and keeps its answer until delete_remote_data.
THEOREM TablesImplementLedger == Spec => ImplementsLedger
<1>1. Init => LedgerInv
  BY InitLedger
<1>2. LedgerInv /\ [Next]_vars => LedgerInv'
  BY StepLedger
<1>3. Init => Ledger!Init
  BY DEF Init, Ledger!Init, LedgerTable, LedgerState, NoAttempt
<1>4. LedgerInv /\ LedgerInv' /\ [Next]_vars => [Ledger!Next]_LedgerTable
  BY StepMove
<1> QED
  BY <1>1, <1>2, <1>3, <1>4, PTL DEF Spec, ImplementsLedger, Ledger!Spec

-----------------------------------------------------------------------------
(***************************************************************************)
(* TurnsDense.  A turn must not be written over or brought back by a       *)
(* transaction that works from an old view: a turn belongs to the attempt  *)
(* of its own key (Linked), and the turn a handler read for its attempt is *)
(* still that attempt's turn (SeesTurn).                                   *)
(***************************************************************************)
TurnRow == [st : {"none", "queued"} \cup Terminal, sess : Sessions \cup {None}, ord : Nat,
            active : Keys \cup {None}]

Linked ==
  \A k \in Keys :
    /\ turn[k].st # "none" => att[k].st # "none" /\ turn[k].sess \in Sessions
    /\ att[k].st # "none" => att[k].turn \in Keys /\ turn[att[k].turn].st # "none"

SeesTurn ==
  \A p \in Handlers :
    h[p].pc \in {"commit", "markcommit"} /\ att[h[p].key].st # "none" =>
      h[p].saw.att.turn = att[h[p].key].turn

TurnsInv == turn \in [Keys -> TurnRow] /\ Linked /\ SeesTurn /\ TurnsDense

-----------------------------------------------------------------------------
\* The turns, their sessions and their numbers are what they were.
SameTurns ==
  \A t \in Keys : /\ turn'[t].st = "none" <=> turn[t].st = "none"
                  /\ turn'[t].sess = turn[t].sess /\ turn'[t].ord = turn[t].ord

SessionsStay == \A s \in Sessions : Exists(s) => Exists(s)'

LEMMA DenseKept ==
  ASSUME TurnsDense, SameTurns, SessionsStay
  PROVE  TurnsDense'
<1> SUFFICES ASSUME NEW s \in Sessions
             PROVE  /\ {turn'[t].ord : t \in TurnsOf(s)'} = 0 .. Cardinality(TurnsOf(s)') - 1
                    /\ TurnsOf(s)' # {} => Exists(s)'
  BY DEF TurnsDense
<1>1. TurnsOf(s)' = TurnsOf(s) /\ \A t \in TurnsOf(s) : turn'[t].ord = turn[t].ord
  BY DEF SameTurns, TurnsOf
<1>2. /\ {turn[t].ord : t \in TurnsOf(s)} = 0 .. Cardinality(TurnsOf(s)) - 1
      /\ TurnsOf(s) # {} => Exists(s)
  BY DEF TurnsDense
<1>3. {turn'[t].ord : t \in TurnsOf(s)'} = {turn[t].ord : t \in TurnsOf(s)}
  BY <1>1
<1> QED
  BY <1>1, <1>2, <1>3 DEF SessionsStay

LEMMA NumberOfTurns ==
  ASSUME NEW s
  PROVE  IsFiniteSet(TurnsOf(s)) /\ Cardinality(TurnsOf(s)) \in Nat
<1>1. TurnsOf(s) \in SUBSET Keys
  BY DEF TurnsOf
<1>2. IsFiniteSet(Keys)
  BY KeysAssumption
<1>3. IsFiniteSet(TurnsOf(s))
  BY <1>1, <1>2, FS_Subset
<1> QED
  BY <1>3, FS_CardinalityType

\* The next ordinal of a dense session is the number of its turns.
LEMMA NextIsCount ==
  ASSUME TurnsDense, NEW s \in Sessions
  PROVE  NextOrdinal(s) = Cardinality(TurnsOf(s))
<1> DEFINE n == Cardinality(TurnsOf(s))
           O == {turn[t].ord : t \in TurnsOf(s)}
<1>1. n \in Nat /\ (n = 0 <=> TurnsOf(s) = {})
  BY NumberOfTurns, FS_EmptySet
<1>2. O = 0 .. n - 1
  BY DEF TurnsDense
<1>3. CASE TurnsOf(s) = {}
  BY <1>1, <1>3 DEF NextOrdinal
<1>4. CASE TurnsOf(s) # {}
  <2>1. NextOrdinal(s) = 1 + Max(O)
    BY <1>4 DEF NextOrdinal
  <2> HIDE DEF n, O
  <2>2. n - 1 \in O /\ \A y \in O : y \in Int /\ n - 1 >= y
    BY <1>1, <1>2, <1>4
  <2>3. Max(O) \in O /\ \A y \in O : Max(O) >= y
    BY <2>2 DEF Max
  <2>4. Max(O) = n - 1
    BY <1>1, <2>2, <2>3
  <2> QED
    BY <1>1, <2>1, <2>4 DEF n
<1> QED
  BY <1>3, <1>4

\* A turn added with the next ordinal leaves its session dense, and no other changes.
LEMMA DenseGrows ==
  ASSUME TurnsDense, turn \in [Keys -> TurnRow], NEW s \in Sessions, Exists(s), SessionsStay,
         NEW k \in Keys, turn[k].st = "none",
         turn' = [turn EXCEPT ![k] = [st |-> "queued", sess |-> s, ord |-> NextOrdinal(s), active |-> k]]
  PROVE  TurnsDense'
<1>1. /\ turn'[k] = [st |-> "queued", sess |-> s, ord |-> NextOrdinal(s), active |-> k]
      /\ \A t \in Keys \ {k} : turn'[t] = turn[t]
  OBVIOUS
<1>2. turn'[k].st = "queued" /\ turn'[k].sess = s /\ turn'[k].ord = NextOrdinal(s)
  BY <1>1
<1>3. ASSUME NEW x \in Sessions, x # s
      PROVE  /\ {turn'[t].ord : t \in TurnsOf(x)'} = 0 .. Cardinality(TurnsOf(x)') - 1
             /\ TurnsOf(x)' # {} => Exists(x)'
  <2>1. TurnsOf(x)' = TurnsOf(x) /\ \A t \in TurnsOf(x) : turn'[t] = turn[t]
    BY <1>1, <1>2, <1>3 DEF TurnsOf
  <2>2. {turn'[t].ord : t \in TurnsOf(x)'} = {turn[t].ord : t \in TurnsOf(x)}
    BY <2>1
  <2> QED
    BY <2>1, <2>2 DEF TurnsDense, SessionsStay
<1>4. /\ {turn'[t].ord : t \in TurnsOf(s)'} = 0 .. Cardinality(TurnsOf(s)') - 1
      /\ Exists(s)'
  <2> DEFINE T == TurnsOf(s)
             n == Cardinality(T)
  <2>1. TurnsOf(s)' = T \cup {k} /\ k \notin T /\ \A t \in T : turn'[t] = turn[t]
    BY <1>1, <1>2 DEF TurnsOf
  <2>2. IsFiniteSet(T) /\ n \in Nat
    BY NumberOfTurns
  <2>3. NextOrdinal(s) = n /\ {turn[t].ord : t \in T} = 0 .. n - 1
    BY NextIsCount DEF TurnsDense
  <2> HIDE DEF T
  <2>4. Cardinality(T \cup {k}) = n + 1
    BY <2>1, <2>2, FS_AddElement
  <2>5. {turn'[t].ord : t \in T \cup {k}} = {turn[t].ord : t \in T} \cup {n}
    BY <1>2, <2>1, <2>3
  <2>6. (0 .. n - 1) \cup {n} = 0 .. (n + 1) - 1
    BY <2>2
  <2> HIDE DEF n
  <2> QED
    BY <2>1, <2>3, <2>4, <2>5, <2>6 DEF SessionsStay
<1> QED
  BY <1>3, <1>4 DEF TurnsDense

-----------------------------------------------------------------------------
\* A view a handler has after a step is one it had, or one of the rows of now.
ViewsFrom ==
  \A p \in Handlers :
    h'[p].pc \in {"commit", "markcommit"} =>
      /\ h'[p].key \in Keys
      /\ \/ h[p].pc \in {"commit", "markcommit"} /\ h'[p].key = h[p].key /\ h'[p].saw = h[p].saw
         \/ h'[p].saw = View(h'[p].key) /\ att[h'[p].key].st # "none"

LEMMA ViewOfOne ==
  ASSUME LedgerInv, NEW p \in Handlers, NEW r, h' = [h EXCEPT ![p] = r],
         r.pc \in {"commit", "markcommit"} =>
           r.key \in Keys /\ r.saw = View(r.key) /\ att[r.key].st # "none"
  PROVE  ViewsFrom
<1>1. h'[p] = r /\ \A q \in Handlers \ {p} : h'[q] = h[q]
  BY DEF LedgerInv, HandlersShape
<1>2. \A q \in Handlers : h[q].pc \in {"commit", "markcommit"} => h[q].key \in Keys
  BY DEF LedgerInv, HandlersMean, Means
<1> QED
  BY <1>1, <1>2 DEF ViewsFrom

LEMMA ViewDone ==
  ASSUME LedgerInv, NEW p \in Handlers, Done(p)
  PROVE  ViewsFrom
BY ViewOfOne DEF Done, Idle

LEMMA ViewGoto ==
  ASSUME LedgerInv, NEW p \in Handlers, NEW pc \in {"ack", "dispatch", "mark", "signal"}, Goto(p, pc)
  PROVE  ViewsFrom
<1> DEFINE r == [Idle EXCEPT !.pc = pc, !.key = h[p].key]
<1>1. r.pc = pc /\ h' = [h EXCEPT ![p] = r]
  BY DEF Idle, Goto
<1> HIDE DEF r
<1> QED
  BY <1>1, ViewOfOne

LEMMA ViewRequest ==
  ASSUME LedgerInv, NEW p \in Handlers, Request(p)
  PROVE  ViewsFrom
<1>1. \/ \E k \in Keys :
            \/ \E s \in Sessions : AdmitRead(p, k, s)
            \/ \E t \in Keys : RetryRead(p, k, t)
            \/ CancelRequest(p, k)
      \/ \E s \in Sessions, t \in SourceTurns : ForkRead(p, s, t)
  BY DEF Request
<1>2. ASSUME NEW k \in Keys, CancelRequest(p, k) PROVE ViewsFrom
  <2> DEFINE r == [Idle EXCEPT !.pc = "markcommit", !.op = "cancel", !.key = k, !.saw = View(k)]
  <2>1. r.key = k /\ r.saw = View(k)
    BY DEF Idle
  <2>2. h' = [h EXCEPT ![p] = r] /\ att[k].st # "none"
    BY <1>2 DEF CancelRequest, Begin
  <2> HIDE DEF r
  <2> QED
    BY <2>1, <2>2, ViewOfOne
<1>3. ASSUME NEW k \in Keys, NEW s \in Sessions, AdmitRead(p, k, s) PROVE ViewsFrom
  <2> DEFINE r == [Idle EXCEPT !.pc = "insert", !.op = "turn", !.key = k, !.target = s,
                               !.saw.rev = sess[s].rev]
  <2>1. r.pc = "insert" /\ h' = [h EXCEPT ![p] = r]
    BY <1>3 DEF Idle, AdmitRead, Begin
  <2> HIDE DEF r
  <2> QED
    BY <2>1, ViewOfOne
<1>4. ASSUME NEW k \in Keys, NEW t \in Keys, RetryRead(p, k, t) PROVE ViewsFrom
  <2> DEFINE r == [Idle EXCEPT !.pc = "insert", !.op = "retry", !.key = k, !.target = t,
                               !.saw.turn = turn[t]]
  <2>1. r.pc = "insert" /\ h' = [h EXCEPT ![p] = r]
    BY <1>4 DEF Idle, RetryRead, Begin
  <2> HIDE DEF r
  <2> QED
    BY <2>1, ViewOfOne
<1>5. ASSUME NEW s \in Sessions, NEW t \in SourceTurns, ForkRead(p, s, t) PROVE ViewsFrom
  <2> DEFINE r == [Idle EXCEPT !.pc = "forkinsert", !.op = "fork",
                               !.target = [src |-> <<s, t>>, root |-> sess[s].root]]
  <2>1. r.pc = "forkinsert" /\ h' = [h EXCEPT ![p] = r]
    BY <1>5 DEF Idle, ForkRead, Begin
  <2> HIDE DEF r
  <2> QED
    BY <2>1, ViewOfOne
<1> QED
  BY <1>1, <1>2, <1>3, <1>4, <1>5

LEMMA ViewServe ==
  ASSUME LedgerInv, NEW p \in Handlers, Serve(p) \/ Interrupted(p)
  PROVE  ViewsFrom
<1>1. IsRequest(h[p]) /\ (h[p].pc \notin {"idle", "forkinsert"} => h[p].key \in Keys)
  BY DEF LedgerInv, HandlersShape, HandlersMean, Means
<1>2. CASE \/ Done(p)
           \/ \E pc \in {"ack", "dispatch", "mark", "signal"} : Goto(p, pc)
  BY <1>2, ViewDone, ViewGoto
<1>3. CASE AdmitCommit(p) \/ RetryCommit(p) \/ AdmitFails(p) \/ Ack(p) \/ Title(p) \/ CancelCommit(p)
           \/ ForkCommit(p) \/ ForkFull(p) \/ Interrupted(p)
  <2>1. CASE AdmitCommit(p)
    BY <1>2, <2>1, Zenon DEF AdmitCommit
  <2>2. CASE RetryCommit(p)
    BY <1>2, <2>2, Zenon DEF RetryCommit
  <2>3. CASE CancelCommit(p)
    BY <1>2, <2>3, Zenon DEF CancelCommit
  <2>4. CASE AdmitFails(p) \/ Ack(p) \/ Title(p)
    BY <1>2, <2>4, Zenon DEF AdmitFails, Ack, Title
  <2>5. CASE ForkCommit(p) \/ ForkFull(p) \/ Interrupted(p)
    BY <1>2, <2>5, Zenon DEF ForkCommit, ForkFull, Interrupted
  <2> QED
    BY <1>3, <2>1, <2>2, <2>3, <2>4, <2>5
<1>4. ASSUME Dispatch(p), NEW o \in Outcomes, h' = [h EXCEPT ![p].pc = "complete", ![p].out = o]
      PROVE  ViewsFrom
  <2> DEFINE r == [h[p] EXCEPT !.pc = "complete", !.out = o]
  <2>1. r.pc = "complete"
    BY <1>1 DEF IsRequest
  <2>2. h' = [h EXCEPT ![p] = r]
    BY <1>4 DEF LedgerInv, HandlersShape
  <2> HIDE DEF r
  <2> QED
    BY <2>1, <2>2, ViewOfOne
<1>5. ASSUME NEW pc \in {"commit", "markcommit"}, h[p].pc \in {"complete", "mark"}, att[h[p].key].st # "none",
             h' = [h EXCEPT ![p].pc = pc, ![p].saw = View(h[p].key)]
      PROVE  ViewsFrom
  <2> DEFINE r == [h[p] EXCEPT !.pc = pc, !.saw = View(h[p].key)]
  <2>1. r.key = h[p].key /\ r.saw = View(h[p].key)
    BY <1>1 DEF IsRequest
  <2>2. h' = [h EXCEPT ![p] = r]
    BY <1>5 DEF LedgerInv, HandlersShape
  <2> HIDE DEF r
  <2> QED
    BY <1>1, <1>5, <2>1, <2>2, ViewOfOne
<1>6. ASSUME NEW saw, h' = [h EXCEPT ![p].pc = "title", ![p].saw = saw]
      PROVE  ViewsFrom
  <2> DEFINE r == [h[p] EXCEPT !.pc = "title", !.saw = saw]
  <2>1. r.pc = "title"
    BY <1>1 DEF IsRequest
  <2>2. h' = [h EXCEPT ![p] = r]
    BY <1>6 DEF LedgerInv, HandlersShape
  <2> HIDE DEF r
  <2> QED
    BY <2>1, <2>2, ViewOfOne
<1>7. CASE Dispatch(p)
  BY <1>2, <1>4, <1>7 DEF Dispatch
<1>8. CASE CompleteRead(p) \/ CancelRead(p)
  BY <1>2, <1>5, <1>8 DEF CompleteRead, CancelRead
<1>9. CASE CompleteCommit(p)
  BY <1>2, <1>6, <1>9 DEF CompleteCommit
<1>10. CASE Signal(p)
  <2>1. \A q \in Handlers : h'[q] = h[q] \/ h'[q].pc \in {"idle", "mark"}
    <3>1. Idle.pc = "idle" /\ \A k : [Idle EXCEPT !.pc = "mark", !.key = k].pc = "mark"
      BY DEF Idle
    <3> QED
      BY <1>10, <3>1 DEF Signal
  <2>2. \A q \in Handlers : h[q].pc \in {"commit", "markcommit"} => h[q].key \in Keys
    BY DEF LedgerInv, HandlersMean, Means
  <2> QED
    BY <2>1, <2>2 DEF ViewsFrom
<1> QED
  BY <1>3, <1>7, <1>8, <1>9, <1>10 DEF Serve

-----------------------------------------------------------------------------
\* Turns and attempts that stay, and new ones of an owner who is still there.
RowsGrow ==
  /\ \A t \in Keys :
       /\ turn[t].st # "none" => turn'[t].st # "none" /\ turn'[t].sess = turn[t].sess
       /\ turn[t].st = "none" /\ turn'[t].st # "none" => att'[t].st # "none" /\ turn'[t].sess \in Sessions
  /\ \A k \in Keys :
       /\ att[k].st # "none" => att'[k].st # "none" /\ att'[k].turn = att[k].turn
       /\ att[k].st = "none" /\ att'[k].st # "none" =>
            owner = "active" /\ att'[k].turn \in Keys /\ turn'[att'[k].turn].st # "none"

LEMMA LinksStep ==
  ASSUME LedgerInv, TurnsInv, ViewsFrom, RowsGrow
  PROVE  Linked' /\ SeesTurn'
<1>1. Linked'
  BY DEF TurnsInv, Linked, RowsGrow
<1>2. SeesTurn'
  <2> SUFFICES ASSUME NEW p \in Handlers, h'[p].pc \in {"commit", "markcommit"},
                      att'[h'[p].key].st # "none"
               PROVE  h'[p].saw.att.turn = att'[h'[p].key].turn
    BY DEF SeesTurn
  <2> DEFINE k == h'[p].key
  <2>1. k \in Keys
    BY DEF ViewsFrom
  <2>2. CASE h'[p].saw = View(k) /\ att[k].st # "none"
    BY <2>1, <2>2 DEF View, RowsGrow
  <2>3. CASE h[p].pc \in {"commit", "markcommit"} /\ k = h[p].key /\ h'[p].saw = h[p].saw
    <3>1. att[k].st = "none" => owner = "revoked"
      BY <2>3 DEF LedgerInv, HandlersMean, Means, Sees
    <3>2. att[k].st # "none"
      BY <2>1, <3>1 DEF RowsGrow
    <3>3. h[p].saw.att.turn = att[k].turn
      BY <2>3, <3>2 DEF TurnsInv, SeesTurn
    <3> QED
      BY <2>1, <2>3, <3>2, <3>3 DEF RowsGrow
  <2> QED
    BY <2>2, <2>3 DEF ViewsFrom
<1> QED
  BY <1>1, <1>2

\* Steps that write neither turns nor attempts.
LEMMA NoRowStep ==
  ASSUME LedgerInv, TurnsInv, UNCHANGED <<turn, att>>, SessionsStay, ViewsFrom
  PROVE  TurnsInv'
<1>1. TurnsDense'
  BY DenseKept DEF TurnsInv, SameTurns
<1>2. Linked' /\ SeesTurn'
  BY LinksStep DEF RowsGrow
<1> QED
  BY <1>1, <1>2 DEF TurnsInv

\* A commit that changes the state of an existing turn and keeps or makes one attempt of it.
LEMMA RowStep ==
  ASSUME LedgerInv, TurnsInv, ViewsFrom, UNCHANGED sess, NEW t \in Keys, turn[t].st # "none",
         NEW st \in {"queued"} \cup Terminal, NEW active \in Keys \cup {None},
         UNCHANGED turn \/ turn' = [turn EXCEPT ![t].st = st, ![t].active = active],
         \A k \in Keys :
           /\ att[k].st # "none" => att'[k].st # "none" /\ att'[k].turn = att[k].turn
           /\ att[k].st = "none" /\ att'[k].st # "none" => owner = "active" /\ att'[k].turn = t
  PROVE  TurnsInv'
<1>1. turn \in [Keys -> TurnRow]
  BY DEF TurnsInv
<1>2. turn' \in [Keys -> TurnRow] /\ SameTurns
  <2> DEFINE r == [turn[t] EXCEPT !.st = st, !.active = active]
  <2>1. CASE UNCHANGED turn
    BY <1>1, <2>1 DEF SameTurns
  <2>2. CASE turn' = [turn EXCEPT ![t].st = st, ![t].active = active]
    <3>1. turn[t] \in TurnRow
      BY <1>1
    <3>2. /\ r \in TurnRow /\ r.st = st /\ r.sess = turn[t].sess /\ r.ord = turn[t].ord
      BY <3>1 DEF TurnRow
    <3>3. turn' = [turn EXCEPT ![t] = r]
      BY <1>1, <2>2
    <3> HIDE DEF r
    <3>4. turn'[t] = r /\ (\A x \in Keys \ {t} : turn'[x] = turn[x]) /\ turn' \in [Keys -> TurnRow]
      BY <1>1, <3>2, <3>3
    <3>5. st # "none"
      BY DEF Terminal
    <3> QED
      BY <3>2, <3>4, <3>5 DEF SameTurns
  <2> QED
    BY <2>1, <2>2
<1>3. SessionsStay
  BY DEF SessionsStay, Exists
<1>4. TurnsDense'
  BY <1>2, <1>3, DenseKept DEF TurnsInv
<1>5. RowsGrow
  <2>1. \A x \in Keys : (turn'[x].st = "none" <=> turn[x].st = "none") /\ turn'[x].sess = turn[x].sess
    BY <1>2 DEF SameTurns
  <2> QED
    BY <2>1 DEF RowsGrow
<1>6. Linked' /\ SeesTurn'
  BY <1>5, LinksStep
<1> QED
  BY <1>2, <1>4, <1>6 DEF TurnsInv

LEMMA AdmitTurns ==
  ASSUME LedgerInv, TurnsInv, NEW p \in Handlers, AdmitCommit(p)
  PROVE  TurnsInv'
<1> DEFINE k == h[p].key
           s == h[p].target
           a == [NoAttempt EXCEPT !.st = "queued", !.turn = k]
           r == [st |-> "queued", sess |-> s, ord |-> NextOrdinal(s), active |-> k]
<1>1. ViewsFrom
  BY ViewServe DEF Serve
<1>2. CASE Taken(k) \/ ~Exists(s)
  <2>1. UNCHANGED db
    BY <1>2 DEF AdmitCommit
  <2>2. SessionsStay
    BY <2>1 DEF db, SessionsStay, Exists
  <2> QED
    BY <1>1, <2>1, <2>2, NoRowStep DEF db
<1>3. CASE ~(Taken(k) \/ ~Exists(s))
  <2>1. /\ turn' = [turn EXCEPT ![k] = r]
        /\ att' = [att EXCEPT ![k] = a]
        /\ sess' = [sess EXCEPT ![s].rev = h[p].saw.rev + 1]
        /\ UNCHANGED owner
    BY <1>3 DEF AdmitCommit, TurnOrdinal
  <2>2. k \in Keys /\ s \in Sessions /\ (owner = "revoked" => sess[s].st = "erased")
    BY DEF AdmitCommit, LedgerInv, HandlersMean, Means, Admits
  <2>3. owner = "active" /\ att[k].st = "none" /\ Exists(s)
    BY <1>3, <2>2 DEF LedgerInv, TablesShape, Exists, Taken
  <2>4. turn[k].st = "none"
    BY <2>2, <2>3 DEF TurnsInv, Linked
  <2>5. SessionsStay
    <3>1. \A x \in Sessions : sess'[x].st = sess[x].st
      BY <2>1, <2>2 DEF LedgerInv, TablesShape
    <3> QED
      BY <3>1 DEF SessionsStay, Exists
  <2>6. TurnsDense'
    BY <2>1, <2>2, <2>3, <2>4, <2>5, DenseGrows DEF TurnsInv
  <2>7. a.st = "queued" /\ a.turn = k /\ r.st = "queued" /\ r.sess = s
    BY DEF NoAttempt
  <2>8. r \in TurnRow
    <3>1. NextOrdinal(s) \in Nat
      BY <2>2, NextIsCount, NumberOfTurns DEF TurnsInv
    <3> QED
      BY <2>2, <3>1 DEF TurnRow
  <2> HIDE DEF a, r
  <2>9. /\ turn' \in [Keys -> TurnRow] /\ turn'[k] = r /\ att'[k] = a
        /\ \A x \in Keys \ {k} : turn'[x] = turn[x] /\ att'[x] = att[x]
    BY <2>1, <2>2, <2>8 DEF TurnsInv, LedgerInv, TablesShape
  <2>10. RowsGrow
    BY <2>2, <2>3, <2>4, <2>7, <2>9 DEF RowsGrow
  <2>11. Linked' /\ SeesTurn'
    BY <1>1, <2>10, LinksStep
  <2> QED
    BY <2>6, <2>9, <2>11 DEF TurnsInv
<1> QED
  BY <1>2, <1>3

LEMMA RetryTurns ==
  ASSUME LedgerInv, TurnsInv, NEW p \in Handlers, RetryCommit(p)
  PROVE  TurnsInv'
<1> DEFINE k == h[p].key
           t == h[p].target
           a == [NoAttempt EXCEPT !.st = "queued", !.turn = t]
           st == Set(turn[t].st, h[p].saw.turn.st, "queued")
<1>1. ViewsFrom
  BY ViewServe DEF Serve
<1>2. CASE Taken(k) \/ turn[t].st = "none"
  <2>1. UNCHANGED db
    BY <1>2 DEF RetryCommit
  <2>2. SessionsStay
    BY <2>1 DEF db, SessionsStay, Exists
  <2> QED
    BY <1>1, <2>1, <2>2, NoRowStep DEF db
<1>3. CASE ~(Taken(k) \/ turn[t].st = "none")
  <2>1. k \in Keys /\ t \in Keys
    BY DEF RetryCommit, LedgerInv, HandlersMean, Means, Admits
  <2>2. turn \in [Keys -> TurnRow] /\ turn[t].st # "none" /\ att[k].st = "none"
    BY <1>3 DEF TurnsInv, Taken
  <2>3. owner = "active"
    BY <2>1, <2>2 DEF LedgerInv, TablesShape, Erased
  <2>4. /\ turn' = [turn EXCEPT ![t].active = k, ![t].st = Set(@, h[p].saw.turn.st, "queued")]
        /\ att' = [att EXCEPT ![k] = a] /\ UNCHANGED sess
    BY <1>3 DEF RetryCommit
  <2>5. st \in {"queued"} \cup Terminal
    <3>1. turn[t].st \in {"queued"} \cup Terminal
      BY <2>1, <2>2 DEF TurnRow
    <3> QED
      BY <3>1 DEF Set
  <2>6. turn' = [turn EXCEPT ![t].st = st, ![t].active = k]
    <3>1. turn[t] \in TurnRow
      BY <2>1, <2>2
    <3>2. [turn[t] EXCEPT !.active = k, !.st = st] = [turn[t] EXCEPT !.st = st, !.active = k]
      BY <3>1 DEF TurnRow
    <3>3. turn' = [turn EXCEPT ![t] = [turn[t] EXCEPT !.active = k, !.st = st]]
      BY <2>1, <2>2, <2>4, <3>1 DEF TurnRow
    <3>4. [turn EXCEPT ![t].st = st, ![t].active = k] = [turn EXCEPT ![t] = [turn[t] EXCEPT !.st = st, !.active = k]]
      BY <2>1, <2>2
    <3> QED
      BY <3>2, <3>3, <3>4
  <2>7. a.st = "queued" /\ a.turn = t
    BY DEF NoAttempt
  <2> HIDE DEF a, st
  <2>8. att'[k] = a /\ \A x \in Keys \ {k} : att'[x] = att[x]
    BY <2>1, <2>4 DEF LedgerInv, TablesShape
  <2>9. \A x \in Keys :
          /\ att[x].st # "none" => att'[x].st # "none" /\ att'[x].turn = att[x].turn
          /\ att[x].st = "none" /\ att'[x].st # "none" => owner = "active" /\ att'[x].turn = t
    BY <2>2, <2>3, <2>7, <2>8
  <2>10. k \in Keys \cup {None} /\ turn[t].st # "none" /\ UNCHANGED sess
    BY <2>1, <2>2, <2>4
  <2> HIDE DEF k, t
  <2> QED
    BY <1>1, <2>1, <2>5, <2>6, <2>9, <2>10, RowStep
<1> QED
  BY <1>2, <1>3

LEMMA EndTurns ==
  ASSUME LedgerInv, LedgerInv', TurnsInv, NEW p \in Handlers, CompleteCommit(p) \/ CancelCommit(p)
  PROVE  TurnsInv'
<1> DEFINE k == h[p].key
           saw == h[p].saw
           t == saw.att.turn
<1>1. ViewsFrom
  BY ViewServe DEF Serve
<1>2. k \in Keys /\ h[p].pc \in {"commit", "markcommit"} /\ Means(h[p])
  BY DEF LedgerInv, HandlersMean, Means, CompleteCommit, CancelCommit
<1>3. CASE att[k].st = "none"
  <2>1. UNCHANGED db
    BY <1>3 DEF CompleteCommit, CancelCommit
  <2>2. SessionsStay
    BY <2>1 DEF db, SessionsStay, Exists
  <2> QED
    BY <1>1, <2>1, <2>2, NoRowStep DEF db
<1>4. CASE att[k].st # "none"
  <2>1. t \in Keys /\ turn[t].st # "none"
    <3>1. t = att[k].turn
      BY <1>2, <1>4 DEF TurnsInv, SeesTurn
    <3> QED
      BY <1>2, <1>4, <3>1 DEF TurnsInv, Linked
  <2>2. turn[t] \in TurnRow /\ turn \in [Keys -> TurnRow]
    BY <2>1 DEF TurnsInv
  <2>3. UNCHANGED sess
    BY <1>4, Zenon DEF CompleteCommit, CancelCommit
  <2>4. \E st \in {"queued"} \cup Terminal, active \in Keys \cup {None} :
          UNCHANGED turn \/ turn' = [turn EXCEPT ![t].st = st, ![t].active = active]
    <3> DEFINE active == Set(turn[t].active, saw.turn.active, None)
    <3>1. active \in Keys \cup {None}
      BY <2>2 DEF Set, TurnRow
    <3>2. CASE CompleteCommit(p)
      <4> DEFINE v == Verdict(saw, h[p].out)
                 st == Set(turn[t].st, saw.turn.st, v)
      <4>1. v \in Terminal
        BY <1>2, <3>2 DEF CompleteCommit, Means, Streams, Verdict, Outcomes, Terminal
      <4>2. turn[t].st \in {"queued"} \cup Terminal
        BY <2>1, <2>2 DEF TurnRow
      <4>3. st \in {"queued"} \cup Terminal
        BY <4>1, <4>2 DEF Set
      <4>4. UNCHANGED turn \/ turn' = [turn EXCEPT ![t].st = Set(@, saw.turn.st, v),
                                                  ![t].active = Set(@, saw.turn.active, None)]
        BY <1>4, <3>2, Zenon DEF CompleteCommit
      <4>5. [turn EXCEPT ![t].st = Set(@, saw.turn.st, v), ![t].active = Set(@, saw.turn.active, None)]
              = [turn EXCEPT ![t].st = st, ![t].active = active]
        BY <2>1, <2>2 DEF TurnRow
      <4> HIDE DEF v, st, active
      <4> QED
        BY <3>1, <4>3, <4>4, <4>5
    <3>3. CASE CancelCommit(p)
      <4>1. UNCHANGED turn \/ turn' = [turn EXCEPT ![t].st = "interrupted",
                                                  ![t].active = Set(@, saw.turn.active, None)]
        BY <1>4, <3>3, Zenon DEF CancelCommit
      <4>2. [turn EXCEPT ![t].st = "interrupted", ![t].active = Set(@, saw.turn.active, None)]
              = [turn EXCEPT ![t].st = "interrupted", ![t].active = active]
        BY <2>1, <2>2 DEF TurnRow
      <4> HIDE DEF active
      <4> QED
        BY <3>1, <4>1, <4>2 DEF Terminal
    <3> QED
      BY <3>2, <3>3
  <2>5. \A x \in Keys :
          /\ att[x].st # "none" => att'[x].st # "none" /\ att'[x].turn = att[x].turn
          /\ att[x].st = "none" => att'[x].st = "none"
    <3>1. att[k] \in Attempt /\ att \in [Keys -> Attempt]
      BY <1>2 DEF LedgerInv, TablesShape
    <3>2. att'[k].turn = att[k].turn /\ \A x \in Keys \ {k} : att'[x] = att[x]
      <4>1. CASE CompleteCommit(p)
        <5> DEFINE a == [att[k] EXCEPT !.st = Set(@, saw.att.st, Verdict(saw, h[p].out))]
        <5>1. att' = [att EXCEPT ![k] = a]
          BY <1>2, <1>4, <3>1, <4>1 DEF CompleteCommit
        <5>2. a.turn = att[k].turn
          BY <3>1 DEF Attempt
        <5> HIDE DEF a
        <5> QED
          BY <1>2, <3>1, <5>1, <5>2
      <4>2. CASE CancelCommit(p)
        <5> DEFINE a == [att[k] EXCEPT !.st = Cancelled(@, saw), !.cancel = TRUE]
        <5>1. att' = [att EXCEPT ![k] = a]
          BY <1>2, <1>4, <3>1, <4>2 DEF CancelCommit
        <5>2. a.turn = att[k].turn
          BY <3>1 DEF Attempt
        <5> HIDE DEF a
        <5> QED
          BY <1>2, <3>1, <5>1, <5>2
      <4> QED
        BY <4>1, <4>2
    <3>3. att'[k].st # "none"
      <4>1. idem'[k].st = "completed"
        <5>1. FinishIdempotency(k)
          BY <1>4, Zenon DEF CompleteCommit, CancelCommit
        <5>2. idem \in [Keys -> [st : {"none", "running", "completed"}, scope : Scopes]]
          BY DEF LedgerInv, TablesShape
        <5> HIDE DEF k
        <5> QED
          BY <1>2, <5>1, <5>2 DEF FinishIdempotency
      <4>2. att'[k].st \in Terminal
        BY <1>2, <4>1 DEF LedgerInv, RecordFollowsAttempt
      <4> QED
        BY <4>2 DEF Terminal
    <3> QED
      BY <1>4, <3>2, <3>3
  <2> QED
    BY <1>1, <2>1, <2>3, <2>4, <2>5, RowStep
<1> QED
  BY <1>3, <1>4

LEMMA SessionTurns ==
  ASSUME LedgerInv, TurnsInv, NEW p \in Handlers, Title(p) \/ ForkCommit(p)
  PROVE  TurnsInv'
<1>1. ViewsFrom
  BY ViewServe DEF Serve
<1>2. SessionsStay
  <2>1. CASE Title(p)
    <3>1. sess' = sess \/ \E s : sess' = [sess EXCEPT ![s].titled = TRUE]
      BY <2>1 DEF Title, set_initial_session_title
    <3>2. \A s \in Sessions : sess'[s].st = sess[s].st
      <4>1. /\ sess = [x \in Sessions |-> sess[x]]
            /\ \A x \in Sessions :
                 sess[x] \in [st : {"none", "live", "deleted", "erased"}, rev : {sess[x].rev},
                              src : {sess[x].src}, root : {sess[x].root}, titled : BOOLEAN]
        BY DEF LedgerInv, TablesShape
      <4>2. ASSUME NEW s, sess' = [sess EXCEPT ![s].titled = TRUE], NEW x \in Sessions
            PROVE  sess'[x].st = sess[x].st
        <5>1. x # s => sess'[x] = sess[x]
          BY <4>1, <4>2
        <5>2. x = s => sess'[x] = [sess[x] EXCEPT !.titled = TRUE]
          BY <4>1, <4>2
        <5>3. [sess[x] EXCEPT !.titled = TRUE].st = sess[x].st
          BY <4>1
        <5> QED
          BY <5>1, <5>2, <5>3
      <4> QED
        BY <3>1, <4>2
    <3> QED
      BY <3>2 DEF SessionsStay, Exists
  <2>2. CASE ForkCommit(p)
    BY <2>2 DEF ForkCommit, LedgerInv, TablesShape, SessionsStay, Exists
  <2> QED
    BY <2>1, <2>2
<1> QED
  BY <1>1, <1>2, NoRowStep DEF Title, ForkCommit

LEMMA EraseTurns ==
  ASSUME LedgerInv, TurnsInv, EraseOwner
  PROVE  TurnsInv'
<1>1. /\ turn' = [k \in Keys |-> NoTurn] /\ att' = [k \in Keys |-> NoAttempt]
      /\ NoTurn.st = "none" /\ NoAttempt.st = "none" /\ NoTurn \in TurnRow
  BY DEF EraseOwner, NoTurn, NoAttempt, TurnRow
<1>2. \A s \in Sessions : TurnsOf(s)' = {}
  BY <1>1 DEF TurnsOf
<1>3. TurnsDense'
  <2>1. Cardinality({}) = 0 /\ 0 .. (0 - 1) = {}
    BY FS_EmptySet
  <2> QED
    BY <1>2, <2>1 DEF TurnsDense
<1>4. SeesTurn'
  <2>1. UNCHANGED h /\ \A p \in Handlers : h[p].pc \in {"commit", "markcommit"} => h[p].key \in Keys
    BY DEF EraseOwner, LedgerInv, HandlersMean, Means
  <2> QED
    BY <1>1, <2>1 DEF SeesTurn
<1> QED
  BY <1>1, <1>3, <1>4 DEF TurnsInv, Linked

LEMMA InitTurns == Init => TurnsInv
<1> SUFFICES ASSUME Init PROVE TurnsInv
  OBVIOUS
<1>1. /\ turn = [k \in Keys |-> NoTurn] /\ att = [k \in Keys |-> NoAttempt]
      /\ NoTurn.st = "none" /\ NoAttempt.st = "none" /\ NoTurn \in TurnRow
  BY DEF Init, NoTurn, NoAttempt, TurnRow
<1>2. \A s \in Sessions : TurnsOf(s) = {}
  BY <1>1 DEF TurnsOf
<1>3. TurnsDense
  <2>1. Cardinality({}) = 0 /\ 0 .. (0 - 1) = {}
    BY FS_EmptySet
  <2> QED
    BY <1>2, <2>1 DEF TurnsDense
<1>4. SeesTurn
  BY DEF Init, SeesTurn, Idle
<1> QED
  BY <1>1, <1>3, <1>4 DEF TurnsInv, Linked

LEMMA StepTurns == LedgerInv /\ LedgerInv' /\ TurnsInv /\ [Next]_vars => TurnsInv'
<1> SUFFICES ASSUME LedgerInv, LedgerInv', TurnsInv, [Next]_vars PROVE TurnsInv'
  OBVIOUS
<1>1. ASSUME UNCHANGED db, ViewsFrom PROVE TurnsInv'
  <2>1. SessionsStay
    BY <1>1 DEF db, SessionsStay, Exists
  <2> QED
    BY <1>1, <2>1, NoRowStep DEF db
<1>2. ASSUME NEW p \in Handlers, Request(p) PROVE TurnsInv'
  <2>1. UNCHANGED db
    BY <1>2 DEF Request, AdmitRead, RetryRead, CancelRequest, ForkRead
  <2> QED
    BY <1>1, <1>2, <2>1, ViewRequest
<1>3. ASSUME NEW p \in Handlers, Serve(p) \/ Interrupted(p) PROVE TurnsInv'
  <2>1. CASE AdmitCommit(p)
    BY <2>1, AdmitTurns
  <2>2. CASE RetryCommit(p)
    BY <2>2, RetryTurns
  <2>3. CASE CompleteCommit(p) \/ CancelCommit(p)
    BY <2>3, EndTurns
  <2>4. CASE Title(p) \/ ForkCommit(p)
    BY <2>4, SessionTurns
  <2>5. CASE AdmitFails(p) \/ Ack(p) \/ Dispatch(p) \/ CompleteRead(p) \/ CancelRead(p)
             \/ ForkFull(p) \/ Signal(p) \/ Interrupted(p)
    <3>1. UNCHANGED db
      BY <2>5 DEF AdmitFails, Ack, Dispatch, CompleteRead, CancelRead, ForkFull, Signal, Interrupted
    <3> QED
      BY <1>1, <1>3, <3>1, ViewServe
  <2> QED
    BY <1>3, <2>1, <2>2, <2>3, <2>4, <2>5 DEF Serve
<1>4. ASSUME UNCHANGED h PROVE ViewsFrom
  BY <1>4 DEF ViewsFrom, LedgerInv, HandlersMean, Means
<1>5. ASSUME NEW s \in Sessions, DeleteTree(s) PROVE TurnsInv'
  <2>1. SessionsStay
    <3>1. \A x \in Sessions : sess'[x] = sess[x] \/ sess'[x].st = "deleted"
      <4> SUFFICES ASSUME NEW x \in Sessions PROVE sess'[x] = sess[x] \/ sess'[x].st = "deleted"
        OBVIOUS
      <4>1. sess[x] \in [st : {"none", "live", "deleted", "erased"}, rev : {sess[x].rev},
                         src : {sess[x].src}, root : {sess[x].root}, titled : BOOLEAN]
        BY DEF LedgerInv, TablesShape
      <4>2. sess'[x] = sess[x] \/ sess'[x] = [sess[x] EXCEPT !.st = "deleted", !.rev = @ + 1]
        BY <1>5 DEF DeleteTree
      <4>3. [sess[x] EXCEPT !.st = "deleted", !.rev = @ + 1].st = "deleted"
        BY <4>1
      <4> QED
        BY <4>2, <4>3
    <3> QED
      BY <3>1 DEF SessionsStay, Exists
  <2>2. UNCHANGED <<turn, att, h>>
    BY <1>5 DEF DeleteTree
  <2> QED
    BY <1>4, <2>1, <2>2, NoRowStep
<1>6. CASE EraseOwner
  BY <1>6, EraseTurns
<1>7. CASE Crash
  <2>1. ViewsFrom
    BY <1>7 DEF Crash, ViewsFrom, Idle
  <2> QED
    BY <1>1, <1>7, <2>1 DEF Crash
<1>8. CASE UNCHANGED vars
  BY <1>1, <1>4, <1>8 DEF vars, db
<1> QED
  BY <1>2, <1>3, <1>5, <1>6, <1>7, <1>8 DEF Next

\* The turns of every session are numbered without a gap or a repeat (uq_turn_ordinal) and
\* none outlives its owner's data, for any number of requests, sessions and handlers.
THEOREM TurnsDenseAlways == Spec => []TurnsDense
<1>1. Init => LedgerInv /\ TurnsInv
  BY InitLedger, InitTurns
<1>2. LedgerInv /\ TurnsInv /\ [Next]_vars => (LedgerInv /\ TurnsInv)'
  BY StepLedger, StepTurns
<1>3. TurnsInv => TurnsDense
  BY DEF TurnsInv
<1> QED
  BY <1>1, <1>2, <1>3, PTL DEF Spec

-----------------------------------------------------------------------------
(***************************************************************************)
(* Grounded generation.  An answer is given long after its facts were      *)
(* read, so the invariant says of the job in between that its bundle holds *)
(* only facts of the pinned build about professors that build shows        *)
(* (Pinned) and, once trimmed, none with a contact (Trimming).             *)
(***************************************************************************)
Ops == Mentor \cup Contest \cup Labels

\* A claim, and a result on its way through the pipeline.
Reported == [key : Refs, same : BOOLEAN]
Claim == [class : {"fact", "advice", "uncertain"}, refs : SUBSET Reported, idx : SUBSET (Nat \ {0}),
          tone : Tones, context : {"none", "fabricated"}]
Codes == Errors \cup Partial \cup {"uncertain_claim_with_refs", "fabricated_user_context",
                                    "no_probability_claim", "unauthorized_contact"}
Result == [claims : SUBSET Claim, codes : SUBSET Codes, cited : SUBSET Refs, text : Texts]

JobShape ==
    job \in [stage : {"idle", "read", "generate"}, op : Ops \cup {"none"},
             build : Builds \cup {NoBuild}, review : BOOLEAN, todo : Seq(People),
             done : Seq(People), bundle : Seq(Item)]

\* The build shows all of who; the items are facts it holds about them; none has a contact.
Shown(b, who) == \A p \in who : Role[b][p] \in {"included", "review"}

From(b, who, items) ==
    \A i \in DOMAIN items : \E p \in who : \E k \in DOMAIN Facts[b][p] :
        items[i] = Facts[b][p][k]

Uncontactable(items) == \A i \in DOMAIN items : ~items[i].contact

\* What was read so far is about the professors done, from the build pinned at the start.
Pinned ==
    (job.stage # "idle" /\ job.op \in Mentor) =>
        /\ job.build \in Builds
        /\ Shown(job.build, Range(job.done))
        /\ From(job.build, Range(job.done), job.bundle)

Stages ==
    /\ job.stage # "idle" => job.op \in Ops
    /\ job.stage = "read" => job.op \in Mentor /\ job.todo # <<>>

Trimming ==
    (job.stage = "generate" /\ job.op \in Mentor /\ job.op # "detail_followup") =>
        Uncontactable(job.bundle)

GroundedInv ==
    /\ served \in Builds \cup {NoBuild}
    /\ JobShape
    /\ Pinned
    /\ Stages
    /\ Trimming
    /\ AnswersGrounded
    /\ GroundedIsSupported

\* A set of numbers that is not empty has a least one.
LEMMA LeastNumber ==
    ASSUME NEW T, T \subseteq Nat, T # {}
    PROVE  \E x \in T : \A y \in T : x <= y
<1>1. PICK x \in T : \A y \in T : ~(<<y, x>> \in OpToRel(<, Nat))
  BY WFMin, NatLessThanWellFounded
<1>2. \A y \in T : ~(y < x)
  BY <1>1 DEF OpToRel
<1>. QED
  BY <1>2

\* g computes the first m steps of Kept(s, I).
Taking(s, I, m, g) ==
    g = [n \in 0..m |-> IF n = 0 THEN <<>>
                        ELSE IF n \in I THEN Append(g[n-1], s[n]) ELSE g[n-1]]

\* There is such a function: one for m - 1 steps is extended by the last one.
LEMMA TakingExists ==
    ASSUME NEW s, NEW I, NEW m \in Nat
    PROVE  \E g : Taking(s, I, m, g)
<1>. DEFINE T == {n \in Nat : ~\E g : Taking(s, I, n, g)}
<1>1. SUFFICES ASSUME T # {} PROVE FALSE
  OBVIOUS
<1>2. PICK n \in T : \A y \in T : n <= y
  BY <1>1, LeastNumber
<1>. HIDE DEF T
<1>3. n \in Nat /\ ~\E g : Taking(s, I, n, g)
  BY <1>2 DEF T
<1>4. n # 0
  <2>1. SUFFICES ASSUME n = 0 PROVE \E g : Taking(s, I, n, g)
    BY <1>3
  <2>2. Taking(s, I, n, [k \in 0..0 |-> <<>>])
    BY <2>1 DEF Taking
  <2>. QED
    BY <2>2
<1>5. n - 1 \in Nat /\ n - 1 \notin T
  BY <1>2, <1>3, <1>4
<1>6. PICK g : Taking(s, I, n - 1, g)
  BY <1>5 DEF T
<1>. DEFINE longer == [k \in 0..n |->
                         IF k = n THEN IF n \in I THEN Append(g[n-1], s[n]) ELSE g[n-1]
                         ELSE g[k]]
<1>7. Taking(s, I, n, longer)
  <2>1. \A k \in 0..(n - 1) : longer[k] = g[k]
    BY <1>3
  <2>2. \A k \in 0..(n - 1) : g[k] = IF k = 0 THEN <<>>
                        ELSE IF k \in I THEN Append(g[k-1], s[k]) ELSE g[k-1]
    BY <1>3, <1>6, Zenon DEF Taking
  <2>3. \A k \in 0..n : longer[k] = IF k = 0 THEN <<>>
                        ELSE IF k \in I THEN Append(longer[k-1], s[k]) ELSE longer[k-1]
    <3>. SUFFICES ASSUME NEW k \in 0..n
                  PROVE  longer[k] = IF k = 0 THEN <<>>
                                ELSE IF k \in I THEN Append(longer[k-1], s[k]) ELSE longer[k-1]
      OBVIOUS
    <3>1. CASE k = n
      <4>1. n - 1 \in 0..(n - 1)
        BY <1>5
      <4>2. longer[n - 1] = g[n - 1]
        BY <2>1, <4>1
      <4>3. longer[n] = IF n \in I THEN Append(g[n-1], s[n]) ELSE g[n-1]
        BY <1>3
      <4>. QED
        BY <3>1, <4>2, <4>3, <1>4
    <3>2. CASE k # n
      <4>1. k \in 0..(n - 1) /\ (k # 0 => k - 1 \in 0..(n - 1))
        BY <1>3, <3>2
      <4>2. longer[k] = g[k] /\ (k # 0 => longer[k - 1] = g[k - 1])
        BY <2>1, <4>1
      <4>. QED
        BY <2>2, <4>1, <4>2
    <3>. QED
      BY <3>1, <3>2
  <2>4. longer = [k \in 0..n |-> longer[k]]
    OBVIOUS
  <2>. HIDE DEF longer
  <2>. QED
    BY <2>3, <2>4, Zenon DEF Taking
<1>. QED
  BY <1>3, <1>7

\* Kept(s, I) holds elements of s at positions in I: the first prefix of which it would not
\* be true cannot be the empty one, nor one that adds an element to a good prefix.
LEMMA KeptElements ==
    ASSUME NEW S, NEW s \in Seq(S), NEW I
    PROVE  /\ Kept(s, I) \in Seq(S)
           /\ \A k \in DOMAIN Kept(s, I) : \E i \in I \cap DOMAIN s : Kept(s, I)[k] = s[i]
<1>. DEFINE take == CHOOSE g : Taking(s, I, Len(s), g)
<1>1. Kept(s, I) = take[Len(s)]
  BY DEF Kept, Taking
<1>2. Len(s) \in Nat
  OBVIOUS
<1>3. Taking(s, I, Len(s), take)
  BY <1>2, TakingExists
<1>. HIDE DEF take
<1>4. \A n \in 0..Len(s) : take[n] = IF n = 0 THEN <<>>
                        ELSE IF n \in I THEN Append(take[n-1], s[n]) ELSE take[n-1]
  BY <1>3, Zenon DEF Taking
<1>. DEFINE Good(q) == /\ q \in Seq(S)
                       /\ \A k \in DOMAIN q : \E i \in I \cap DOMAIN s : q[k] = s[i]
            T == {n \in 0..Len(s) : ~Good(take[n])}
<1>5. T = {}
  <2>1. SUFFICES ASSUME T # {} PROVE FALSE
    OBVIOUS
  <2>2. T \subseteq Nat
    BY <1>2
  <2>3. PICK n \in T : \A y \in T : n <= y
    BY <2>1, <2>2, LeastNumber
  <2>4. n \in 0..Len(s) /\ ~Good(take[n])
    OBVIOUS
  <2>5. Good(<<>>)
    OBVIOUS
  <2>6. n # 0
    BY <1>2, <1>4, <2>4, <2>5
  <2>7. n - 1 \in 0..Len(s) /\ n - 1 \notin T
    BY <2>3, <2>4, <2>6, <1>2
  <2>8. Good(take[n - 1])
    BY <2>7
  <2>9. n \in 1..Len(s) /\ n \in DOMAIN s /\ s[n] \in S
    BY <2>4, <2>6, <1>2
  <2>10. CASE n \in I
    <3>. DEFINE q == take[n - 1]
    <3>1. take[n] = Append(q, s[n])
      BY <2>4, <2>6, <2>10, <1>4
    <3>2. q \in Seq(S) /\ \A k \in DOMAIN q : \E i \in I \cap DOMAIN s : q[k] = s[i]
      BY <2>8
    <3>. HIDE DEF q
    <3>3. Append(q, s[n]) \in Seq(S)
      BY <3>2, <2>9
    <3>4. \A k \in DOMAIN Append(q, s[n]) : \E i \in I \cap DOMAIN s : Append(q, s[n])[k] = s[i]
      <4>. SUFFICES ASSUME NEW k \in DOMAIN Append(q, s[n])
                    PROVE  \E i \in I \cap DOMAIN s : Append(q, s[n])[k] = s[i]
        OBVIOUS
      <4>1. k \in 1..Len(q) \/ k = Len(q) + 1
        BY <3>2, <3>3, <2>9
      <4>2. CASE k \in 1..Len(q)
        <5>1. k \in DOMAIN q /\ Append(q, s[n])[k] = q[k]
          BY <4>2, <3>2, <2>9
        <5>. QED
          BY <5>1, <3>2
      <4>3. CASE k = Len(q) + 1
        <5>1. Append(q, s[n])[k] = s[n]
          BY <4>3, <3>2, <2>9
        <5>. QED
          BY <5>1, <2>9, <2>10
      <4>. QED
        BY <4>1, <4>2, <4>3
    <3>5. Good(take[n])
      BY <3>1, <3>3, <3>4
    <3>. QED
      BY <3>5, <2>4
  <2>11. CASE n \notin I
    <3>1. take[n] = take[n - 1]
      BY <2>4, <2>6, <2>11, <1>4
    <3>. QED
      BY <3>1, <2>4, <2>8
  <2>. QED
    BY <2>10, <2>11
<1>6. Good(take[Len(s)])
  BY <1>5, <1>2
<1>. QED
  BY <1>1, <1>6

\* trim hands on items of its input, none of which has a contact.
LEMMA TrimmedElements ==
    ASSUME NEW items \in Seq(Item), NEW hits
    PROVE  /\ Trimmed(items, hits) \in Seq(Item)
           /\ \A k \in DOMAIN Trimmed(items, hits) :
                \E i \in DOMAIN items : Trimmed(items, hits)[k] = items[i] /\ ~items[i].contact
<1>. DEFINE I == {i \in Affordable(items, hits) : ~items[i].contact}
<1>1. Trimmed(items, hits) = Kept(items, I)
  BY DEF Trimmed
<1>2. \A i \in I : ~items[i].contact
  OBVIOUS
<1>. HIDE DEF I
<1>3. /\ Kept(items, I) \in Seq(Item)
      /\ \A k \in DOMAIN Kept(items, I) :
           \E i \in I \cap DOMAIN items : Kept(items, I)[k] = items[i]
  BY KeptElements
<1>. QED
  BY <1>1, <1>2, <1>3, Zenon

\* The bundle of every operation but the follow-up is trimmed.
LEMMA BundleElements ==
    ASSUME NEW op, NEW items \in Seq(Item), NEW hits
    PROVE  /\ Bundle(op, items, hits) \in Seq(Item)
           /\ \A k \in DOMAIN Bundle(op, items, hits) : \E i \in DOMAIN items :
                /\ Bundle(op, items, hits)[k] = items[i]
                /\ op # "detail_followup" => ~items[i].contact
<1>. DEFINE t == Trimmed(items, hits)
<1>1. /\ t \in Seq(Item)
      /\ \A k \in DOMAIN t : \E i \in DOMAIN items : t[k] = items[i] /\ ~items[i].contact
  BY TrimmedElements
<1>2. CASE op = "detail_followup"
  <2>1. Bundle(op, items, hits) = items
    BY <1>2 DEF Bundle
  <2>. QED
    BY <2>1, <1>2, Zenon
<1>3. CASE op = "outreach_email"
  <2>. DEFINE n == IF Len(t) < FactLimit THEN Len(t) ELSE FactLimit
              u == SubSeq(t, 1, n)
  <2>1. Bundle(op, items, hits) = u
    BY <1>3 DEF Bundle, OutreachBundle
  <2>. HIDE DEF t
  <2>2. n \in Nat /\ n <= Len(t) /\ Len(t) \in Nat
    BY <1>1, GroundedAssumption
  <2>. HIDE DEF n
  <2>3. \A i \in 1..n : i \in DOMAIN t /\ t[i] \in Item
    BY <2>2, <1>1
  <2>4. u \in Seq(Item) /\ Len(u) = n /\ \A i \in 1..n : u[i] = t[i]
    BY <2>2, <2>3
  <2>. HIDE DEF u
  <2>5. \A k \in DOMAIN u : k \in DOMAIN t /\ u[k] = t[k]
    BY <2>2, <2>3, <2>4
  <2>6. \A k \in DOMAIN u : \E i \in DOMAIN items : u[k] = items[i] /\ ~items[i].contact
    <3>. SUFFICES ASSUME NEW k \in DOMAIN u
                  PROVE  \E i \in DOMAIN items : u[k] = items[i] /\ ~items[i].contact
      OBVIOUS
    <3>1. PICK i \in DOMAIN items : t[k] = items[i] /\ ~items[i].contact
      BY <2>5, <1>1
    <3>. QED
      BY <2>5, <3>1
  <2>. QED
    BY <2>1, <2>4, <2>6
<1>4. CASE op # "detail_followup" /\ op # "outreach_email"
  <2>1. Bundle(op, items, hits) = t
    BY <1>4 DEF Bundle
  <2>. HIDE DEF t
  <2>. QED
    BY <2>1, <1>1, Zenon
<1>. QED
  BY <1>2, <1>3, <1>4

-----------------------------------------------------------------------------
\* What each stage of the pipeline makes of a result.
LEMMA RawShape ==
    ASSUME NEW op \in Ops, NEW raw \in Raw(op)
    PROVE  raw \subseteq Claim
<1>1. RawClaims(op) \subseteq Claim
  BY DEF RawClaims, Claim, Reported, RawRefs, Indices, Tones
<1>. QED
  BY <1>1 DEF Raw

LEMMA RefsNamedInBundle ==
    ASSUME NEW bundle \in Seq(Item), NEW idx \in SUBSET (Nat \ {0})
    PROVE  /\ CanonicalRefs(idx, bundle) \subseteq Refs
           /\ IndexedRefs(idx, bundle) \subseteq Refs
           /\ RefsOf(bundle) \subseteq Refs
<1>1. \A i \in DOMAIN bundle : bundle[i].refs \subseteq Refs
  <2>1. \A i \in DOMAIN bundle : bundle[i] \in Item
    OBVIOUS
  <2>2. \A x \in Item : x.refs \subseteq Refs
    BY DEF Item
  <2>. QED
    BY <2>1, <2>2
<1>2. \A i \in idx : ~(i > Len(bundle)) => i \in DOMAIN bundle
  OBVIOUS
<1>3. RefsOf(bundle) \subseteq Refs
  BY <1>1 DEF RefsOf
<1>4. IndexedRefs(idx, bundle) \subseteq Refs
  BY <1>1, <1>2 DEF IndexedRefs
<1>5. CanonicalRefs(idx, bundle) \subseteq Refs
  BY <1>1, <1>2 DEF CanonicalRefs
<1>. QED
  BY <1>3, <1>4, <1>5

LEMMA CanonicalReported ==
    ASSUME NEW K, K \subseteq Refs
    PROVE  Canonical(K) \subseteq Reported
<1>1. \A k \in Refs : [key |-> k, same |-> TRUE] \in Reported
  BY DEF Reported
<1>. QED
  BY <1>1 DEF Canonical

LEMMA MentorSupportResult ==
    ASSUME NEW r \in Result, NEW op, NEW bundle \in Seq(Item)
    PROVE  MentorSupport(r, op, bundle) \in Result
<1>1. \A c \in Claim : Resolved(c, bundle) \in Claim
  <2>. SUFFICES ASSUME NEW c \in Claim PROVE Resolved(c, bundle) \in Claim
    OBVIOUS
  <2>1. CanonicalRefs(c.idx, bundle) \subseteq Refs
    BY RefsNamedInBundle DEF Claim
  <2>2. Canonical(CanonicalRefs(c.idx, bundle)) \subseteq Reported
    BY <2>1, CanonicalReported
  <2>. QED
    BY <2>2 DEF Resolved, Claim
<1>. QED
  <2>. DEFINE kept == {c \in r.claims : Supported(op, c, bundle)}
              out == {Resolved(c, bundle) : c \in kept}
              more == (IF kept # r.claims THEN {"insufficient_facts"} ELSE {})
                       \cup (IF kept = {} /\ r.claims # {} THEN {"no_grounded_output"} ELSE {})
  <2>1. MentorSupport(r, op, bundle) =
            [r EXCEPT
               !.claims = out,
               !.codes = @ \cup (IF kept # r.claims THEN {"insufficient_facts"} ELSE {})
                           \cup (IF kept = {} /\ r.claims # {} THEN {"no_grounded_output"} ELSE {})]
    BY DEF MentorSupport
  <2>2. out \subseteq Claim
    BY <1>1 DEF Result
  <2>3. more \subseteq Codes
    BY DEF Codes, Partial
  <2>. HIDE DEF kept, out
  <2>4. MentorSupport(r, op, bundle) = [r EXCEPT !.claims = out, !.codes = @ \cup more]
    BY <2>1 DEF Result
  <2>. HIDE DEF more
  <2>. QED
    BY <2>2, <2>3, <2>4 DEF Result

LEMMA ContestSupportResult ==
    ASSUME NEW r \in Result, NEW op, NEW bundle \in Seq(Item)
    PROVE  /\ ContestSupport(r, op, bundle) \in Result
           /\ (\E c \in r.claims : ~Supported(op, c, bundle)) =>
                "insufficient_facts" \in ContestSupport(r, op, bundle).codes
<1>1. \A c \in Claim : Attached(c, op, bundle) \in Claim
  <2>. SUFFICES ASSUME NEW c \in Claim PROVE Attached(c, op, bundle) \in Claim
    OBVIOUS
  <2>1. IndexedRefs(c.idx, bundle) \subseteq Refs
    BY RefsNamedInBundle DEF Claim
  <2>2. Canonical(IndexedRefs(c.idx, bundle)) \subseteq Reported
    BY <2>1, CanonicalReported
  <2>. QED
    BY <2>2 DEF Attached, Claim
<1>. QED
  <2>. DEFINE out == {Attached(c, op, bundle) : c \in r.claims}
              more == IF \A c \in r.claims : Supported(op, c, bundle)
                      THEN {} ELSE {"insufficient_facts"}
  <2>1. ContestSupport(r, op, bundle) = [r EXCEPT !.claims = out, !.codes = @ \cup more]
    BY DEF ContestSupport
  <2>2. out \subseteq Claim
    BY <1>1 DEF Result
  <2>3. /\ more \subseteq Codes
        /\ (\E c \in r.claims : ~Supported(op, c, bundle)) => "insufficient_facts" \in more
    BY DEF Codes, Partial
  <2>. HIDE DEF out, more
  <2>. QED
    BY <2>1, <2>2, <2>3 DEF Result

\* The references of the claims of r, and those it cites, are in the bundle.
Backed(r, bundle) ==
    /\ r.cited \subseteq RefsOf(bundle)
    /\ \A c \in r.claims : \A x \in c.refs : x.key \in RefsOf(bundle)

LEMMA CitationResult ==
    ASSUME NEW r \in Result, NEW bundle \in Seq(Item)
    PROVE  /\ Citation(r, bundle) \in Result
           /\ Backed(Citation(r, bundle), bundle)
           /\ r.codes \subseteq Citation(r, bundle).codes
<1>. DEFINE kept == {c \in r.claims : ~Dropped(c, bundle)}
            out == {Validated(c, bundle) : c \in kept}
            q == Citation(r, bundle)
<1>1. \A c \in kept : /\ Validated(c, bundle) \in Claim
                      /\ \A x \in Validated(c, bundle).refs : x.key \in RefsOf(bundle)
  <2>. SUFFICES ASSUME NEW c \in kept
                PROVE  /\ Validated(c, bundle) \in Claim
                       /\ \A x \in Validated(c, bundle).refs : x.key \in RefsOf(bundle)
    OBVIOUS
  <2>0. c \in Claim /\ ~Dropped(c, bundle)
    BY DEF Result
  <2>1. /\ Genuine(c, bundle) \subseteq c.refs
        /\ \A x \in Genuine(c, bundle) : x.key \in RefsOf(bundle)
    BY DEF Genuine
  <2>2. CASE c.class = "fact"
    <3>1. Genuine(c, bundle) = c.refs
      BY <2>0, <2>2 DEF Dropped
    <3>. QED
      BY <2>0, <2>1, <2>2, <3>1 DEF Validated, Claim
  <2>3. CASE c.class = "advice"
    BY <2>0, <2>1, <2>3 DEF Validated, Claim
  <2>4. CASE c.class = "uncertain"
    BY <2>0, <2>4 DEF Validated, Claim
  <2>. QED
    BY <2>0, <2>2, <2>3, <2>4 DEF Claim
<1>2. out \subseteq Claim /\ \A c \in out : \A x \in c.refs : x.key \in RefsOf(bundle)
  BY <1>1
<1>. DEFINE cited == {x.key : x \in UNION {c.refs : c \in out}}
            codes == r.codes \cup (UNION {ClaimCodes(c, bundle) : c \in r.claims})
                       \cup (IF kept = {} /\ r.claims # {} THEN {"no_grounded_output"} ELSE {})
<1>3. q = [r EXCEPT !.claims = out, !.cited = cited, !.codes = codes]
  BY DEF Citation
<1>4. codes \subseteq Codes
  <2>1. \A c \in r.claims : ClaimCodes(c, bundle) \subseteq Codes
    BY DEF ClaimCodes, Codes, Partial
  <2>2. r.codes \subseteq Codes /\ "no_grounded_output" \in Codes
    BY DEF Result, Codes, Partial
  <2>. SUFFICES ASSUME NEW x \in codes PROVE x \in Codes
    OBVIOUS
  <2>3. CASE x \in r.codes
    BY <2>2, <2>3
  <2>4. CASE x \in UNION {ClaimCodes(c, bundle) : c \in r.claims}
    BY <2>1, <2>4
  <2>5. CASE x = "no_grounded_output"
    BY <2>2, <2>5
  <2>. HIDE DEF kept
  <2>. QED
    BY <2>3, <2>4, <2>5
<1>5. r.codes \subseteq codes
  OBVIOUS
<1>6. cited \subseteq RefsOf(bundle) /\ RefsOf(bundle) \subseteq Refs
  BY <1>2, RefsNamedInBundle
<1>. HIDE DEF kept, out, cited, codes, q
<1>7. q \in Result /\ q.claims = out /\ q.cited = cited /\ q.codes = codes
  BY <1>2, <1>3, <1>4, <1>6 DEF Result
<1>8. Backed(q, bundle)
  BY <1>2, <1>6, <1>7 DEF Backed
<1>. QED
  BY <1>5, <1>7, <1>8 DEF q

LEMMA SafetyResult ==
    ASSUME NEW r \in Result, NEW op, NEW bundle \in Seq(Item), Backed(r, bundle)
    PROVE  /\ Safety(r, op) \in Result
           /\ Backed(Safety(r, op), bundle)
           /\ r.codes \subseteq Safety(r, op).codes
<1>. DEFINE kept == {c \in r.claims : c.tone # "probability"}
            out == {Toned(c, op) : c \in kept}
            more == (IF kept # r.claims \/ r.text = "probability"
                     THEN {"no_probability_claim"} ELSE {})
                    \cup (IF Dated(r.text, op) \/ \E c \in r.claims : Dated(c.tone, op)
                          THEN {"stale_fact"} ELSE {})
                    \cup ({"unauthorized_contact"} \cap {r.text})
<1>1. \A c \in Claim : Toned(c, op) \in Claim /\ Toned(c, op).refs = c.refs
  BY DEF Toned, Claim
<1>2. out \subseteq Claim /\ \A c \in out : \A x \in c.refs : x.key \in RefsOf(bundle)
  BY <1>1 DEF Backed, Result
<1>3. more \subseteq Codes
  BY DEF Codes, Partial
<1>4. CASE r.text \in {"content_policy_refusal", "unsafe_advice"}
  <2>1. Safety(r, op) = [r EXCEPT !.claims = {}, !.codes = @ \cup {r.text}]
    BY <1>4 DEF Safety
  <2>. QED
    <3>1. {r.text} \subseteq Codes
      BY <1>4 DEF Codes, Errors
    <3>. QED
      BY <2>1, <3>1 DEF Result, Backed
<1>5. CASE r.text \notin {"content_policy_refusal", "unsafe_advice"}
  <2>1. Safety(r, op) = [r EXCEPT !.claims = out, !.codes = @ \cup more]
    BY <1>5 DEF Safety
  <2>. HIDE DEF out, more
  <2>. QED
    BY <2>1, <1>2, <1>3 DEF Result, Backed
<1>. QED
  BY <1>4, <1>5

LEMMA PipelineResult ==
    ASSUME NEW op \in Ops, NEW r \in Result, NEW bundle \in Seq(Item)
    PROVE  /\ Pipeline(op, r, bundle) \in Result
           /\ Backed(Pipeline(op, r, bundle), bundle)
           /\ (op \in Contest /\ \E c \in r.claims : ~Supported(op, c, bundle)) =>
                "insufficient_facts" \in Pipeline(op, r, bundle).codes
<1>. DEFINE s == CASE op \in Mentor -> MentorSupport(r, op, bundle)
                   [] op \in Contest -> ContestSupport(r, op, bundle)
                   [] OTHER -> r
            q == Citation(s, bundle)
<1>1. /\ s \in Result
      /\ (op \in Contest /\ \E c \in r.claims : ~Supported(op, c, bundle)) =>
             "insufficient_facts" \in s.codes
  <2>1. CASE op \in Mentor
    <3>1. s = MentorSupport(r, op, bundle) /\ op \notin Contest
      BY <2>1 DEF Mentor, Contest
    <3>. QED
      BY <3>1, MentorSupportResult
  <2>2. CASE op \in Contest
    <3>1. s = ContestSupport(r, op, bundle)
      BY <2>2 DEF Mentor, Contest
    <3>. QED
      BY <3>1, ContestSupportResult
  <2>3. CASE op \notin Mentor /\ op \notin Contest
    BY <2>3
  <2>. QED
    BY <2>1, <2>2, <2>3
<1>2. Pipeline(op, r, bundle) = Safety(q, op)
  BY DEF Pipeline
<1>. HIDE DEF s
<1>3. q \in Result /\ Backed(q, bundle) /\ s.codes \subseteq q.codes
  BY <1>1, CitationResult
<1>. HIDE DEF q
<1>4. /\ Safety(q, op) \in Result
      /\ Backed(Safety(q, op), bundle)
      /\ q.codes \subseteq Safety(q, op).codes
  BY <1>3, SafetyResult
<1>. QED
  BY <1>1, <1>2, <1>3, <1>4

-----------------------------------------------------------------------------
LEMMA GroundedInitially == GroundedInit => GroundedInv
<1>. SUFFICES ASSUME GroundedInit PROVE GroundedInv
  OBVIOUS
<1>1. served = NoBuild /\ job = NoJob /\ answer = NoAnswer
  BY DEF GroundedInit
<1>2. JobShape
  BY <1>1 DEF JobShape, NoJob
<1>3. Pinned /\ Stages /\ Trimming
  BY <1>1 DEF Pinned, Stages, Trimming, NoJob
<1>4. AnswersGrounded /\ GroundedIsSupported
  BY <1>1 DEF AnswersGrounded, GroundedIsSupported, NoAnswer
<1>. QED
  BY <1>1, <1>2, <1>3, <1>4 DEF GroundedInv

\* What the caller is told without a model's answer claims nothing.
LEMMA Unanswered ==
    ASSUME answer'.kind \in {"none", "error", "raised", "uncertain", "fallback"}
    PROVE  AnswersGrounded' /\ GroundedIsSupported'
  BY DEF AnswersGrounded, GroundedIsSupported

LEMMA NoJobInv ==
    ASSUME job' = NoJob
    PROVE  JobShape' /\ Pinned' /\ Stages' /\ Trimming'
  BY DEF JobShape, Pinned, Stages, Trimming, NoJob

LEMMA ReturnInv ==
    ASSUME GroundedInv, NEW k \in {"error", "raised", "fallback"}, Conclude(k)
    PROVE  GroundedInv'
<1>1. answer'.kind = k
  BY DEF Conclude, NoAnswer
<1>2. AnswersGrounded' /\ GroundedIsSupported'
  BY <1>1, Unanswered
<1>3. JobShape' /\ Pinned' /\ Stages' /\ Trimming'
  BY NoJobInv DEF Conclude
<1>4. (served \in Builds \cup {NoBuild})'
  BY DEF Conclude, GroundedInv
<1>. QED
  BY <1>2, <1>3, <1>4 DEF GroundedInv

LEMMA GenerateJob ==
    ASSUME NEW op \in Contest, NEW b \in Seq(Item),
           job' = [NoJob EXCEPT !.stage = "generate", !.op = op, !.bundle = b]
    PROVE  job' = [stage |-> "generate", op |-> op, build |-> NoBuild, review |-> FALSE,
                   todo |-> <<>>, done |-> <<>>, bundle |-> b]
  BY DEF NoJob

\* A job on which the model is asked without the facts of a mentor.
LEMMA GenerateInv ==
    ASSUME GroundedInv, NEW op \in Contest \cup Labels, NEW b \in Seq(Item),
           job' = [stage |-> "generate", op |-> op, build |-> NoBuild, review |-> FALSE,
                   todo |-> <<>>, done |-> <<>>, bundle |-> b],
           UNCHANGED served, answer' = NoAnswer
    PROVE  GroundedInv'
<1>1. /\ job'.stage = "generate" /\ job'.op = op
      /\ JobShape'
  <2>1. <<>> \in Seq(People) /\ op \in Ops
    BY DEF Ops
  <2>. QED
    BY <2>1 DEF JobShape
<1>2. op \notin Mentor
  BY DEF Mentor, Contest, Labels
<1>3. Pinned' /\ Stages' /\ Trimming'
  BY <1>1, <1>2 DEF Pinned, Stages, Trimming, Ops
<1>4. answer'.kind = "none"
  BY DEF NoAnswer
<1>5. AnswersGrounded' /\ GroundedIsSupported'
  BY <1>4, Unanswered
<1>. QED
  BY <1>1, <1>3, <1>5 DEF GroundedInv

\* The answer is one given without a job.
LEMMA RefusalInv ==
    ASSUME GroundedInv, UNCHANGED <<served, job>>,
           answer'.kind \in {"none", "error", "raised", "uncertain", "fallback"}
    PROVE  GroundedInv'
<1>1. JobShape' /\ Pinned' /\ Stages' /\ Trimming'
  BY DEF GroundedInv, JobShape, Pinned, Stages, Trimming
<1>. QED
  BY <1>1, Unanswered DEF GroundedInv

LEMMA BeginMentorInv ==
    ASSUME GroundedInv, BeginMentor
    PROVE  GroundedInv'
<1>1. PICK op \in Mentor, review \in BOOLEAN, profile \in BOOLEAN : \E s \in Subjects(op) :
        IF Refused(s) \/ ~profile
        THEN /\ answer' = [NoAnswer EXCEPT !.op = op, !.kind = "error", !.about = Range(s)]
             /\ UNCHANGED job
        ELSE /\ job' = [NoJob EXCEPT !.stage = "read", !.op = op, !.build = served,
                                     !.review = review, !.todo = s]
             /\ answer' = NoAnswer
  BY DEF BeginMentor
<1>2. PICK s \in Subjects(op) :
        IF Refused(s) \/ ~profile
        THEN /\ answer' = [NoAnswer EXCEPT !.op = op, !.kind = "error", !.about = Range(s)]
             /\ UNCHANGED job
        ELSE /\ job' = [NoJob EXCEPT !.stage = "read", !.op = op, !.build = served,
                                     !.review = review, !.todo = s]
             /\ answer' = NoAnswer
  BY <1>1
<1>3. UNCHANGED served
  BY DEF BeginMentor
<1>4. s \in Seq(People) /\ s # <<>>
  <2>1. CASE op = "professor_comparison"
    <3>1. PICK p \in People, q \in People : s = <<p, q>>
      BY <2>1 DEF Subjects, Compared
    <3>. QED
      BY <3>1
  <2>2. CASE op # "professor_comparison"
    <3>1. PICK p \in People : s = <<p>>
      BY <2>2 DEF Subjects
    <3>. QED
      BY <3>1
  <2>. QED
    BY <2>1, <2>2
<1>5. CASE Refused(s) \/ ~profile
  <2>1. answer'.kind = "error" /\ UNCHANGED job
    BY <1>2, <1>5 DEF NoAnswer
  <2>. QED
    BY <2>1, <1>3, RefusalInv
<1>6. CASE ~(Refused(s) \/ ~profile)
  <2>1. job' = [NoJob EXCEPT !.stage = "read", !.op = op, !.build = served,
                             !.review = review, !.todo = s]
    BY <1>2, <1>6
  <2>2. served \in Builds
    BY <1>6 DEF Refused, GroundedInv
  <2>0. job' = [stage |-> "read", op |-> op, build |-> served, review |-> review,
                todo |-> s, done |-> <<>>, bundle |-> <<>>]
    BY <2>1 DEF NoJob
  <2>3. /\ job'.stage = "read" /\ job'.op = op /\ job'.build = served /\ job'.todo = s
        /\ job'.done = <<>> /\ job'.bundle = <<>>
        /\ JobShape'
    <3>1. <<>> \in Seq(People) /\ <<>> \in Seq(Item) /\ op \in Ops
      BY DEF Ops
    <3>. QED
      BY <2>0, <2>2, <1>4, <3>1 DEF JobShape
  <2>4. Pinned' /\ Stages' /\ Trimming'
    BY <2>2, <2>3, <1>4 DEF Pinned, Stages, Trimming, Shown, From, Range, Ops
  <2>5. answer'.kind = "none"
    BY <1>2, <1>6 DEF NoAnswer
  <2>6. AnswersGrounded' /\ GroundedIsSupported'
    BY <2>5, Unanswered
  <2>. QED
    BY <1>3, <2>3, <2>4, <2>6 DEF GroundedInv
<1>. QED
  BY <1>5, <1>6

LEMMA BeginOthersInv ==
    ASSUME GroundedInv, BeginQuestion \/ BeginCompare \/ BeginLabel
    PROVE  GroundedInv'
<1>1. CASE BeginQuestion
  <2>1. PICK b \in QuestionBundles :
            IF RefsOf(b) = {}
            THEN /\ answer' = [NoAnswer EXCEPT !.op = "competition_qa_answer", !.kind = "uncertain"]
                 /\ UNCHANGED job
            ELSE /\ job' = [NoJob EXCEPT !.stage = "generate", !.op = "competition_qa_answer",
                                         !.bundle = b]
                 /\ answer' = NoAnswer
    BY <1>1 DEF BeginQuestion
  <2>2. UNCHANGED served
    BY <1>1 DEF BeginQuestion
  <2>3. b \in Seq(Item)
    <3>1. \A c \in Range(Cards) : c \in Seq(Item)
      BY GroundedAssumption, Zenon DEF Range
    <3>2. PICK x \in ({<<>>} \cup Range(Cards)) \X Hits : b = x[1] \o x[2]
      BY Zenon DEF QuestionBundles
    <3>3. x[1] \in Seq(Item) /\ x[2] \in Seq(Item)
      <4>1. <<>> \in Seq(Item)
        OBVIOUS
      <4>2. Hits \subseteq Seq(Item)
        BY GroundedAssumption
      <4>. QED
        BY <3>1, <4>1, <4>2
    <3>. QED
      BY <3>2, <3>3
  <2>4. CASE RefsOf(b) = {}
    <3>1. answer'.kind = "uncertain" /\ UNCHANGED job
      BY <2>1, <2>4 DEF NoAnswer
    <3>. QED
      BY <3>1, <2>2, RefusalInv
  <2>5. CASE RefsOf(b) # {}
    <3>1. "competition_qa_answer" \in Contest
      BY DEF Contest
    <3>2. job' = [stage |-> "generate", op |-> "competition_qa_answer", build |-> NoBuild,
                  review |-> FALSE, todo |-> <<>>, done |-> <<>>, bundle |-> b]
      BY <2>1, <2>3, <2>5, <3>1, GenerateJob
    <3>. QED
      BY <2>1, <2>2, <2>3, <2>5, <3>1, <3>2, GenerateInv
  <2>. QED
    BY <2>4, <2>5
<1>2. CASE BeginCompare
  <2>1. CASE \E b \in CompareBundles :
                job' = [NoJob EXCEPT !.stage = "generate", !.op = "competition_compare",
                                     !.bundle = b]
             /\ answer' = NoAnswer
    <3>1. PICK b \in CompareBundles :
                job' = [NoJob EXCEPT !.stage = "generate", !.op = "competition_compare",
                                     !.bundle = b]
             /\ answer' = NoAnswer
      BY <2>1
    <3>2. b \in Seq(Item)
      <4>1. PICK x \in {y \in (DOMAIN Cards) \X (DOMAIN Cards) : y[1] # y[2]} :
                   b = Cards[x[1]] \o Cards[x[2]]
        BY Zenon DEF CompareBundles
      <4>2. x[1] \in DOMAIN Cards /\ x[2] \in DOMAIN Cards
        OBVIOUS
      <4>3. Cards[x[1]] \in Seq(Item) /\ Cards[x[2]] \in Seq(Item)
        BY <4>2, GroundedAssumption, Zenon
      <4>. QED
        BY <4>1, <4>3
    <3>3. "competition_compare" \in Contest /\ UNCHANGED served
      BY <1>2 DEF Contest, BeginCompare
    <3>. QED
      <4>1. job' = [stage |-> "generate", op |-> "competition_compare", build |-> NoBuild,
                    review |-> FALSE, todo |-> <<>>, done |-> <<>>, bundle |-> b]
        BY <3>1, <3>2, <3>3, GenerateJob
      <4>. QED
        BY <3>1, <3>2, <3>3, <4>1, GenerateInv
  <2>2. CASE /\ answer' = [NoAnswer EXCEPT !.op = "competition_compare", !.kind = "raised"]
             /\ UNCHANGED job
    <3>1. answer'.kind = "raised" /\ UNCHANGED <<served, job>>
      BY <1>2, <2>2 DEF NoAnswer, BeginCompare
    <3>. QED
      BY <3>1, RefusalInv
  <2>. QED
    BY <1>2, <2>1, <2>2 DEF BeginCompare
<1>3. CASE BeginLabel
  <2>1. PICK op \in Labels : job' = [NoJob EXCEPT !.stage = "generate", !.op = op]
    BY <1>3 DEF BeginLabel
  <2>2. job' = [stage |-> "generate", op |-> op, build |-> NoBuild, review |-> FALSE,
                todo |-> <<>>, done |-> <<>>, bundle |-> <<>>]
    BY <2>1 DEF NoJob
  <2>3. <<>> \in Seq(Item) /\ op \in Contest \cup Labels
    OBVIOUS
  <2>. QED
    BY <2>2, <2>3, <1>3, GenerateJob, GenerateInv DEF BeginLabel
<1>. QED
  BY <1>1, <1>2, <1>3

\* The items of the next professor follow the ones that were read before.
LEMMA ReadFrom ==
    ASSUME NEW b \in Builds, NEW p \in People, NEW done \in Seq(People),
           NEW items \in Seq(Item), From(b, Range(done), items)
    PROVE  /\ Range(Append(done, p)) = Range(done) \cup {p}
           /\ items \o Facts[b][p] \in Seq(Item)
           /\ From(b, Range(Append(done, p)), items \o Facts[b][p])
<1>1. Range(Append(done, p)) = Range(done) \cup {p}
  <2>. DEFINE a == Append(done, p)
  <2>1. /\ Len(done) \in Nat /\ a \in Seq(People) /\ Len(a) = Len(done) + 1
        /\ \A i \in 1..Len(done) : a[i] = done[i]
        /\ a[Len(done) + 1] = p
    OBVIOUS
  <2>. HIDE DEF a
  <2>2. DOMAIN a = 1..(Len(done) + 1) /\ DOMAIN done = 1..Len(done)
    BY <2>1
  <2>. QED
    BY <2>1, <2>2 DEF Range, a
<1>. DEFINE f == Facts[b][p]
            all == items \o f
<1>2. f \in Seq(Item)
  BY GroundedAssumption, Zenon
<1>. HIDE DEF f
<1>3. /\ all \in Seq(Item) /\ Len(all) = Len(items) + Len(f)
      /\ \A i \in 1..(Len(items) + Len(f)) :
            all[i] = IF i <= Len(items) THEN items[i] ELSE f[i - Len(items)]
  BY <1>2, ConcatProperties
<1>. HIDE DEF all
<1>4. From(b, Range(Append(done, p)), all)
  <2>. SUFFICES ASSUME NEW i \in DOMAIN all
                PROVE  \E q \in Range(Append(done, p)) : \E k \in DOMAIN Facts[b][q] :
                           all[i] = Facts[b][q][k]
    BY DEF From
  <2>1. i \in 1..(Len(items) + Len(f)) /\ Len(items) \in Nat /\ Len(f) \in Nat
    BY <1>2, <1>3
  <2>2. CASE i <= Len(items)
    <3>1. i \in DOMAIN items /\ all[i] = items[i]
      BY <2>1, <2>2, <1>3
    <3>2. PICK q \in Range(done) : \E k \in DOMAIN Facts[b][q] : items[i] = Facts[b][q][k]
      BY <3>1 DEF From
    <3>3. q \in Range(Append(done, p))
      BY <1>1
    <3>. QED
      BY <3>1, <3>2, <3>3
  <2>3. CASE ~(i <= Len(items))
    <3>1. i - Len(items) \in DOMAIN f /\ all[i] = f[i - Len(items)]
      BY <2>1, <2>3, <1>2, <1>3
    <3>2. p \in Range(Append(done, p))
      BY <1>1
    <3>. QED
      BY <3>1, <3>2 DEF f
  <2>. QED
    BY <2>2, <2>3
<1>. QED
  BY <1>1, <1>3, <1>4 DEF all, f

LEMMA ReadDetailInv ==
    ASSUME GroundedInv, ReadDetail
    PROVE  GroundedInv'
<1>. DEFINE p == Head(job.todo)
            items == job.bundle \o Facts[Source][p]
<1>1. /\ JobShape /\ job.stage = "read" /\ job.op \in Mentor /\ job.todo # <<>>
      /\ job.build \in Builds /\ Source = job.build
      /\ Shown(job.build, Range(job.done))
      /\ From(job.build, Range(job.done), job.bundle)
  BY DEF GroundedInv, ReadDetail, Stages, Pinned, Source
<1>2. /\ job.todo \in Seq(People) /\ job.done \in Seq(People) /\ job.bundle \in Seq(Item)
      /\ job.op \in Ops /\ job.review \in BOOLEAN
      /\ job = [stage |-> job.stage, op |-> job.op, build |-> job.build, review |-> job.review,
                todo |-> job.todo, done |-> job.done, bundle |-> job.bundle]
  BY <1>1 DEF JobShape, Ops
<1>3. p \in People /\ Tail(job.todo) \in Seq(People) /\ Len(Tail(job.todo)) = Len(job.todo) - 1
  BY <1>1, <1>2
<1>. HIDE DEF p
<1>4. /\ Range(Append(job.done, p)) = Range(job.done) \cup {p}
      /\ items \in Seq(Item)
      /\ From(job.build, Range(Append(job.done, p)), items)
  BY <1>1, <1>2, <1>3, ReadFrom
<1>5. Append(job.done, p) \in Seq(People)
  BY <1>2, <1>3
<1>6. Visible(Source, p) => Shown(job.build, Range(Append(job.done, p)))
  BY <1>1, <1>4 DEF Visible, Shown
<1>7. \/ Conclude("error")
      \/ /\ Visible(Source, p)
         /\ Len(job.todo) > 1
         /\ job' = [job EXCEPT !.todo = Tail(@), !.done = Append(@, p), !.bundle = items]
         /\ UNCHANGED <<served, answer>>
      \/ /\ Visible(Source, p)
         /\ \E hits \in SUBSET DOMAIN items :
               /\ job' = [job EXCEPT !.stage = "generate", !.todo = <<>>,
                                     !.done = Append(@, p), !.bundle = Bundle(job.op, items, hits)]
               /\ UNCHANGED <<served, answer>>
  BY DEF ReadDetail, p
<1>. HIDE DEF items
<1>8. CASE Conclude("error")
  BY <1>8, ReturnInv
<1>9. CASE /\ Visible(Source, p)
           /\ Len(job.todo) > 1
           /\ job' = [job EXCEPT !.todo = Tail(@), !.done = Append(@, p), !.bundle = items]
           /\ UNCHANGED <<served, answer>>
  <2>1. job' = [stage |-> job.stage, op |-> job.op, build |-> job.build, review |-> job.review,
                todo |-> Tail(job.todo), done |-> Append(job.done, p), bundle |-> items]
    BY <1>2, <1>9
  <2>2. JobShape'
    BY <2>1, <1>1, <1>2, <1>3, <1>4, <1>5 DEF JobShape
  <2>3. /\ job'.stage = "read" /\ job'.op = job.op /\ job'.build = job.build
        /\ job'.todo = Tail(job.todo) /\ job'.done = Append(job.done, p) /\ job'.bundle = items
    BY <2>1, <1>1
  <2>4. Tail(job.todo) # <<>>
    <3>0. Len(job.todo) > 1
      BY <1>9
    <3>1. Len(job.todo) \in Nat /\ Len(Tail(job.todo)) # 0
      <4>1. job.todo \in Seq(People) /\ Len(Tail(job.todo)) = Len(job.todo) - 1
        BY <1>2, <1>3
      <4>2. Len(job.todo) \in Nat
        BY <4>1, LenProperties
      <4>3. \A n \in Nat : n > 1 => n - 1 # 0
        OBVIOUS
      <4>. QED
        BY <3>0, <4>1, <4>2, <4>3, Zenon
    <3>2. Len(<<>>) = 0
      BY EmptySeq
    <3>. QED
      BY <3>1, <3>2, Zenon
  <2>5. Pinned' /\ Stages' /\ Trimming'
    BY <2>3, <2>4, <1>1, <1>2, <1>4, <1>6, <1>9 DEF Pinned, Stages, Trimming, From, Shown
  <2>. QED
    BY <2>2, <2>5, <1>9 DEF GroundedInv, AnswersGrounded, GroundedIsSupported
<1>10. CASE /\ Visible(Source, p)
            /\ \E hits \in SUBSET DOMAIN items :
               /\ job' = [job EXCEPT !.stage = "generate", !.todo = <<>>,
                                     !.done = Append(@, p), !.bundle = Bundle(job.op, items, hits)]
               /\ UNCHANGED <<served, answer>>
  <2>1. PICK hits \in SUBSET DOMAIN items :
           /\ job' = [job EXCEPT !.stage = "generate", !.todo = <<>>,
                                 !.done = Append(@, p), !.bundle = Bundle(job.op, items, hits)]
           /\ UNCHANGED <<served, answer>>
    BY <1>10
  <2>. DEFINE b == Bundle(job.op, items, hits)
  <2>2. /\ b \in Seq(Item)
        /\ \A k \in DOMAIN b : \E i \in DOMAIN items :
             /\ b[k] = items[i]
             /\ job.op # "detail_followup" => ~items[i].contact
    BY <1>4, BundleElements
  <2>3. job' = [stage |-> "generate", op |-> job.op, build |-> job.build, review |-> job.review,
                todo |-> <<>>, done |-> Append(job.done, p), bundle |-> b]
    BY <1>2, <2>1
  <2>. HIDE DEF b
  <2>4. JobShape'
    <3>1. <<>> \in Seq(People)
      OBVIOUS
    <3>. QED
      BY <2>2, <2>3, <3>1, <1>1, <1>2, <1>5 DEF JobShape
  <2>5. /\ job'.stage = "generate" /\ job'.op = job.op /\ job'.build = job.build
        /\ job'.done = Append(job.done, p) /\ job'.bundle = b
    BY <2>3
  <2>6. From(job.build, Range(Append(job.done, p)), b)
    <3>. SUFFICES ASSUME NEW k \in DOMAIN b
                  PROVE  \E q \in Range(Append(job.done, p)) :
                            \E j \in DOMAIN Facts[job.build][q] : b[k] = Facts[job.build][q][j]
      BY DEF From
    <3>1. PICK i \in DOMAIN items : b[k] = items[i]
      BY <2>2
    <3>. QED
      BY <3>1, <1>4 DEF From
  <2>7. job.op # "detail_followup" => Uncontactable(b)
    BY <2>2 DEF Uncontactable
  <2>8. Pinned' /\ Stages' /\ Trimming'
    BY <2>5, <2>6, <2>7, <1>1, <1>2, <1>6, <1>10
       DEF Pinned, Stages, Trimming, From, Shown, Uncontactable
  <2>. QED
    BY <2>1, <2>4, <2>8 DEF GroundedInv, AnswersGrounded, GroundedIsSupported
<1>. QED
  BY <1>7, <1>8, <1>9, <1>10

\* The references of the bundle are those the pinned build may show.
LEMMA BundleAllowed ==
    ASSUME NEW b, NEW op, NEW who, NEW items,
           From(b, who, items), op # "detail_followup" => Uncontactable(items)
    PROVE  RefsOf(items) \subseteq Allowed(b, op, who)
<1>. SUFFICES ASSUME NEW i \in DOMAIN items, NEW x \in items[i].refs
              PROVE  x \in Allowed(b, op, who)
  BY DEF RefsOf
<1>1. PICK p \in who : \E k \in DOMAIN Facts[b][p] : items[i] = Facts[b][p][k]
  BY DEF From
<1>2. PICK k \in DOMAIN Facts[b][p] : items[i] = Facts[b][p][k]
  BY <1>1
<1>3. ~(Facts[b][p][k].contact /\ op # "detail_followup")
  BY <1>2 DEF Uncontactable
<1>4. x \in IF Facts[b][p][k].contact /\ op # "detail_followup" THEN {} ELSE Facts[b][p][k].refs
  BY <1>2, <1>3
<1>. QED
  BY <1>4 DEF Allowed

\* The answer of the model: this is where both properties are decided.
LEMMA RespondInv ==
    ASSUME GroundedInv, job.stage = "generate", NEW r \in Result, Backed(r, job.bundle),
           NEW raw, NEW usable \in BOOLEAN,
           (job.op \in Contest /\ \E c \in raw : ~Supported(job.op, c, job.bundle)) =>
                "insufficient_facts" \in r.codes,
           Respond(r, raw, usable)
    PROVE  GroundedInv'
<1>1. JobShape' /\ Pinned' /\ Stages' /\ Trimming'
  BY NoJobInv DEF Respond
<1>2. (served \in Builds \cup {NoBuild})'
  BY DEF Respond, GroundedInv
<1>3. /\ answer'.op = job.op /\ answer'.kind = Kind(job.op, r, usable) /\ answer'.build = job.build
      /\ answer'.about = Range(job.done)
      /\ answer'.claims = {[class |-> c.class, refs |-> {x.key : x \in c.refs}] : c \in r.claims}
      /\ answer'.cited = Sources(job.op, r)
      /\ answer'.unsupported = \E c \in raw : ~Supported(job.op, c, job.bundle)
  BY DEF Respond
<1>4. AnswersGrounded'
  <2>. SUFFICES ASSUME job.op \in Mentor, Kind(job.op, r, usable) = "answer"
                PROVE  AnswersGrounded'
    BY <1>3 DEF AnswersGrounded
  <2>1. Grounded(r) /\ Sources(job.op, r) = r.cited
    BY DEF Kind, MentorKind, Sources, Mentor
  <2>2. /\ From(job.build, Range(job.done), job.bundle) /\ Shown(job.build, Range(job.done))
        /\ job.op # "detail_followup" => Uncontactable(job.bundle)
    BY DEF GroundedInv, Pinned, Trimming
  <2>. DEFINE allowed == Allowed(job.build, job.op, Range(job.done))
  <2>3. RefsOf(job.bundle) \subseteq allowed
    BY <2>2, BundleAllowed
  <2>. HIDE DEF allowed
  <2>4. \E c \in answer'.claims : c.class = "fact" /\ c.refs # {}
    <3>1. PICK c \in r.claims : c.class = "fact" /\ c.refs # {}
      BY <2>1 DEF Grounded
    <3>. DEFINE d == [class |-> c.class, refs |-> {x.key : x \in c.refs}]
    <3>2. d \in answer'.claims
      BY <1>3
    <3>3. d.class = "fact" /\ d.refs # {}
      BY <3>1
    <3>. QED
      BY <3>2, <3>3
  <2>5. answer'.cited \subseteq allowed
    BY <1>3, <2>1, <2>3 DEF Backed
  <2>6. \A c \in answer'.claims : c.refs \subseteq allowed
    <3>. SUFFICES ASSUME NEW d \in answer'.claims PROVE d.refs \subseteq allowed
      OBVIOUS
    <3>1. PICK c \in r.claims : d = [class |-> c.class, refs |-> {x.key : x \in c.refs}]
      BY <1>3
    <3>2. d.refs = {x.key : x \in c.refs}
      BY <3>1
    <3>3. \A x \in c.refs : x.key \in RefsOf(job.bundle)
      BY DEF Backed
    <3>. QED
      BY <2>3, <3>2, <3>3
  <2>7. \A p \in answer'.about : Role[answer'.build][p] \in {"included", "review"}
    BY <1>3, <2>2 DEF Shown
  <2>8. Allowed(answer'.build, answer'.op, answer'.about) = allowed
    BY <1>3 DEF allowed
  <2>. QED
    BY <2>4, <2>5, <2>6, <2>7, <2>8, Zenon DEF AnswersGrounded
<1>5. GroundedIsSupported'
  <2>. SUFFICES ASSUME Kind(job.op, r, usable) = "grounded"
                PROVE  ~answer'.unsupported /\ answer'.cited # {}
    BY <1>3 DEF GroundedIsSupported
  <2>1. job.op = "competition_qa_answer"
    BY DEF Kind, MentorKind, LabelKind, Fallback
  <2>2. EvidenceStatus(r) = "grounded"
    BY <2>1 DEF Kind, Mentor
  <2>3. r.cited # {} /\ r.codes \cap Partial = {}
    BY <2>2 DEF EvidenceStatus
  <2>4. "insufficient_facts" \notin r.codes
    BY <2>3 DEF Partial
  <2>5. ~\E c \in raw : ~Supported(job.op, c, job.bundle)
    BY <2>1, <2>4 DEF Contest
  <2>6. Sources(job.op, r) = r.cited
    BY <2>1 DEF Sources
  <2>. QED
    BY <1>3, <2>3, <2>5, <2>6
<1>. QED
  BY <1>1, <1>2, <1>4, <1>5 DEF GroundedInv

LEMMA GeneratedInv ==
    ASSUME GroundedInv, Generated
    PROVE  GroundedInv'
<1>1. PICK raw \in Raw(job.op), usable \in BOOLEAN, text \in Texts :
        Respond(Pipeline(job.op, [claims |-> raw, codes |-> {}, cited |-> {}, text |-> text],
                         job.bundle),
                raw, usable)
  BY DEF Generated
<1>. DEFINE r == [claims |-> raw, codes |-> {}, cited |-> {}, text |-> text]
<1>2. job.stage = "generate"
  BY DEF Generated
<1>3. job.op \in Ops /\ job.bundle \in Seq(Item)
  BY <1>2 DEF GroundedInv, JobShape, Stages
<1>4. r \in Result /\ r.claims = raw
  BY <1>3, RawShape DEF Result
<1>. HIDE DEF r
<1>5. /\ Pipeline(job.op, r, job.bundle) \in Result
      /\ Backed(Pipeline(job.op, r, job.bundle), job.bundle)
      /\ (job.op \in Contest /\ \E c \in raw : ~Supported(job.op, c, job.bundle)) =>
            "insufficient_facts" \in Pipeline(job.op, r, job.bundle).codes
  BY <1>3, <1>4, PipelineResult
<1>6. Respond(Pipeline(job.op, r, job.bundle), raw, usable)
  BY <1>1 DEF r
<1>. QED
  BY <1>2, <1>5, <1>6, RespondInv

LEMMA UnusableInv ==
    ASSUME GroundedInv, Unusable
    PROVE  GroundedInv'
<1>1. PICK code \in {"llm_unavailable", "generation_parse_error", "schema_validation_failed",
                     "content_policy_refusal"} :
        Respond([claims |-> {}, codes |-> {code}, cited |-> {}, text |-> "plain"], {}, FALSE)
  BY DEF Unusable
<1>. DEFINE r == [claims |-> {}, codes |-> {code}, cited |-> {}, text |-> "plain"]
<1>2. r \in Result
  BY DEF Result, Codes, Errors, Texts
<1>3. Backed(r, job.bundle)
  BY DEF Backed
<1>4. Respond(r, {}, FALSE)
  BY <1>1
<1>. HIDE DEF r
<1>. QED
  BY <1>2, <1>3, <1>4, RespondInv DEF Unusable

LEMMA GroundedStep == GroundedInv /\ [GroundedNext]_groundedVars => GroundedInv'
<1>. SUFFICES ASSUME GroundedInv, [GroundedNext]_groundedVars PROVE GroundedInv'
  OBVIOUS
<1>1. CASE Refresh
  <2>1. served' \in Builds \cup {NoBuild} /\ UNCHANGED <<job, answer>>
    BY <1>1 DEF Refresh
  <2>. QED
    BY <2>1 DEF GroundedInv, JobShape, Pinned, Stages, Trimming, AnswersGrounded,
                GroundedIsSupported
<1>2. CASE BeginMentor
  BY <1>2, BeginMentorInv
<1>3. CASE ReadDetail
  BY <1>3, ReadDetailInv
<1>4. CASE ReadFails
  BY <1>4, ReturnInv DEF ReadFails
<1>5. CASE BeginQuestion \/ BeginCompare \/ BeginLabel
  BY <1>5, BeginOthersInv
<1>6. CASE Generated
  BY <1>6, GeneratedInv
<1>7. CASE Unusable
  BY <1>7, UnusableInv
<1>8. CASE GenerationFails
  <2>1. Conclude("error") \/ Conclude("raised") \/ Conclude("fallback")
    BY <1>8 DEF GenerationFails, Fallback
  <2>. QED
    BY <2>1, ReturnInv
<1>9. CASE UNCHANGED groundedVars
  BY <1>9 DEF groundedVars, GroundedInv, JobShape, Pinned, Stages, Trimming, AnswersGrounded,
              GroundedIsSupported
<1>. QED
  BY <1>1, <1>2, <1>3, <1>4, <1>5, <1>6, <1>7, <1>8, <1>9 DEF GroundedNext

LEMMA GroundedInvariant == GroundedSpec => []GroundedInv
  BY GroundedInitially, GroundedStep, PTL DEF GroundedSpec

\* A mentor answer cites only what the build pinned at its start holds about the professors
\* asked for, for any builds, facts and claims, and however the served build changes.
THEOREM AnswersAreGrounded == GroundedSpec => []AnswersGrounded
<1>1. GroundedInv => AnswersGrounded
  BY DEF GroundedInv
<1>. QED
  BY <1>1, GroundedInvariant, PTL

\* A question is answered as grounded only if every fact the model stated was backed by the
\* bundle before any was downgraded, for any cards, hits and claims.
THEOREM GroundedMeansSupported == GroundedSpec => []GroundedIsSupported
<1>1. GroundedInv => GroundedIsSupported
  BY DEF GroundedInv
<1>. QED
  BY <1>1, GroundedInvariant, PTL
=============================================================================
