------------------------ MODULE AutomationRunsProofs -------------------------
(***************************************************************************)
(* Proofs about AutomationRuns, for any tasks, invocation keys, events and *)
(* numbers of calls.  What the tables and the calls know of each other is  *)
(* one inductive invariant: a run of begin_run is stored under the id of a *)
(* call that has ended, an invocation key stands in one row, and a call    *)
(* remembers of its row only what no later write takes away.  That a write *)
(* takes nothing away (RowsKept) is proved of each action and gives both   *)
(* the invariance and AuditOnlyGrows.                                      *)
(***************************************************************************)
EXTENDS AutomationRuns, FiniteSetTheorems, TLAPS

\* The answers that speak of a stored row.
Settled == {"RECORDED", "IDEMPOTENT_REPLAY", "CONFLICT"}

Tables ==
    /\ runs \in [RunKeys -> RunType \cup {NoRun}]
    /\ receipts \subseteq Receipts
    /\ call \in [Calls -> CallType]
    /\ now \in 0..MaxTime /\ faults \in 0..MaxFaults

\* A run of begin_run is stored by the call whose id it bears; only those carry
\* invocation keys, and an invocation key only one of them.
RowKnows(k) ==
    /\ runs[k].contract = "run-v2" =>
          /\ k[2] \in Calls
          /\ call[k[2]].pc = "done" /\ call[k[2]].req.kind = "begin"
          /\ call[k[2]].req.task = k[1]
          /\ runs[k].start = None
    /\ runs[k].contract = "legacy-event-v1" => runs[k].key = None
KeysAreUnique ==
    \A k, l \in RunKeys :
        /\ Stored(k) /\ Stored(l)
        /\ k[1] = l[1] /\ runs[k].key = runs[l].key /\ runs[k].key # None
        => k = l

\* What a call knows of the audit, by its request.
BeginKnows(c) ==
    call[c].run # None =>
        /\ call[c].pc = "done" /\ Stored(call[c].run)
        /\ call[c].run[1] = call[c].req.task
        /\ runs[call[c].run].key = call[c].req.key
EndKnows(c) ==
    LET k == call[c].run IN
    /\ call[c].pc \in {"write", "confirm"} => k \in RunKeys /\ runs[k].contract = "run-v2"
    /\ call[c].pc = "confirm" => runs[k].final # None
    /\ call[c].pc = "done" /\ call[c].status \in Settled =>
          /\ k \in RunKeys /\ Stored(k) /\ runs[k].final # None
          /\ runs[k].final = call[c].req.final <=> call[c].status # "CONFLICT"
EventKnows(c) ==
    LET e == call[c].req.event
        k == EventKey(e)
        hash == HashOf(runs[k], e.phase) IN
    /\ call[c].pc = "write" /\ ~call[c].inserts => runs[k].contract = "legacy-event-v1"
    /\ call[c].pc = "confirm" => Stored(k) /\ call[c].status \in {"RECORDED", "IDEMPOTENT_REPLAY"}
    /\ call[c].pc = "done" /\ call[c].status \in Settled =>
          /\ call[c].run = k /\ Stored(k)
          /\ call[c].status # "CONFLICT" => hash = e.payload
          /\ call[c].status = "CONFLICT" /\ runs[k].contract = "legacy-event-v1"
             => hash \notin {None, e.payload}
CallKnows(c) ==
    /\ call[c].pc = "idle" => call[c] = NoCall
    /\ call[c].pc \notin {"idle", "done"} => call[c].req \in Requests
    /\ call[c].req.kind = "begin" => BeginKnows(c)
    /\ call[c].req.kind = "end" => EndKnows(c)
    /\ call[c].req.kind = "event" => EventKnows(c)

AuditInv ==
    /\ Tables
    /\ \A k \in RunKeys : RowKnows(k)
    /\ KeysAreUnique
    /\ \A c \in Calls : CallKnows(c)

\* The tables hold finitely many rows, and a history reads finitely many of them.
FiniteTables == IsFiniteSet({k \in RunKeys : Stored(k)}) /\ IsFiniteSet(receipts)
HistoriesAreBounded ==
    /\ history \in [Readers -> HistoryType]
    /\ \A q \in Readers :
          /\ IsFiniteSet(history[q].rows)
          /\ Cardinality(history[q].rows) <= IF history[q].pc = "done" THEN Limit ELSE ReadCap
HistoryInv == FiniteTables /\ HistoriesAreBounded

\* A set of n rows none of which is earlier than `row`.
FilledAhead(rows, n, row) == Cardinality(rows) = n /\ \A t \in rows : t.at.at >= row.at.at

\* What a history knows between its two reads: the receipts that were stored are still
\* there, and a run it left out made place for as many later ones as it may read.
HistoryKnows(q) ==
    LET h == history[q] IN
    /\ h.pc # "idle" => h.since \in Stamp
    /\ h.pc = "receipts" => \A row \in h.tables :
          \/ row \in ReceiptRows
          \/ row.at.at >= h.since.at => row \in h.rows \/ FilledAhead(h.rows, ReadCap, row)
    /\ h.pc = "done" => \A row \in h.tables \ h.rows :
          row.at.at >= h.since.at => FilledAhead(h.rows, Limit, row)

\* The body of AuditOnlyGrows: what a step leaves of the rows it finds.
RowsKept ==
    \A k \in RunKeys : Stored(k) =>
        /\ Stored(k)' /\ runs'[k].contract = runs[k].contract /\ runs'[k].key = runs[k].key
        /\ runs[k].start # None => runs'[k].start = runs[k].start
        /\ runs[k].final # None => runs'[k].final = runs[k].final

\* A step that changes one call, which has not ended.
Moves(c) ==
    /\ call[c].pc # "done"
    /\ call' \in [Calls -> CallType]
    /\ \A d \in Calls \ {c} : call'[d] = call[d]

----------------------------------------------------------------------------
(* Rows, requests and calls *)

\* An absent row is told from a stored one by its contract (normalizeRow).
LEMMA RowIs ==
    ASSUME NEW r \in RunType \cup {NoRun}
    PROVE  /\ r # NoRun <=> r \in RunType
           /\ r # NoRun <=> r.contract \in {"run-v2", "legacy-event-v1"}
           /\ NoRun.contract = "none"
<1>1. NoRun.contract = "none"
  BY DEF NoRun
<1>2. r \in RunType => r.contract \in {"run-v2", "legacy-event-v1"}
  BY DEF RunType
<1> QED
  BY <1>1, <1>2

\* A request's parts, by its tool (the input schemas).
LEMMA RequestIs ==
    ASSUME NEW req \in Requests
    PROVE  /\ req.kind = "begin" => req.task \in Tasks /\ req.key \in Invocations \cup {None}
           /\ req.kind = "end" => req.run \in Calls /\ req.final \in Finals
           /\ req.kind = "event" => req.event \in EventType /\ EventKey(req.event) \in RunKeys
           /\ req.kind \in {"begin", "end", "event"}
<1>1. CASE req \in [kind : {"begin"}, task : Tasks, key : Invocations \cup {None}]
  BY <1>1
<1>2. CASE req \in [kind : {"end"}, run : Calls, final : Finals]
  BY <1>2
<1>3. CASE req \in [kind : {"event"}, event : Events]
  <2>1. req.event \in EventType /\ req.kind = "event"
    BY <1>3, AutomationAssumption
  <2>2. EventKey(req.event) \in RunKeys
    BY <2>1 DEF EventKey, EventType, RunKeys
  <2> QED
    BY <2>1, <2>2
<1> QED
  BY <1>1, <1>2, <1>3 DEF Requests

\* What answering does to the calls.
LEMMA AnswerIs ==
    ASSUME NEW c \in Calls, call \in [Calls -> CallType], call[c].pc # "done",
           NEW status \in Answers, NEW run \in RunKeys \cup {None}, Answer(c, status, run)
    PROVE  /\ Moves(c) /\ call'[c].pc = "done" /\ call'[c].req = call[c].req
           /\ call'[c].status = status /\ call'[c].run = run
<1> DEFINE new == [call[c] EXCEPT !.pc = "done", !.status = status, !.run = run]
<1>1. call' = [call EXCEPT ![c] = new]
  BY DEF Answer
<1>2. /\ new \in CallType /\ new.pc = "done" /\ new.req = call[c].req
      /\ new.status = status /\ new.run = run
  BY DEF CallType, PCs
<1> HIDE DEF new
<1>3. /\ call' \in [Calls -> CallType] /\ call'[c] = new
      /\ \A d \in Calls \ {c} : call'[d] = call[d]
  BY <1>1, <1>2
<1> QED
  BY <1>2, <1>3 DEF Moves

\* What going on to the next statement does to the calls.
LEMMA GotoIs ==
    ASSUME NEW c \in Calls, call \in [Calls -> CallType], call[c].pc # "done",
           NEW pc \in PCs, Goto(c, pc)
    PROVE  /\ Moves(c) /\ call'[c].pc = pc /\ call'[c].req = call[c].req
           /\ call'[c].status = call[c].status /\ call'[c].run = call[c].run
           /\ call'[c].inserts = call[c].inserts
<1> DEFINE new == [call[c] EXCEPT !.pc = pc]
<1>1. call' = [call EXCEPT ![c] = new]
  BY DEF Goto
<1>2. /\ new \in CallType /\ new.pc = pc /\ new.req = call[c].req
      /\ new.status = call[c].status /\ new.run = call[c].run /\ new.inserts = call[c].inserts
  BY DEF CallType
<1> HIDE DEF new
<1>3. /\ call' \in [Calls -> CallType] /\ call'[c] = new
      /\ \A d \in Calls \ {c} : call'[d] = call[d]
  BY <1>1, <1>2
<1> QED
  BY <1>2, <1>3 DEF Moves

\* Storage failures stay within their bound.
LEMMA FaultsAre ==
    ASSUME faults \in 0..MaxFaults, Fault \/ NoFault
    PROVE  faults' \in 0..MaxFaults
BY AutomationAssumption DEF Fault, NoFault

----------------------------------------------------------------------------
(* What a step keeps *)

\* A row a step leaves unchanged, or absent, is kept.
LEMMA RowsKeptIf ==
    ASSUME \A k \in RunKeys : Stored(k) => runs'[k] = runs[k]
    PROVE  RowsKept
BY DEF RowsKept, Stored

\* A call that a step does not touch knows afterwards what it knew: its row keeps
\* its contract, its key and every payload it has.
LEMMA OthersKnow ==
    ASSUME Tables, RowsKept, NEW d \in Calls, CallKnows(d), call'[d] = call[d]
    PROVE  CallKnows(d)'
<1> DEFINE req == call[d].req
           k == call[d].run
<1>1. call[d] \in CallType /\ k \in RunKeys \cup {None}
  BY DEF Tables, CallType
<1>2. req \in Requests \cup {NoRequest}
  BY <1>1 DEF CallType
<1>3. \A l \in RunKeys : runs[l] \in RunType \cup {NoRun}
  BY DEF Tables
<1>4. \A l \in RunKeys : runs[l].contract \in {"run-v2", "legacy-event-v1"} <=> Stored(l)
  BY <1>3, RowIs DEF Stored
<1>5. NoRequest.kind = "none"
  BY DEF NoRequest
<1>6. req.kind = "begin" => BeginKnows(d)'
  <2> SUFFICES ASSUME req.kind = "begin", k # None
               PROVE  /\ call[d].pc = "done" /\ Stored(k)'
                      /\ k[1] = req.task /\ runs'[k].key = req.key
    BY DEF BeginKnows, Stored
  <2>1. /\ call[d].pc = "done" /\ Stored(k) /\ k[1] = req.task /\ runs[k].key = req.key
    BY DEF CallKnows, BeginKnows
  <2> QED
    BY <1>1, <2>1 DEF RowsKept
<1>7. req.kind = "end" => EndKnows(d)'
  <2> SUFFICES ASSUME req.kind = "end"
               PROVE  EndKnows(d)'
    OBVIOUS
  <2>1. EndKnows(d)
    BY DEF CallKnows
  <2>2. k \in RunKeys /\ Stored(k) =>
           /\ Stored(k)' /\ runs'[k].contract = runs[k].contract
           /\ runs[k].final # None => runs'[k].final = runs[k].final
    BY <1>1 DEF RowsKept
  <2>3. k \in RunKeys /\ runs[k].contract = "run-v2" => Stored(k)
    BY <1>1, <1>4
  <2> QED
    BY <2>1, <2>2, <2>3 DEF EndKnows, Stored
<1>8. req.kind = "event" => EventKnows(d)'
  <2> SUFFICES ASSUME req.kind = "event"
               PROVE  EventKnows(d)'
    OBVIOUS
  <2> DEFINE e == req.event
             l == EventKey(e)
  <2>1. EventKnows(d)
    BY DEF CallKnows
  <2>2. e \in EventType /\ l \in RunKeys
    BY <1>2, <1>5, RequestIs
  <2>3. e.payload # None
    BY <2>2, AutomationAssumption DEF EventType
  <2>4. Stored(l) =>
           /\ Stored(l)' /\ runs'[l].contract = runs[l].contract
           /\ runs[l].start # None => runs'[l].start = runs[l].start
           /\ runs[l].final # None => runs'[l].final = runs[l].final
    BY <2>2 DEF RowsKept
  <2>5. Stored(l) /\ HashOf(runs[l], e.phase) # None
        => HashOf(runs'[l], e.phase) = HashOf(runs[l], e.phase)
    BY <2>4 DEF HashOf
  <2>6. runs[l].contract = "legacy-event-v1" => Stored(l)
    BY <1>4, <2>2
  <2> HIDE DEF l, e
  <2>7. /\ call[d].pc = "write" /\ ~call[d].inserts => runs[l].contract = "legacy-event-v1"
        /\ call[d].pc = "confirm" => Stored(l) /\ call[d].status \in {"RECORDED", "IDEMPOTENT_REPLAY"}
        /\ call[d].pc = "done" /\ call[d].status \in Settled =>
              /\ k = l /\ Stored(l)
              /\ call[d].status # "CONFLICT" => HashOf(runs[l], e.phase) = e.payload
              /\ call[d].status = "CONFLICT" /\ runs[l].contract = "legacy-event-v1"
                 => HashOf(runs[l], e.phase) \notin {None, e.payload}
    BY <2>1 DEF EventKnows, l, e
  <2>8. /\ call[d].pc = "write" /\ ~call[d].inserts => runs'[l].contract = "legacy-event-v1"
        /\ call[d].pc = "confirm" => Stored(l)' /\ call[d].status \in {"RECORDED", "IDEMPOTENT_REPLAY"}
        /\ call[d].pc = "done" /\ call[d].status \in Settled =>
              /\ k = l /\ Stored(l)'
              /\ call[d].status # "CONFLICT" => HashOf(runs'[l], e.phase) = e.payload
              /\ call[d].status = "CONFLICT" /\ runs'[l].contract = "legacy-event-v1"
                 => HashOf(runs'[l], e.phase) \notin {None, e.payload}
    BY <2>3, <2>4, <2>5, <2>6, <2>7
  <2> QED
    BY <2>8 DEF EventKnows, HashOf, Stored, l, e, EventKey
<1> QED
  BY <1>6, <1>7, <1>8 DEF CallKnows


\* A row keeps what it knows of its call, which has ended and is not the one that moves.
LEMMA RowStays ==
    ASSUME NEW c \in Calls, Moves(c), NEW k \in RunKeys, RowKnows(k),
           /\ runs'[k].contract = runs[k].contract /\ runs'[k].key = runs[k].key
           /\ runs[k].contract = "run-v2" => runs'[k].start = runs[k].start
    PROVE  RowKnows(k)'
<1>1. runs[k].contract = "run-v2" => k[2] \in Calls /\ call'[k[2]] = call[k[2]]
  BY DEF RowKnows, Moves
<1> QED
  BY <1>1 DEF RowKnows

\* A step that only reads the tables, and moves a call on, preserves the invariant if
\* the call knows what its new place in the handler asks for.
LEMMA ReadStep ==
    ASSUME AuditInv, NEW c \in Calls, Moves(c), runs' = runs, receipts' = receipts, now' = now,
           faults' \in 0..MaxFaults, CallKnows(c)'
    PROVE  AuditInv' /\ RowsKept
<1>1. RowsKept
  BY RowsKeptIf
<1>2. Tables'
  BY DEF AuditInv, Tables, Moves
<1>3. \A k \in RunKeys : RowKnows(k)'
  BY RowStays DEF AuditInv
<1>4. KeysAreUnique'
  BY DEF AuditInv, KeysAreUnique, Stored
<1>5. ASSUME NEW d \in Calls
      PROVE  CallKnows(d)'
  <2>1. CASE d = c
    BY <2>1
  <2>2. CASE d # c
    <3>1. call'[d] = call[d] /\ CallKnows(d) /\ Tables
      BY <2>2 DEF AuditInv, Moves
    <3> QED
      BY <1>1, <3>1, OthersKnow
  <2> QED
    BY <2>1, <2>2
<1> QED
  BY <1>1, <1>2, <1>3, <1>4, <1>5 DEF AuditInv

\* A step that answers without speaking of a row leaves the call knowing nothing.
LEMMA AnsweredNothing ==
    ASSUME NEW c \in Calls, call'[c].pc = "done", call'[c].run = None,
           call'[c].status \notin Settled
    PROVE  CallKnows(c)'
BY DEF CallKnows, BeginKnows, EndKnows, EventKnows

----------------------------------------------------------------------------
(* The steps *)

\* parseLegacyEvent refuses an event.
LEMMA RefuseStep ==
    ASSUME AuditInv, NEW c \in Calls, Refuse(c)
    PROVE  AuditInv' /\ RowsKept
<1>1. /\ call \in [Calls -> CallType] /\ call[c].pc # "done" /\ Answer(c, "INVALID", None)
      /\ faults \in 0..MaxFaults
  BY DEF AuditInv, Tables, Refuse
<1>2. Moves(c) /\ call'[c].pc = "done" /\ call'[c].status = "INVALID" /\ call'[c].run = None
  BY <1>1, AnswerIs DEF Answers
<1>3. CallKnows(c)'
  BY <1>2, AnsweredNothing DEF Settled
<1> QED
  BY <1>1, <1>2, <1>3, ReadStep DEF Refuse

\* What failing does to the calls.
LEMMA FailIs ==
    ASSUME NEW c \in Calls, call \in [Calls -> CallType], call[c].pc # "done", Fail(c)
    PROVE  Moves(c) /\ CallKnows(c)' /\ call'[c].req = call[c].req
<1>1. /\ Moves(c) /\ call'[c].pc = "done" /\ call'[c].status = "UNAVAILABLE"
      /\ call'[c].run = None /\ call'[c].req = call[c].req
  BY AnswerIs DEF Fail, Answers
<1> QED
  BY <1>1, AnsweredNothing DEF Settled

\* A storage call throws, or the isolate is evicted.
LEMMA DieStep ==
    ASSUME AuditInv, NEW c \in Calls, Die(c)
    PROVE  AuditInv' /\ RowsKept
<1>1. call \in [Calls -> CallType] /\ call[c].pc # "done" /\ Fail(c)
  BY DEF AuditInv, Tables, Die
<1>2. Moves(c) /\ CallKnows(c)'
  BY <1>1, FailIs
<1>3. faults' \in 0..MaxFaults
  BY FaultsAre DEF AuditInv, Tables, Die
<1> QED
  BY <1>2, <1>3, ReadStep DEF Die

\* begin_run answers a run it finds under its invocation key.
LEMMA BeginReplays ==
    ASSUME AuditInv, NEW c \in Calls, call[c].pc # "done", call[c].req.kind = "begin",
           NEW k \in WithInvocation(call[c].req.task, call[c].req.key),
           Answer(c, "IDEMPOTENT_REPLAY", k)
    PROVE  Moves(c) /\ (runs' = runs => CallKnows(c)')
<1>1. call \in [Calls -> CallType] /\ k \in RunKeys
  BY DEF AuditInv, Tables, WithInvocation
<1>2. /\ Moves(c) /\ call'[c].pc = "done" /\ call'[c].req = call[c].req
      /\ call'[c].status = "IDEMPOTENT_REPLAY" /\ call'[c].run = k
  BY <1>1, AnswerIs DEF Answers
<1>3. Stored(k) /\ k[1] = call[c].req.task /\ runs[k].key = call[c].req.key
  BY DEF WithInvocation
<1>4. runs' = runs => CallKnows(c)'
  BY <1>2, <1>3 DEF CallKnows, BeginKnows, Stored
<1> QED
  BY <1>2, <1>4

\* A call goes on without a row.
LEMMA GoesOn ==
    ASSUME AuditInv, NEW c \in Calls, NEW pc \in {"write", "confirm"}, call[c].req \in Requests,
           call[c].req.kind = "begin", call[c].pc \notin {"idle", "done"}, Goto(c, pc)
    PROVE  Moves(c) /\ CallKnows(c)' /\ call'[c].req = call[c].req
<1>1. call \in [Calls -> CallType] /\ BeginKnows(c)
  BY DEF AuditInv, Tables, CallKnows
<1>2. /\ Moves(c) /\ call'[c].pc = pc /\ call'[c].req = call[c].req
      /\ call'[c].run = call[c].run
  BY <1>1, GotoIs DEF PCs
<1>3. call[c].run = None
  BY <1>1 DEF BeginKnows
<1> QED
  BY <1>2, <1>3 DEF CallKnows, BeginKnows

LEMMA BeginReadStep ==
    ASSUME AuditInv, NEW c \in Calls, BeginRead(c)
    PROVE  AuditInv' /\ RowsKept
<1>1. /\ call[c].pc = "read" /\ call[c].req.kind = "begin"
      /\ runs' = runs /\ receipts' = receipts /\ now' = now /\ faults' = faults
      /\ faults \in 0..MaxFaults
  BY DEF BeginRead, AuditInv, Tables
<1>2. call[c].req \in Requests
  BY <1>1 DEF AuditInv, CallKnows
<1>3. Moves(c) /\ CallKnows(c)'
  <2>1. CASE \E k \in WithInvocation(call[c].req.task, call[c].req.key) :
                Answer(c, "IDEMPOTENT_REPLAY", k)
    BY <1>1, <2>1, BeginReplays
  <2>2. CASE Goto(c, "write")
    BY <1>1, <1>2, <2>2, GoesOn
  <2> QED
    BY <2>1, <2>2 DEF BeginRead
<1> QED
  BY <1>1, <1>3, ReadStep

LEMMA BeginConfirmStep ==
    ASSUME AuditInv, NEW c \in Calls, BeginConfirm(c)
    PROVE  AuditInv' /\ RowsKept
<1>1. /\ call[c].pc = "confirm" /\ call[c].req.kind = "begin"
      /\ runs' = runs /\ receipts' = receipts /\ now' = now /\ faults' = faults
      /\ faults \in 0..MaxFaults /\ call \in [Calls -> CallType]
  BY DEF BeginConfirm, AuditInv, Tables
<1>2. Moves(c) /\ CallKnows(c)'
  <2>1. CASE \E k \in WithInvocation(call[c].req.task, call[c].req.key) :
                Answer(c, "IDEMPOTENT_REPLAY", k)
    BY <1>1, <2>1, BeginReplays
  <2>2. CASE Fail(c)
    BY <1>1, <2>2, FailIs
  <2> QED
    BY <2>1, <2>2 DEF BeginConfirm
<1> QED
  BY <1>1, <1>2, ReadStep

\* end_run reads the run of its id, and answers if it has an outcome.
LEMMA EndReadStep ==
    ASSUME AuditInv, NEW c \in Calls, EndRead(c)
    PROVE  AuditInv' /\ RowsKept
<1> DEFINE req == call[c].req
<1>1. /\ call[c].pc = "read" /\ req.kind = "end"
      /\ runs' = runs /\ receipts' = receipts /\ now' = now /\ faults' = faults
      /\ faults \in 0..MaxFaults /\ call \in [Calls -> CallType]
  BY DEF EndRead, AuditInv, Tables
<1>2. req \in Requests
  BY <1>1 DEF AuditInv, CallKnows
<1>3. Moves(c) /\ CallKnows(c)'
  <2>1. CASE Answer(c, "NOT_FOUND", None)
    <3>1. /\ Moves(c) /\ call'[c].pc = "done" /\ call'[c].status = "NOT_FOUND"
          /\ call'[c].run = None
      BY <1>1, <2>1, AnswerIs DEF Answers
    <3> QED
      BY <3>1, AnsweredNothing DEF Settled
  <2>2. ASSUME NEW k \in V2WithId(req.run), runs[k].final = None,
               call' = [call EXCEPT ![c].pc = "write", ![c].run = k]
        PROVE  Moves(c) /\ CallKnows(c)'
    <3> DEFINE new == [call[c] EXCEPT !.pc = "write", !.run = k]
    <3>1. k \in RunKeys /\ runs[k].contract = "run-v2"
      BY DEF V2WithId
    <3>2. call' = [call EXCEPT ![c] = new]
      BY <2>2
    <3>3. new \in CallType /\ new.pc = "write" /\ new.run = k /\ new.req = req
      BY <1>1, <3>1 DEF CallType, PCs
    <3> HIDE DEF new
    <3>4. /\ call' \in [Calls -> CallType] /\ call'[c] = new
          /\ \A d \in Calls \ {c} : call'[d] = call[d]
      BY <1>1, <3>2, <3>3
    <3> QED
      BY <1>1, <1>2, <3>1, <3>3, <3>4 DEF CallKnows, EndKnows, Moves
  <2>3. ASSUME NEW k \in V2WithId(req.run), runs[k].final # None,
               Answer(c, IF runs[k].final = req.final THEN "IDEMPOTENT_REPLAY" ELSE "CONFLICT", k)
        PROVE  Moves(c) /\ CallKnows(c)'
    <3> DEFINE status == IF runs[k].final = req.final THEN "IDEMPOTENT_REPLAY" ELSE "CONFLICT"
    <3>1. k \in RunKeys /\ runs[k].contract = "run-v2"
      BY DEF V2WithId
    <3>2. status \in Answers /\ Answer(c, status, k)
          /\ (runs[k].final = req.final <=> status # "CONFLICT")
      BY <2>3 DEF Answers
    <3> HIDE DEF status
    <3>3. /\ Moves(c) /\ call'[c].pc = "done" /\ call'[c].req = req
          /\ call'[c].status = status /\ call'[c].run = k
      BY <1>1, <3>1, <3>2, AnswerIs
    <3>4. runs[k] # NoRun
      BY <3>1, <1>1, RowIs DEF AuditInv, Tables
    <3> QED
      BY <1>1, <2>3, <3>1, <3>2, <3>3, <3>4 DEF CallKnows, EndKnows, Stored
  <2> QED
    BY <2>1, <2>2, <2>3 DEF EndRead
<1> QED
  BY <1>1, <1>3, ReadStep

\* end_run answers what its row reads back.
LEMMA EndConfirmStep ==
    ASSUME AuditInv, NEW c \in Calls, EndConfirm(c)
    PROVE  AuditInv' /\ RowsKept
<1> DEFINE req == call[c].req
           k == call[c].run
           status == EndStatus(runs[k], req)
<1>1. /\ call[c].pc = "confirm" /\ req.kind = "end" /\ Answer(c, status, k)
      /\ runs' = runs /\ receipts' = receipts /\ now' = now /\ faults' = faults
      /\ faults \in 0..MaxFaults /\ call \in [Calls -> CallType]
  BY DEF EndConfirm, AuditInv, Tables
<1>2. k \in RunKeys /\ runs[k].contract = "run-v2" /\ runs[k].final # None
  BY <1>1 DEF AuditInv, CallKnows, EndKnows
<1>3. status \in Answers /\ (runs[k].final = req.final <=> status # "CONFLICT")
  BY DEF EndStatus, Answers
<1>4. runs[k] # NoRun
  BY <1>1, <1>2, RowIs DEF AuditInv, Tables
<1> HIDE DEF status
<1>5. /\ Moves(c) /\ call'[c].pc = "done" /\ call'[c].req = req
      /\ call'[c].status = status /\ call'[c].run = k
  BY <1>1, <1>2, <1>3, AnswerIs
<1>6. CallKnows(c)'
  BY <1>1, <1>2, <1>3, <1>4, <1>5 DEF CallKnows, EndKnows, Stored
<1> QED
  BY <1>1, <1>5, <1>6, ReadStep

\* What a call that records an event and its row know before it answers: the
\* request is well-formed and the row, if there is one, has a contract.
LEMMA EventCallIs ==
    ASSUME AuditInv, NEW c \in Calls, call[c].pc \notin {"idle", "done"},
           call[c].req.kind = "event"
    PROVE  /\ call[c].req \in Requests /\ call[c].req.event \in EventType
           /\ EventKey(call[c].req.event) \in RunKeys
           /\ call[c].req.event.payload \in Finals /\ call[c].req.event.payload # None
           /\ runs[EventKey(call[c].req.event)] \in RunType \cup {NoRun}
           /\ EventKnows(c)
<1>1. call[c].req \in Requests /\ EventKnows(c)
  BY DEF AuditInv, CallKnows
<1>2. call[c].req.event \in EventType /\ EventKey(call[c].req.event) \in RunKeys
  BY <1>1, RequestIs
<1>3. call[c].req.event.payload \in Finals
  BY <1>2 DEF EventType
<1> QED
  BY <1>1, <1>2, <1>3, AutomationAssumption DEF AuditInv, Tables

\* The answer to an event, given of the row what it is meant to say.
LEMMA EventAnswered ==
    ASSUME AuditInv, NEW c \in Calls, call[c].pc \notin {"idle", "done"},
           call[c].req.kind = "event", runs' = runs,
           NEW status \in Answers,
           LET e == call[c].req.event
               r == runs[EventKey(e)] IN
           /\ Answer(c, status, EventKey(e))
           /\ status \in Settled =>
                 /\ r # NoRun
                 /\ status # "CONFLICT" => HashOf(r, e.phase) = e.payload
                 /\ status = "CONFLICT" /\ r.contract = "legacy-event-v1"
                    => HashOf(r, e.phase) \notin {None, e.payload}
    PROVE  Moves(c) /\ CallKnows(c)'
<1> DEFINE e == call[c].req.event
           k == EventKey(e)
<1>1. call \in [Calls -> CallType] /\ k \in RunKeys
  BY EventCallIs DEF AuditInv, Tables
<1>2. /\ Moves(c) /\ call'[c].pc = "done" /\ call'[c].req = call[c].req
      /\ call'[c].status = status /\ call'[c].run = k
  BY <1>1, AnswerIs
<1>3. EventKnows(c)'
  BY <1>2 DEF EventKnows, Stored, EventKey, HashOf
<1> QED
  BY <1>2, <1>3 DEF CallKnows

\* An event reads its row, and answers if its phase is recorded or the row is a run.
LEMMA EventReadStep ==
    ASSUME AuditInv, NEW c \in Calls, EventRead(c)
    PROVE  AuditInv' /\ RowsKept
<1> DEFINE e == call[c].req.event
           k == EventKey(e)
           hash == HashOf(runs[k], e.phase)
<1>1. /\ call[c].pc = "read" /\ call[c].req.kind = "event"
      /\ runs' = runs /\ receipts' = receipts /\ now' = now /\ faults' = faults
      /\ faults \in 0..MaxFaults /\ call \in [Calls -> CallType]
  BY DEF EventRead, AuditInv, Tables
<1>2. /\ call[c].req \in Requests /\ k \in RunKeys /\ e.payload \in Finals /\ e.payload # None
      /\ runs[k] \in RunType \cup {NoRun}
  BY <1>1, EventCallIs
<1>3. Moves(c) /\ CallKnows(c)'
  <2>1. CASE call' = [call EXCEPT ![c].pc = "write", ![c].inserts = TRUE]
    <3> DEFINE new == [call[c] EXCEPT !.pc = "write", !.inserts = TRUE]
    <3>1. call' = [call EXCEPT ![c] = new]
      BY <2>1
    <3>2. new \in CallType /\ new.pc = "write" /\ new.req = call[c].req /\ new.inserts = TRUE
      BY <1>1 DEF CallType, PCs
    <3> HIDE DEF new
    <3>3. /\ call' \in [Calls -> CallType] /\ call'[c] = new
          /\ \A d \in Calls \ {c} : call'[d] = call[d]
      BY <1>1, <3>1, <3>2
    <3> QED
      BY <1>1, <1>2, <3>2, <3>3 DEF CallKnows, EventKnows, Moves
  <2>2. CASE /\ runs[k] # NoRun /\ runs[k].contract # "legacy-event-v1"
             /\ Answer(c, "CONFLICT", k)
    BY <1>1, <2>2, EventAnswered DEF Answers
  <2>3. CASE runs[k] # NoRun /\ runs[k].contract = "legacy-event-v1" /\ Goto(c, "write")
    <3>1. /\ Moves(c) /\ call'[c].pc = "write" /\ call'[c].req = call[c].req
      BY <1>1, <2>3, GotoIs DEF PCs
    <3> QED
      BY <1>1, <1>2, <2>3, <3>1 DEF CallKnows, EventKnows
  <2>4. CASE /\ runs[k] # NoRun /\ hash # None
             /\ Answer(c, IF hash = e.payload THEN "IDEMPOTENT_REPLAY" ELSE "CONFLICT", k)
    <3> DEFINE status == IF hash = e.payload THEN "IDEMPOTENT_REPLAY" ELSE "CONFLICT"
    <3>1. /\ status \in Answers /\ Answer(c, status, k)
          /\ status # "CONFLICT" => hash = e.payload
          /\ status = "CONFLICT" => hash \notin {None, e.payload}
      BY <2>4 DEF Answers
    <3> HIDE DEF status
    <3> QED
      BY <1>1, <2>4, <3>1, EventAnswered
  <2> QED
    BY <1>1, <2>1, <2>2, <2>3, <2>4 DEF EventRead, Stored
<1> QED
  BY <1>1, <1>3, ReadStep

\* An event answers what its row reads back.
LEMMA EventConfirmStep ==
    ASSUME AuditInv, NEW c \in Calls, EventConfirm(c)
    PROVE  AuditInv' /\ RowsKept
<1> DEFINE e == call[c].req.event
           k == EventKey(e)
           hash == HashOf(runs[k], e.phase)
           status == IF hash = e.payload THEN call[c].status
                     ELSE IF hash = None THEN "UNAVAILABLE" ELSE "CONFLICT"
<1>1. /\ call[c].pc = "confirm" /\ call[c].req.kind = "event" /\ Answer(c, status, k)
      /\ runs' = runs /\ receipts' = receipts /\ now' = now /\ faults' = faults
      /\ faults \in 0..MaxFaults
  BY DEF EventConfirm, AuditInv, Tables
<1>2. /\ Stored(k) /\ call[c].status \in {"RECORDED", "IDEMPOTENT_REPLAY"}
  BY <1>1, EventCallIs DEF EventKnows
<1>3. /\ status \in Answers
      /\ status \in Settled /\ status # "CONFLICT" => hash = e.payload
      /\ status = "CONFLICT" => hash \notin {None, e.payload}
  BY <1>2 DEF Answers, Settled
<1> HIDE DEF status
<1>4. Moves(c) /\ CallKnows(c)'
  BY <1>1, <1>2, <1>3, EventAnswered DEF Stored
<1> QED
  BY <1>1, <1>4, ReadStep

----------------------------------------------------------------------------
(* The steps that write a row *)

\* A write by a call that keeps the rows, and what they know, preserves the invariant.
LEMMA WriteStep ==
    ASSUME AuditInv, NEW c \in Calls, Moves(c), runs' \in [RunKeys -> RunType \cup {NoRun}],
           receipts' = receipts, now' = now, faults' \in 0..MaxFaults, RowsKept,
           \A k \in RunKeys : RowKnows(k)', KeysAreUnique', CallKnows(c)'
    PROVE  AuditInv'
<1>1. Tables'
  BY DEF AuditInv, Tables, Moves
<1>2. ASSUME NEW d \in Calls
      PROVE  CallKnows(d)'
  <2>1. CASE d = c
    BY <2>1
  <2>2. CASE d # c
    <3>1. call'[d] = call[d] /\ CallKnows(d) /\ Tables
      BY <2>2 DEF AuditInv, Moves
    <3> QED
      BY <3>1, OthersKnow
  <2> QED
    BY <2>1, <2>2
<1> QED
  BY <1>1, <1>2 DEF AuditInv

\* Keys stay unique if a stored row keeps its key and a new one has none.
LEMMA KeysStay ==
    ASSUME AuditInv, \A k \in RunKeys : Stored(k)' =>
              (Stored(k) /\ runs'[k].key = runs[k].key) \/ runs'[k].key = None
    PROVE  KeysAreUnique'
<1> SUFFICES ASSUME NEW k \in RunKeys, NEW l \in RunKeys, Stored(k)', Stored(l)',
                    k[1] = l[1], runs'[k].key = runs'[l].key, runs'[k].key # None
             PROVE  k = l
  BY DEF KeysAreUnique, Stored
<1> QED
  BY DEF AuditInv, KeysAreUnique

\* begin_run inserts its row, or has the insert ignored.
LEMMA BeginWriteStep ==
    ASSUME AuditInv, NEW c \in Calls, BeginWrite(c)
    PROVE  AuditInv' /\ RowsKept
<1> DEFINE req == call[c].req
           k == <<req.task, c>>
           row == BeginRow(req)
<1>1. /\ call[c].pc = "write" /\ req.kind = "begin"
      /\ receipts' = receipts /\ now' = now /\ call \in [Calls -> CallType]
      /\ faults \in 0..MaxFaults /\ now \in 0..MaxTime
      /\ runs \in [RunKeys -> RunType \cup {NoRun}]
  BY DEF BeginWrite, AuditInv, Tables
<1>2. req \in Requests /\ req.task \in Tasks /\ req.key \in Invocations \cup {None}
  BY <1>1, RequestIs DEF AuditInv, CallKnows
<1>3. CASE Goto(c, "confirm") /\ runs' = runs /\ faults' = faults
  <2>1. Moves(c) /\ CallKnows(c)'
    BY <1>1, <1>2, <1>3, GoesOn
  <2> QED
    BY <1>1, <1>3, <2>1, ReadStep
<1>4. CASE /\ ~BeginIgnored(req, k) /\ runs' = [runs EXCEPT ![k] = row]
           /\ \/ NoFault /\ Answer(c, "RECORDED", k)
              \/ Fault /\ Fail(c)
  <2>1. k \in RunKeys /\ k[1] = req.task /\ k[2] = c
    BY <1>2 DEF RunKeys
  <2>2. /\ row \in RunType /\ row.contract = "run-v2" /\ row.key = req.key
        /\ row.start = None /\ row # NoRun
    BY <1>1, <1>2 DEF BeginRow, RunType, Server, Stamp, NoStamp, NoRun
  <2> HIDE DEF row
  <2>3. /\ runs' \in [RunKeys -> RunType \cup {NoRun}] /\ runs'[k] = row
        /\ \A l \in RunKeys \ {k} : runs'[l] = runs[l]
    BY <1>1, <1>4, <2>1, <2>2
  <2>4. ~Stored(k) /\ (req.key # None => WithInvocation(req.task, req.key) = {})
    BY <1>4 DEF BeginIgnored
  <2>5. RowsKept
    BY <2>3, <2>4, RowsKeptIf
  <2>6. /\ Moves(c) /\ call'[c].pc = "done" /\ call'[c].req = req
        /\ call'[c].run \in {k, None}
    <3>1. CASE Answer(c, "RECORDED", k)
      BY <1>1, <2>1, <3>1, AnswerIs DEF Answers
    <3>2. CASE Answer(c, "UNAVAILABLE", None)
      BY <1>1, <3>2, AnswerIs DEF Answers
    <3> QED
      BY <1>4, <3>1, <3>2 DEF Fail
  <2>7. ASSUME NEW l \in RunKeys
        PROVE  RowKnows(l)'
    <3>1. CASE l = k
      BY <1>1, <2>1, <2>2, <2>3, <2>6, <3>1 DEF RowKnows
    <3>2. CASE l # k
      BY <2>3, <2>6, <3>2, RowStays DEF AuditInv
    <3> QED
      BY <3>1, <3>2
  <2>8. KeysAreUnique'
    <3> SUFFICES ASSUME NEW i \in RunKeys, NEW j \in RunKeys, Stored(i)', Stored(j)',
                        i[1] = j[1], runs'[i].key = runs'[j].key, runs'[i].key # None
                 PROVE  i = j
      BY DEF KeysAreUnique, Stored
    <3>1. ASSUME NEW l \in RunKeys \ {k}, Stored(l)', l[1] = req.task, req.key # None
          PROVE  runs'[l].key # req.key
      BY <2>3, <2>4, <3>1 DEF WithInvocation, Stored
    <3>2. CASE i = k \/ j = k
      BY <2>1, <2>2, <2>3, <3>1, <3>2
    <3>3. CASE i # k /\ j # k
      BY <2>3, <3>3 DEF AuditInv, KeysAreUnique, Stored
    <3> QED
      BY <3>2, <3>3
  <2>9. CallKnows(c)'
    BY <1>1, <2>1, <2>2, <2>3, <2>6 DEF CallKnows, BeginKnows, Stored
  <2>10. faults' \in 0..MaxFaults
    BY <1>1, <1>4, FaultsAre
  <2> QED
    BY <1>1, <2>3, <2>5, <2>6, <2>7, <2>8, <2>9, <2>10, WriteStep
<1> QED
  BY <1>3, <1>4 DEF BeginWrite

\* A run with the outcome of an end_run (UPDATE automation_runs_v2).
EndedRow(r, final, finished) == [r EXCEPT !.final = final, !.finished = finished]

LEMMA EndedRowIs ==
    ASSUME NEW r \in RunType, NEW final \in Finals, NEW finished \in Stamp,
           NEW new, new = EndedRow(r, final, finished)
    PROVE  /\ new \in RunType /\ new.contract = r.contract /\ new.key = r.key
           /\ new.start = r.start /\ new.final = final
BY DEF EndedRow, RunType

\* end_run writes its outcome into the row it read, if that has none.
LEMMA EndWriteStep ==
    ASSUME AuditInv, NEW c \in Calls, EndWrite(c)
    PROVE  AuditInv' /\ RowsKept
<1> DEFINE req == call[c].req
           k == call[c].run
<1>1. /\ call[c].pc = "write" /\ req.kind = "end"
      /\ receipts' = receipts /\ now' = now /\ call \in [Calls -> CallType]
      /\ faults \in 0..MaxFaults /\ now \in 0..MaxTime
      /\ runs \in [RunKeys -> RunType \cup {NoRun}]
  BY DEF EndWrite, AuditInv, Tables
<1>2. req \in Requests /\ req.final \in Finals /\ req.final # None
  BY <1>1, RequestIs, AutomationAssumption DEF AuditInv, CallKnows
<1>3. k \in RunKeys /\ runs[k].contract = "run-v2"
  BY <1>1 DEF AuditInv, CallKnows, EndKnows
<1>4. runs[k] \in RunType /\ Stored(k)
  BY <1>1, <1>3, RowIs DEF Stored
<1>5. /\ runs' \in [RunKeys -> RunType \cup {NoRun}]
      /\ \A l \in RunKeys \ {k} : runs'[l] = runs[l]
      /\ runs'[k] \in RunType /\ runs'[k].contract = "run-v2" /\ runs'[k].key = runs[k].key
      /\ runs'[k].start = runs[k].start /\ runs'[k].final # None
      /\ runs[k].final # None => runs'[k].final = runs[k].final
  <2>1. CASE runs[k].final # None
    BY <1>1, <1>3, <1>4, <2>1 DEF EndWrite, MayEnd
  <2>2. CASE runs[k].final = None
    <3> DEFINE row == EndedRow(runs[k], req.final, Server)
    <3>1. runs' = [runs EXCEPT ![k] = row]
      BY <2>2 DEF EndWrite, MayEnd, EndedRow
    <3>2. Server \in Stamp
      BY <1>1 DEF Server, Stamp
    <3>3. /\ row \in RunType /\ row.contract = "run-v2" /\ row.key = runs[k].key
          /\ row.start = runs[k].start /\ row.final = req.final
      BY <1>2, <1>3, <1>4, <3>2, EndedRowIs
    <3> HIDE DEF row
    <3> QED
      BY <1>1, <1>2, <1>3, <2>2, <3>1, <3>3
  <2> QED
    BY <2>1, <2>2
<1>6. RowsKept
  <2> SUFFICES ASSUME NEW l \in RunKeys, Stored(l)
               PROVE  /\ Stored(l)' /\ runs'[l].contract = runs[l].contract
                      /\ runs'[l].key = runs[l].key
                      /\ runs[l].start # None => runs'[l].start = runs[l].start
                      /\ runs[l].final # None => runs'[l].final = runs[l].final
    BY DEF RowsKept
  <2>1. runs'[k] # NoRun
    BY <1>5, RowIs
  <2> QED
    BY <1>3, <1>5, <2>1 DEF Stored
<1>7. /\ Moves(c) /\ CallKnows(c)'
  <2>1. CASE Goto(c, "confirm")
    <3>1. Moves(c) /\ call'[c].pc = "confirm" /\ call'[c].req = req /\ call'[c].run = k
      BY <1>1, <2>1, GotoIs DEF PCs
    <3> QED
      BY <1>1, <1>2, <1>3, <1>5, <3>1 DEF CallKnows, EndKnows
  <2>2. CASE Fail(c)
    BY <1>1, <2>2, FailIs
  <2> QED
    BY <2>1, <2>2 DEF EndWrite
<1>8. \A l \in RunKeys : RowKnows(l)'
  <2> SUFFICES ASSUME NEW l \in RunKeys
               PROVE  RowKnows(l)'
    OBVIOUS
  <2>1. /\ runs'[l].contract = runs[l].contract /\ runs'[l].key = runs[l].key
        /\ runs'[l].start = runs[l].start
    BY <1>3, <1>5
  <2> QED
    BY <1>7, <2>1, RowStays DEF AuditInv
<1>9. KeysAreUnique'
  <2>1. \A l \in RunKeys : Stored(l)' => Stored(l) /\ runs'[l].key = runs[l].key
    BY <1>4, <1>5 DEF Stored
  <2> QED
    BY <2>1, KeysStay
<1>10. faults' \in 0..MaxFaults
  BY <1>1, FaultsAre DEF EndWrite
<1> QED
  BY <1>1, <1>5, <1>6, <1>7, <1>8, <1>9, <1>10, WriteStep

----------------------------------------------------------------------------
(* Legacy events and the copy of the v1 table *)

\* What recording a phase does to a row of the legacy contract.
LEMMA WithEventIs ==
    ASSUME NEW r \in RunType, NEW e \in EventType,
           HashOf(r, e.phase) = None, NEW new, new = WithEvent(r, e)
    PROVE  /\ new \in RunType /\ new.contract = r.contract /\ new.key = r.key
           /\ r.start # None => new.start = r.start
           /\ r.final # None => new.final = r.final
<1>1. e.payload \in Finals /\ e.occurred \in Stamp
  BY DEF EventType
<1>2. CASE e.phase = "STARTED"
  <2> DEFINE at == IF r.started = NoStamp THEN e.occurred ELSE r.started
  <2>1. new = [r EXCEPT !.start = e.payload, !.started = at]
    BY <1>2 DEF WithEvent
  <2>2. at \in Stamp \cup {NoStamp}
    BY <1>1 DEF RunType
  <2> HIDE DEF at
  <2>3. /\ new \in RunType /\ new.contract = r.contract /\ new.key = r.key
        /\ new.final = r.final
    BY <1>1, <2>1, <2>2 DEF RunType
  <2>4. r.start = None
    BY <1>2 DEF HashOf
  <2> QED
    BY <2>3, <2>4
<1>3. CASE e.phase # "STARTED"
  <2>1. new = [r EXCEPT !.final = e.payload, !.finished = e.occurred]
    BY <1>3 DEF WithEvent
  <2>2. /\ new \in RunType /\ new.contract = r.contract /\ new.key = r.key
        /\ new.start = r.start
    BY <1>1, <2>1 DEF RunType
  <2>3. r.final = None
    BY <1>3 DEF HashOf
  <2> QED
    BY <2>2, <2>3
<1> QED
  BY <1>2, <1>3

\* The row of a first event.
LEMMA EventRowIs ==
    ASSUME NEW e \in EventType, NEW new, new = EventRow(e)
    PROVE  new \in RunType /\ new.contract = "legacy-event-v1" /\ new.key = None
<1> DEFINE r == [contract |-> "legacy-event-v1", key |-> None, start |-> None, final |-> None,
                 started |-> NoStamp, finished |-> NoStamp]
<1>1. r \in RunType /\ r.contract = "legacy-event-v1" /\ r.key = None
  BY DEF RunType
<1>2. HashOf(r, e.phase) = None
  BY DEF HashOf
<1>3. new = WithEvent(r, e)
  BY DEF EventRow
<1> HIDE DEF r
<1> QED
  BY <1>1, <1>2, <1>3, WithEventIs

\* A row of events of the old table.
LEMMA MigratedRowIs ==
    ASSUME NEW k \in RunKeys, NEW new, new = MigratedRun(k)
    PROVE  new \in RunType /\ new.contract = "legacy-event-v1" /\ new.key = None
<1> DEFINE of(phase) == {e \in Migrated : e.task = k[1] /\ e.run = k[2] /\ e.phase = phase}
           hash(phase) == IF of(phase) = {} THEN None ELSE (CHOOSE e \in of(phase) : TRUE).payload
           at(phase) == IF of(phase) = {} THEN NoStamp ELSE (CHOOSE e \in of(phase) : TRUE).occurred
<1>1. ASSUME NEW phase
      PROVE  hash(phase) \in Finals \cup {None} /\ at(phase) \in Stamp \cup {NoStamp}
  <2>1. CASE of(phase) = {}
    BY <2>1
  <2>2. CASE of(phase) # {}
    <3> DEFINE e == CHOOSE e \in of(phase) : TRUE
    <3>1. e \in of(phase)
      BY <2>2
    <3>2. e \in EventType
      BY <3>1, AutomationAssumption
    <3> HIDE DEF e
    <3>3. e.payload \in Finals /\ e.occurred \in Stamp
      BY <3>2 DEF EventType
    <3> QED
      BY <2>2, <3>3 DEF e
  <2> QED
    BY <2>1, <2>2
<1>2. new = [contract |-> "legacy-event-v1", key |-> None, start |-> hash("STARTED"),
             final |-> hash("FINAL"), started |-> at("STARTED"), finished |-> at("FINAL")]
  BY DEF MigratedRun
<1> HIDE DEF hash, at
<1> QED
  BY <1>1, <1>2 DEF RunType

\* A row that a step adds to those it keeps, and that bears no key: what the audit knows
\* is preserved.
LEMMA LegacyRowsKnow ==
    ASSUME AuditInv, NEW c \in Calls, Moves(c),
           \A k \in RunKeys :
              \/ runs'[k] = runs[k]
              \/ /\ runs[k].contract # "run-v2"
                 /\ runs'[k].contract = "legacy-event-v1" /\ runs'[k].key = None
    PROVE  (\A k \in RunKeys : RowKnows(k)') /\ KeysAreUnique'
<1>1. ASSUME NEW k \in RunKeys
      PROVE  RowKnows(k)'
  <2>1. CASE runs'[k] = runs[k]
    BY <2>1, RowStays DEF AuditInv
  <2>2. CASE runs'[k].contract = "legacy-event-v1" /\ runs'[k].key = None
    BY <2>2 DEF RowKnows
  <2> QED
    BY <2>1, <2>2
<1>2. KeysAreUnique'
  <2>1. \A k \in RunKeys : Stored(k)' =>
           (Stored(k) /\ runs'[k].key = runs[k].key) \/ runs'[k].key = None
    BY DEF Stored
  <2> QED
    BY <2>1, KeysStay
<1> QED
  BY <1>1, <1>2

\* An event inserts its row, updates it, or finds that another call did.
LEMMA EventWriteStep ==
    ASSUME AuditInv, NEW c \in Calls, EventWrite(c)
    PROVE  AuditInv' /\ RowsKept
<1> DEFINE req == call[c].req
           e == req.event
           k == EventKey(e)
           r == runs[k]
<1>1. /\ call[c].pc = "write" /\ req.kind = "event"
      /\ receipts' = receipts /\ now' = now /\ call \in [Calls -> CallType]
      /\ faults \in 0..MaxFaults
      /\ runs \in [RunKeys -> RunType \cup {NoRun}]
  BY DEF EventWrite, AuditInv, Tables
<1>2. /\ req \in Requests /\ e \in EventType /\ k \in RunKeys
      /\ r \in RunType \cup {NoRun}
      /\ ~call[c].inserts => r.contract = "legacy-event-v1"
  BY <1>1, EventCallIs DEF EventKnows
<1>3. r # NoRun <=> r \in RunType
  BY <1>2, RowIs
<1>4. r.contract = "legacy-event-v1" => r \in RunType
  BY <1>2, RowIs
<1>5. /\ runs' \in [RunKeys -> RunType \cup {NoRun}]
      /\ \A l \in RunKeys \ {k} : runs'[l] = runs[l]
      /\ runs'[k] \in RunType
      /\ \/ runs'[k] = r
         \/ /\ r = NoRun
            /\ runs'[k].contract = "legacy-event-v1" /\ runs'[k].key = None
         \/ /\ r.contract = "legacy-event-v1"
            /\ runs'[k].contract = r.contract /\ runs'[k].key = r.key
            /\ r.start # None => runs'[k].start = r.start
            /\ r.final # None => runs'[k].final = r.final
  <2>1. CASE ~EventApplies(c, e)
    <3>1. runs' = runs
      BY <2>1 DEF EventWrite
    <3>2. r # NoRun
      BY <1>2, <1>3, <1>4, <2>1 DEF EventApplies
    <3> QED
      BY <1>1, <1>2, <1>3, <3>1, <3>2
  <2>2. CASE EventApplies(c, e) /\ call[c].inserts
    <3> DEFINE row == EventRow(e)
    <3>1. runs' = [runs EXCEPT ![k] = row] /\ r = NoRun
      BY <2>2 DEF EventWrite, EventApplies
    <3>2. row \in RunType /\ row.contract = "legacy-event-v1" /\ row.key = None
      BY <1>2, EventRowIs
    <3> HIDE DEF row
    <3> QED
      BY <1>1, <1>2, <3>1, <3>2
  <2>3. CASE EventApplies(c, e) /\ ~call[c].inserts
    <3> DEFINE row == WithEvent(r, e)
    <3>1. /\ runs' = [runs EXCEPT ![k] = row]
          /\ r.contract = "legacy-event-v1" /\ HashOf(r, e.phase) = None
      BY <2>3 DEF EventWrite, EventApplies
    <3>2. r \in RunType
      BY <1>4, <3>1
    <3>3. /\ row \in RunType /\ row.contract = r.contract /\ row.key = r.key
          /\ r.start # None => row.start = r.start
          /\ r.final # None => row.final = r.final
      BY <1>2, <3>1, <3>2, WithEventIs
    <3> HIDE DEF row
    <3> QED
      BY <1>1, <1>2, <3>1, <3>3
  <2> QED
    BY <2>1, <2>2, <2>3
<1>6. runs'[k] # NoRun
  BY <1>5, RowIs
<1>7. RowsKept
  <2> SUFFICES ASSUME NEW l \in RunKeys, Stored(l)
               PROVE  /\ Stored(l)' /\ runs'[l].contract = runs[l].contract
                      /\ runs'[l].key = runs[l].key
                      /\ runs[l].start # None => runs'[l].start = runs[l].start
                      /\ runs[l].final # None => runs'[l].final = runs[l].final
    BY DEF RowsKept
  <2> QED
    BY <1>5, <1>6 DEF Stored
<1>8. Moves(c) /\ CallKnows(c)'
  <2>1. ASSUME NEW status \in {"RECORDED", "IDEMPOTENT_REPLAY"},
               call' = [call EXCEPT ![c].pc = "confirm", ![c].status = status]
        PROVE  Moves(c) /\ CallKnows(c)'
    <3> DEFINE new == [call[c] EXCEPT !.pc = "confirm", !.status = status]
    <3>1. call' = [call EXCEPT ![c] = new]
      BY <2>1
    <3>2. new \in CallType /\ new.pc = "confirm" /\ new.req = req /\ new.status = status
      BY <1>1, <2>1 DEF CallType, PCs, Answers
    <3> HIDE DEF new
    <3>3. /\ call' \in [Calls -> CallType] /\ call'[c] = new
          /\ \A d \in Calls \ {c} : call'[d] = call[d]
      BY <1>1, <3>1, <3>2
    <3> QED
      BY <1>1, <1>2, <1>6, <3>2, <3>3 DEF CallKnows, EventKnows, Moves, Stored, EventKey
  <2>2. CASE Fail(c)
    BY <1>1, <2>2, FailIs
  <2> QED
    BY <2>1, <2>2 DEF EventWrite
<1>9. (\A l \in RunKeys : RowKnows(l)') /\ KeysAreUnique'
  <2>1. NoRun.contract = "none"
    BY DEF NoRun
  <2>2. r.contract = "legacy-event-v1" => r.key = None
    BY <1>2 DEF AuditInv, RowKnows
  <2>3. \A l \in RunKeys :
           \/ runs'[l] = runs[l]
           \/ /\ runs[l].contract # "run-v2"
              /\ runs'[l].contract = "legacy-event-v1" /\ runs'[l].key = None
    BY <1>5, <2>1, <2>2
  <2> QED
    BY <1>8, <2>3, LegacyRowsKnow
<1>10. faults' \in 0..MaxFaults
  BY <1>1, FaultsAre DEF EventWrite
<1> QED
  BY <1>1, <1>5, <1>7, <1>8, <1>9, <1>10, WriteStep

\* What a call may start with is a request.
LEMMA StartedIsRequest ==
    ASSUME NEW req \in [kind : {"begin"}, task : Tasks, key : Invocations \cup {None}]
                       \cup [kind : {"end"}, run : Calls, final : Finals]
                       \cup {Route(e) : e \in {e \in Events : Valid(e)}}
    PROVE  req \in Requests
<1>1. ASSUME NEW e \in Events, req = Route(e)
      PROVE  req \in Requests
  <2>1. e \in EventType
    BY AutomationAssumption
  <2>2. e.task \in Tasks /\ e.payload \in Finals
    BY <2>1 DEF EventType
  <2>3. CASE e.run = ServerAuto /\ e.phase = "STARTED"
    <3>1. req = [kind |-> "begin", task |-> e.task, key |-> None]
      BY <1>1, <2>3 DEF Route
    <3> QED
      BY <2>2, <3>1 DEF Requests
  <2>4. CASE ~(e.run = ServerAuto /\ e.phase = "STARTED") /\ e.run \in Calls /\ e.phase = "FINAL"
    <3>1. req = [kind |-> "end", run |-> e.run, final |-> e.payload]
      BY <1>1, <2>4 DEF Route
    <3> QED
      BY <2>2, <2>4, <3>1 DEF Requests
  <2>5. CASE /\ ~(e.run = ServerAuto /\ e.phase = "STARTED")
             /\ ~(e.run \in Calls /\ e.phase = "FINAL")
    <3>1. req = [kind |-> "event", event |-> e]
      BY <1>1, <2>5 DEF Route
    <3> QED
      BY <3>1 DEF Requests
  <2> QED
    BY <2>3, <2>4, <2>5
<1> QED
  BY <1>1 DEF Requests

\* A call starts: the table is created and filled from the old one.
LEMMA StartStep ==
    ASSUME AuditInv, NEW c \in Calls, Start(c)
    PROVE  AuditInv' /\ RowsKept
<1>1. /\ call[c].pc = "idle" /\ runs' = Ensured /\ call[c] = NoCall
      /\ receipts' = receipts /\ now' = now /\ faults' = faults /\ faults \in 0..MaxFaults
      /\ call \in [Calls -> CallType] /\ runs \in [RunKeys -> RunType \cup {NoRun}]
  BY DEF Start, AuditInv, Tables, CallKnows
<1>2. PICK req \in [kind : {"begin"}, task : Tasks, key : Invocations \cup {None}]
                   \cup [kind : {"end"}, run : Calls, final : Finals]
                   \cup {Route(e) : e \in {e \in Events : Valid(e)}} :
         call' = [call EXCEPT ![c].pc = "read", ![c].req = req]
  BY DEF Start
<1>3. req \in Requests
  BY StartedIsRequest
<1>4. /\ Moves(c) /\ call'[c].pc = "read" /\ call'[c].req = req /\ call'[c].run = None
  <2> DEFINE new == [call[c] EXCEPT !.pc = "read", !.req = req]
  <2>1. call' = [call EXCEPT ![c] = new]
    BY <1>2
  <2>2. new \in CallType /\ new.pc = "read" /\ new.req = req /\ new.run = None
    <3>1. NoCall.run = None
      BY DEF NoCall
    <3>2. call[c] \in CallType /\ call[c].run = None
      BY <1>1, <3>1
    <3> QED
      BY <1>3, <3>2 DEF CallType, PCs
  <2> HIDE DEF new
  <2> QED
    BY <1>1, <2>1, <2>2 DEF Moves
<1>5. CallKnows(c)'
  BY <1>3, <1>4 DEF CallKnows, BeginKnows, EndKnows, EventKnows
<1>6. ASSUME NEW k \in RunKeys
      PROVE  /\ Stored(k) => runs'[k] = runs[k]
             /\ \/ runs'[k] = runs[k]
                \/ /\ runs[k] = NoRun /\ runs'[k] \in RunType
                   /\ runs'[k].contract = "legacy-event-v1" /\ runs'[k].key = None
  <2>1. runs'[k] = IF ~Stored(k) /\ \E e \in Migrated : e.task = k[1] /\ e.run = k[2]
                   THEN MigratedRun(k) ELSE runs[k]
    BY <1>1 DEF Ensured
  <2> DEFINE row == MigratedRun(k)
  <2>2. row \in RunType /\ row.contract = "legacy-event-v1" /\ row.key = None
    BY MigratedRowIs
  <2> HIDE DEF row
  <2> QED
    BY <2>1, <2>2 DEF Stored, row
<1>7. RowsKept
  BY <1>6, RowsKeptIf
<1>8. runs' \in [RunKeys -> RunType \cup {NoRun}]
  <2>1. \A k \in RunKeys : runs'[k] \in RunType \cup {NoRun}
    BY <1>1, <1>6
  <2>2. runs' = [k \in RunKeys |-> runs'[k]]
    BY <1>1 DEF Ensured
  <2> QED
    BY <2>1, <2>2
<1>9. (\A k \in RunKeys : RowKnows(k)') /\ KeysAreUnique'
  <2>1. NoRun.contract = "none"
    BY DEF NoRun
  <2>2. \A k \in RunKeys :
           \/ runs'[k] = runs[k]
           \/ /\ runs[k].contract # "run-v2"
              /\ runs'[k].contract = "legacy-event-v1" /\ runs'[k].key = None
    BY <1>6, <2>1
  <2> QED
    BY <1>4, <2>2, LegacyRowsKnow
<1> QED
  BY <1>1, <1>4, <1>5, <1>7, <1>8, <1>9, WriteStep

----------------------------------------------------------------------------
(* The audit *)

\* At first the table is empty and no call has begun.
LEMMA InitAudit ==
    ASSUME Init
    PROVE  AuditInv
<1>1. \A c \in Calls : call[c] = NoCall
  BY DEF Init
<1>2. /\ NoCall \in CallType /\ NoCall.pc = "idle" /\ NoCall.req = NoRequest
  BY DEF NoCall, CallType, PCs, Answers
<1>3. NoRequest.kind = "none" /\ NoRun.contract = "none"
  BY DEF NoRequest, NoRun
<1>4. Tables
  BY <1>2, AutomationAssumption DEF Init, Tables
<1>5. \A c \in Calls : CallKnows(c)
  BY <1>1, <1>2, <1>3 DEF CallKnows
<1>6. (\A k \in RunKeys : RowKnows(k)) /\ KeysAreUnique
  BY <1>3 DEF Init, RowKnows, KeysAreUnique, Stored
<1> QED
  BY <1>4, <1>5, <1>6 DEF AuditInv

\* A step that leaves the audit table and the calls alone.
LEMMA ElsewhereStep ==
    ASSUME AuditInv, runs' = runs, call' = call, receipts' \subseteq Receipts,
           now' \in 0..MaxTime, faults' = faults
    PROVE  AuditInv' /\ RowsKept
<1>1. RowsKept
  BY RowsKeptIf
<1>2. Tables'
  BY DEF AuditInv, Tables
<1>3. (\A k \in RunKeys : RowKnows(k)') /\ KeysAreUnique'
  BY DEF AuditInv, RowKnows, KeysAreUnique, Stored
<1>4. \A c \in Calls : CallKnows(c)'
  BY <1>1, OthersKnow DEF AuditInv
<1> QED
  BY <1>1, <1>2, <1>3, <1>4 DEF AuditInv

\* Every step preserves the invariant and keeps the rows.
LEMMA AuditStep ==
    ASSUME AuditInv, [Next]_vars
    PROVE  AuditInv' /\ RowsKept
<1>1. /\ receipts \subseteq Receipts /\ now \in 0..MaxTime /\ MaxTime \in Nat
  BY AutomationAssumption DEF AuditInv, Tables
<1>2. ASSUME NEW c \in Calls,
             \/ Start(c) \/ Refuse(c) \/ Die(c)
             \/ BeginRead(c) \/ BeginWrite(c) \/ BeginConfirm(c)
             \/ EndRead(c) \/ EndWrite(c) \/ EndConfirm(c)
             \/ EventRead(c) \/ EventWrite(c) \/ EventConfirm(c)
      PROVE  AuditInv' /\ RowsKept
  BY <1>2, StartStep, RefuseStep, DieStep, BeginReadStep, BeginWriteStep, BeginConfirmStep,
     EndReadStep, EndWriteStep, EndConfirmStep, EventReadStep, EventWriteStep, EventConfirmStep
<1>3. ASSUME NEW q \in Readers, ReadRuns(q) \/ ReadReceipts(q)
      PROVE  AuditInv' /\ RowsKept
  BY <1>1, <1>3, ElsewhereStep DEF ReadRuns, ReadReceipts
<1>4. CASE Receive
  BY <1>1, <1>4, ElsewhereStep DEF Receive
<1>5. CASE Tick
  BY <1>1, <1>5, ElsewhereStep DEF Tick
<1>6. CASE UNCHANGED vars
  BY <1>1, <1>6, ElsewhereStep DEF vars
<1> QED
  BY <1>2, <1>3, <1>4, <1>5, <1>6 DEF Next

\* What the tables and the calls know of each other holds in every state.
THEOREM AuditInvariant == Spec => []AuditInv
<1>1. Init => AuditInv
  BY InitAudit
<1>2. AuditInv /\ [Next]_vars => AuditInv'
  BY AuditStep
<1> QED
  BY <1>1, <1>2, PTL DEF Spec

\* An invocation key begins one run: begins that race, retry after a lost answer or
\* repeat the key later are all answered the one run stored under it
\* (beginAutomationRun, the unique index on the invocation).
THEOREM InvocationsNameOneRun == Spec => []InvocationNamesOneRun
<1>1. ASSUME AuditInv
      PROVE  InvocationNamesOneRun
  <2> SUFFICES ASSUME NEW c \in Calls, call[c].req.kind = "begin", call[c].req.key # None,
                      call[c].run # None
               PROVE  WithInvocation(call[c].req.task, call[c].req.key) = {call[c].run}
    BY DEF InvocationNamesOneRun
  <2>1. /\ Stored(call[c].run) /\ call[c].run[1] = call[c].req.task
        /\ runs[call[c].run].key = call[c].req.key
    BY <1>1 DEF AuditInv, CallKnows, BeginKnows
  <2>2. call[c].run \in RunKeys
    BY <1>1 DEF AuditInv, Tables, CallType
  <2>3. \A k \in WithInvocation(call[c].req.task, call[c].req.key) : k = call[c].run
    BY <1>1, <2>1, <2>2 DEF WithInvocation, AuditInv, KeysAreUnique
  <2>4. call[c].run \in WithInvocation(call[c].req.task, call[c].req.key)
    BY <2>1, <2>2 DEF WithInvocation
  <2> QED
    BY <2>3, <2>4
<1> QED
  BY <1>1, AuditInvariant, PTL

\* What end_run and record_automation_run acknowledged is in its row for good, and what
\* they refused as a conflict is not (the reads that confirm their updates).
THEOREM AnswersAreInTheRow == Spec => []AnswersMatchTheRow
<1>1. ASSUME AuditInv
      PROVE  AnswersMatchTheRow
  <2> SUFFICES ASSUME NEW c \in Calls, call[c].pc = "done"
               PROVE  LET req == call[c].req
                          k == call[c].run IN
                      /\ req.kind = "end" =>
                            /\ Acknowledged(c) => runs[k].final = req.final
                            /\ call[c].status = "CONFLICT" => runs[k].final \notin {None, req.final}
                      /\ req.kind = "event" =>
                            /\ Acknowledged(c) => HashOf(runs[k], req.event.phase) = req.event.payload
                            /\ call[c].status = "CONFLICT" /\ runs[k].contract = "legacy-event-v1"
                               => HashOf(runs[k], req.event.phase) \notin {None, req.event.payload}
    BY DEF AnswersMatchTheRow
  <2>1. call[c].req.kind = "end" => EndKnows(c)
    BY <1>1 DEF AuditInv, CallKnows
  <2>2. call[c].req.kind = "event" => EventKnows(c)
    BY <1>1 DEF AuditInv, CallKnows
  <2>3. CASE call[c].req.kind = "end"
    BY <2>1, <2>3 DEF EndKnows, Acknowledged, Settled
  <2>4. CASE call[c].req.kind = "event"
    BY <2>2, <2>4 DEF EventKnows, Acknowledged, Settled
  <2> QED
    BY <2>3, <2>4
<1> QED
  BY <1>1, AuditInvariant, PTL

\* No call removes a run, rewrites a recorded start or outcome, or moves a run to the
\* other contract or another invocation (INSERT OR IGNORE, the guards of the updates).
THEOREM TheAuditOnlyGrows == Spec => AuditOnlyGrows
<1>1. AuditInv /\ [Next]_vars
      => [\A k \in RunKeys : Stored(k) =>
            /\ Stored(k)' /\ runs'[k].contract = runs[k].contract /\ runs'[k].key = runs[k].key
            /\ runs[k].start # None => runs'[k].start = runs[k].start
            /\ runs[k].final # None => runs'[k].final = runs[k].final]_vars
  BY AuditStep DEF RowsKept
<1> QED
  BY <1>1, AuditInvariant, PTL DEF Spec, AuditOnlyGrows

\* A run id names at most one run of begin_run.
RunIdsAreUnique == \A id \in Calls : \A k, l \in V2WithId(id) : k = l

\* The id is drawn by one call and stored under that call's task, so endAutomationRun
\* never finds two candidates ("run_id is not unique" is unreachable).
THEOREM RunIdsNameOneRun == Spec => []RunIdsAreUnique
<1>1. ASSUME AuditInv
      PROVE  RunIdsAreUnique
  <2> SUFFICES ASSUME NEW id \in Calls, NEW k \in V2WithId(id), NEW l \in V2WithId(id)
               PROVE  k = l
    BY DEF RunIdsAreUnique
  <2>1. /\ k \in RunKeys /\ l \in RunKeys /\ k[2] = id /\ l[2] = id
        /\ k[1] = call[id].req.task /\ l[1] = call[id].req.task
    BY <1>1 DEF V2WithId, AuditInv, RowKnows
  <2> QED
    BY <2>1 DEF RunKeys
<1> QED
  BY <1>1, AuditInvariant, PTL

----------------------------------------------------------------------------
(* The histories *)

\* The image of a finite set under a function is finite.
LEMMA ImageIsFinite ==
    ASSUME NEW S, IsFiniteSet(S), NEW f
    PROVE  IsFiniteSet({f[x] : x \in S})
<1> DEFINE T == {f[x] : x \in S}
           g == [x \in S |-> f[x]]
<1>1. g \in Surjection(S, T)
  BY DEF Surjection
<1> HIDE DEF g, T
<1>2. IsFiniteSet(T)
  BY <1>1, FS_Surjection
<1> QED
  BY <1>2 DEF T

\* The latest n rows of a set: finitely many, at most n, and all of them or n of which
\* none has a lesser key than one left out.
LEMMA LatestIs ==
    ASSUME NEW S, IsFiniteSet(S), NEW n \in Nat, NEW key, NEW T \in Latest(S, n, key)
    PROVE  /\ T \subseteq S /\ IsFiniteSet(T) /\ Cardinality(T) \in Nat /\ Cardinality(T) <= n
           /\ T = S \/ (Cardinality(T) = n /\ \A t \in T, s \in S \ T : key[t] >= key[s])
<1>1. /\ T \subseteq S
      /\ (T = S /\ Cardinality(S) <= n)
         \/ (Cardinality(T) = n /\ \A t \in T, s \in S \ T : key[t] >= key[s])
  BY DEF Latest
<1>2. IsFiniteSet(T)
  BY <1>1, FS_Subset
<1>3. Cardinality(T) \in Nat
  BY <1>2, FS_CardinalityType
<1> QED
  BY <1>1, <1>2, <1>3

\* The rows of the two tables are finitely many audit rows.
LEMMA RowsAre ==
    ASSUME AuditInv, FiniteTables
    PROVE  /\ RunRows \subseteq AuditRows /\ IsFiniteSet(RunRows)
           /\ ReceiptRows \subseteq AuditRows /\ IsFiniteSet(ReceiptRows)
<1>1. ASSUME NEW k \in RunKeys, Stored(k)
      PROVE  RunRow(k, runs[k]) \in AuditRows
  <2>1. runs[k] \in RunType
    BY <1>1, RowIs DEF AuditInv, Tables, Stored
  <2>2. StampOf(runs[k]) \in Stamp \cup {NoStamp}
    BY <2>1 DEF StampOf, RunType
  <2>3. runs[k].contract \in {"run-v2", "legacy-event-v1"}
    BY <2>1 DEF RunType
  <2>4. k[1] \in Tasks /\ k[2] \in LegacyIds \cup Calls \cup {ServerAuto}
    BY DEF RunKeys
  <2> QED
    BY <2>2, <2>3, <2>4 DEF RunRow, AuditRows
<1>2. ASSUME NEW r \in receipts
      PROVE  ReceiptRow(r) \in AuditRows
  BY DEF ReceiptRow, AuditRows, Receipts, AuditInv, Tables, Stamp
<1>3. IsFiniteSet(RunRows)
  <2> DEFINE stored == {k \in RunKeys : Stored(k)}
             row == [k \in stored |-> RunRow(k, runs[k])]
  <2>1. RunRows = {row[k] : k \in stored}
    BY DEF RunRows
  <2>2. IsFiniteSet(stored)
    BY DEF FiniteTables
  <2> HIDE DEF row, stored
  <2>3. IsFiniteSet({row[k] : k \in stored})
    BY <2>2, ImageIsFinite
  <2> QED
    BY <2>1, <2>3
<1>4. IsFiniteSet(ReceiptRows)
  <2> DEFINE row == [r \in receipts |-> ReceiptRow(r)]
  <2>1. ReceiptRows = {row[r] : r \in receipts}
    BY DEF ReceiptRows
  <2>2. IsFiniteSet(receipts)
    BY DEF FiniteTables
  <2> HIDE DEF row
  <2>3. IsFiniteSet({row[r] : r \in receipts})
    BY <2>2, ImageIsFinite
  <2> QED
    BY <2>1, <2>3
<1>5. RunRows \subseteq AuditRows /\ ReceiptRows \subseteq AuditRows
  BY <1>1, <1>2 DEF RunRows, ReceiptRows
<1> QED
  BY <1>3, <1>4, <1>5

\* A history that has been asked for, before its rows are read.
Began(since, tables) ==
    [NoHistory EXCEPT !.pc = "receipts", !.since = since, !.tables = tables]

LEMMA BeganIs ==
    ASSUME NEW since \in Stamp \cup {NoStamp}, NEW tables \in SUBSET AuditRows,
           NEW rows \in SUBSET AuditRows
    PROVE  LET new == [Began(since, tables) EXCEPT !.rows = rows] IN
           /\ Began(since, tables).since = since
           /\ new \in HistoryType /\ new.pc = "receipts" /\ new.since = since
           /\ new.rows = rows /\ new.tables = tables
<1> DEFINE h == Began(since, tables)
<1>1. NoHistory \in HistoryType
  BY DEF NoHistory, HistoryType
<1>2. /\ h \in HistoryType /\ h.pc = "receipts" /\ h.since = since /\ h.tables = tables
  BY <1>1 DEF Began, HistoryType
<1> HIDE DEF h
<1>3. LET new == [h EXCEPT !.rows = rows] IN
      /\ h.since = since
      /\ new \in HistoryType /\ new.pc = "receipts" /\ new.since = since
      /\ new.rows = rows /\ new.tables = tables
  BY <1>2 DEF HistoryType
<1> QED
  BY <1>3 DEF h

\* What the first read of a history does.
LEMMA RunsRead ==
    ASSUME AuditInv, HistoryInv, NEW q \in Readers, ReadRuns(q)
    PROVE  \E h \in HistoryType :
              /\ history' = [history EXCEPT ![q] = h]
              /\ h.pc = "receipts" /\ h.since \in Stamp
              /\ h.tables = RunRows \cup ReceiptRows
              /\ IsFiniteSet(h.rows) /\ Cardinality(h.rows) <= ReadCap
              /\ LET found == {row \in RunRows : InWindow(h, row)} IN
                 h.rows \in Latest(found, ReadCap, ByText(found))
<1>1. PICK since \in Stamp :
         LET h == [NoHistory EXCEPT !.pc = "receipts", !.since = since,
                                    !.tables = RunRows \cup ReceiptRows] IN
         LET rows == {row \in RunRows : InWindow(h, row)} IN
         \E S \in Latest(rows, ReadCap, ByText(rows)) :
            history' = [history EXCEPT ![q] = [h EXCEPT !.rows = S]]
  BY DEF ReadRuns
<1> DEFINE h == Began(since, RunRows \cup ReceiptRows)
           found == {row \in RunRows : InWindow(h, row)}
<1>2. PICK S \in Latest(found, ReadCap, ByText(found)) :
         history' = [history EXCEPT ![q] = [h EXCEPT !.rows = S]]
  BY <1>1 DEF Began
<1>3. found \subseteq RunRows /\ IsFiniteSet(found)
  BY RowsAre, FS_Subset DEF HistoryInv
<1>4. S \subseteq found /\ IsFiniteSet(S) /\ Cardinality(S) <= ReadCap
  <2> HIDE DEF found
  <2> QED
    BY <1>3, LatestIs, AutomationAssumption
<1>5. S \in SUBSET AuditRows /\ RunRows \cup ReceiptRows \in SUBSET AuditRows
  BY <1>3, <1>4, RowsAre DEF HistoryInv
<1>6. since \in Stamp \cup {NoStamp}
  OBVIOUS
<1> DEFINE new == [h EXCEPT !.rows = S]
<1>7. h.since = since
  BY <1>5, <1>6, BeganIs
<1>8. /\ new \in HistoryType /\ new.pc = "receipts" /\ new.since = since /\ new.rows = S
      /\ new.tables = RunRows \cup ReceiptRows
  BY <1>5, <1>6, BeganIs
<1> HIDE DEF new, h
<1>9. found = {row \in RunRows : InWindow(new, row)}
  BY <1>7, <1>8 DEF InWindow
<1> HIDE DEF found
<1> QED
  BY <1>2, <1>4, <1>8, <1>9 DEF new

\* What the second read of a history does.
LEMMA ReceiptsRead ==
    ASSUME AuditInv, HistoryInv, NEW q \in Readers, ReadReceipts(q)
    PROVE  LET h == history[q]
               found == {row \in ReceiptRows : InWindow(h, row)} IN
           \E S \in Latest(found, ReadCap, ByText(found)), new \in HistoryType :
              /\ history' = [history EXCEPT ![q] = new]
              /\ S \subseteq found /\ IsFiniteSet(found) /\ IsFiniteSet(S) /\ IsFiniteSet(h.rows)
              /\ new.rows \in Latest(h.rows \cup S, Limit, ByInstant(h.rows \cup S))
              /\ IsFiniteSet(new.rows) /\ Cardinality(new.rows) <= Limit
              /\ h.pc = "receipts" /\ new.pc = "done"
              /\ new.since = h.since /\ new.tables = h.tables
<1> DEFINE h == history[q]
           found == {row \in ReceiptRows : InWindow(h, row)}
<1>1. PICK S \in Latest(found, ReadCap, ByText(found)) :
         \E rows \in Merged(h.rows, S) :
            history' = [history EXCEPT ![q].pc = "done", ![q].rows = rows]
  BY DEF ReadReceipts
<1>2. PICK rows \in Latest(h.rows \cup S, Limit, ByInstant(h.rows \cup S)) :
         history' = [history EXCEPT ![q].pc = "done", ![q].rows = rows]
  BY <1>1 DEF Merged
<1>3. /\ h \in HistoryType /\ IsFiniteSet(h.rows) /\ h.pc = "receipts"
  BY DEF HistoryInv, HistoriesAreBounded, ReadReceipts
<1>4. /\ found \subseteq ReceiptRows /\ IsFiniteSet(found) /\ ReceiptRows \subseteq AuditRows
  BY RowsAre, FS_Subset DEF HistoryInv
<1> HIDE DEF found
<1>5. S \subseteq found /\ IsFiniteSet(S)
  BY <1>4, LatestIs, AutomationAssumption
<1>6. IsFiniteSet(h.rows \cup S)
  BY <1>3, <1>5, FS_Union
<1>7. rows \subseteq h.rows \cup S /\ IsFiniteSet(rows) /\ Cardinality(rows) <= Limit
  BY <1>6, LatestIs, AutomationAssumption
<1> DEFINE new == [h EXCEPT !.pc = "done", !.rows = rows]
<1>8. history' = [history EXCEPT ![q] = new]
  BY <1>2
<1>9. rows \subseteq AuditRows
  BY <1>3, <1>4, <1>5, <1>7 DEF HistoryType
<1>10. /\ new \in HistoryType /\ new.pc = "done" /\ new.rows = rows
       /\ new.since = h.since /\ new.tables = h.tables
  BY <1>3, <1>9 DEF HistoryType
<1> HIDE DEF new, h
<1> QED
  BY <1>2, <1>3, <1>4, <1>5, <1>7, <1>8, <1>10 DEF found, h

\* A step stores rows for the events of the old table, or for one call.
LEMMA StoredIsFinite ==
    ASSUME AuditInv, FiniteTables, [Next]_vars
    PROVE  FiniteTables'
<1> DEFINE stored == {k \in RunKeys : Stored(k)}
<1>1. /\ IsFiniteSet(stored) /\ IsFiniteSet(receipts)
      /\ runs \in [RunKeys -> RunType \cup {NoRun}]
  BY DEF FiniteTables, AuditInv, Tables
<1>2. ASSUME NEW X, IsFiniteSet(X), \A k \in RunKeys : Stored(k)' => Stored(k) \/ k \in X,
             receipts' = receipts
      PROVE  FiniteTables'
    <2> DEFINE next == {k \in RunKeys : Stored(k)}'
    <2>1. next \in SUBSET (stored \cup X)
      BY <1>2
    <2>2. IsFiniteSet(stored \cup X)
      BY <1>1, <1>2, FS_Union
    <2> HIDE DEF next, stored
    <2>3. IsFiniteSet(next)
      BY <2>1, <2>2, FS_Subset
    <2> QED
      BY <1>1, <1>2, <2>3 DEF FiniteTables, next
<1>3. CASE runs' = runs /\ receipts' = receipts
  BY <1>2, <1>3, FS_EmptySet DEF Stored
<1>4. ASSUME NEW k \in RunKeys, NEW row, runs' = [runs EXCEPT ![k] = row] \/ runs' = runs,
             receipts' = receipts
      PROVE  FiniteTables'
  <2>1. \A l \in RunKeys : Stored(l)' => Stored(l) \/ l \in {k}
    BY <1>1, <1>4 DEF Stored
  <2> QED
    BY <1>2, <1>4, <2>1, FS_Singleton
<1>5. ASSUME NEW c \in Calls, Start(c)
      PROVE  FiniteTables'
  <2> DEFINE key == [e \in Migrated |-> <<e.task, e.run>>]
             X == {key[e] : e \in Migrated}
  <2>1. runs' = Ensured /\ receipts' = receipts
    BY <1>5 DEF Start
  <2>2. ASSUME NEW k \in RunKeys, Stored(k)', ~Stored(k)
        PROVE  k \in X
    <3>1. PICK e \in Migrated : e.task = k[1] /\ e.run = k[2]
      BY <2>1, <2>2 DEF Ensured, Stored
    <3>2. k = key[e]
      BY <3>1 DEF RunKeys
    <3> QED
      BY <3>2
  <2> HIDE DEF key
  <2>3. IsFiniteSet(X)
    BY ImageIsFinite, AutomationAssumption
  <2> HIDE DEF X
  <2> QED
    BY <1>2, <2>1, <2>2, <2>3
<1>6. ASSUME NEW c \in Calls, BeginWrite(c)
      PROVE  FiniteTables'
  <2> DEFINE k == <<call[c].req.task, c>>
  <2>1. call[c].req \in Requests
    BY <1>6 DEF BeginWrite, AuditInv, CallKnows
  <2>2. k \in RunKeys
    BY <1>6, <2>1, RequestIs DEF BeginWrite, RunKeys
  <2>3. receipts' = receipts
        /\ (runs' = [runs EXCEPT ![k] = BeginRow(call[c].req)] \/ runs' = runs)
    BY <1>6 DEF BeginWrite
  <2> QED
    BY <1>4, <2>2, <2>3
<1>7. ASSUME NEW c \in Calls, EndWrite(c)
      PROVE  FiniteTables'
  <2> DEFINE k == call[c].run
  <2>1. k \in RunKeys
    BY <1>7 DEF EndWrite, AuditInv, CallKnows, EndKnows
  <2>2. receipts' = receipts
        /\ (runs' = [runs EXCEPT ![k] = EndedRow(runs[k], call[c].req.final, Server)]
            \/ runs' = runs)
    BY <1>7 DEF EndWrite, EndedRow
  <2> QED
    BY <1>4, <2>1, <2>2
<1>8. ASSUME NEW c \in Calls, EventWrite(c)
      PROVE  FiniteTables'
  <2> DEFINE e == call[c].req.event
             k == EventKey(e)
             row == IF call[c].inserts THEN EventRow(e) ELSE WithEvent(runs[k], e)
  <2>1. k \in RunKeys
    BY <1>8, EventCallIs DEF EventWrite
  <2>2. receipts' = receipts /\ (runs' = [runs EXCEPT ![k] = row] \/ runs' = runs)
    BY <1>8 DEF EventWrite
  <2> HIDE DEF row, k
  <2> QED
    BY <1>4, <2>1, <2>2
<1>9. CASE Receive
  <2>1. PICK r \in Receipts : receipts' = receipts \cup {r}
    BY <1>9 DEF Receive
  <2>2. IsFiniteSet(receipts')
    BY <1>1, <2>1, FS_AddElement
  <2>3. runs' = runs
    BY <1>9 DEF Receive
  <2> QED
    BY <1>1, <2>2, <2>3 DEF FiniteTables, Stored
<1>10. ASSUME NEW c \in Calls, \/ Refuse(c) \/ Die(c) \/ BeginRead(c) \/ BeginConfirm(c)
                               \/ EndRead(c) \/ EndConfirm(c) \/ EventRead(c) \/ EventConfirm(c)
       PROVE  runs' = runs /\ receipts' = receipts
  BY <1>10 DEF Refuse, Die, BeginRead, BeginConfirm, EndRead, EndConfirm, EventRead, EventConfirm
<1>11. ASSUME \/ \E q \in Readers : ReadRuns(q) \/ ReadReceipts(q)
              \/ Tick \/ UNCHANGED vars
       PROVE  runs' = runs /\ receipts' = receipts
  BY <1>11 DEF ReadRuns, ReadReceipts, Tick, vars
<1> QED
  BY <1>3, <1>5, <1>6, <1>7, <1>8, <1>9, <1>10, <1>11 DEF Next

\* A step of the tables, the calls or the clock leaves the histories alone.
LEMMA HistoriesWait ==
    ASSUME [Next]_vars, \A q \in Readers : ~ReadRuns(q) /\ ~ReadReceipts(q)
    PROVE  history' = history
<1>1. ASSUME NEW c \in Calls,
             \/ Start(c) \/ Refuse(c) \/ Die(c)
             \/ BeginRead(c) \/ BeginWrite(c) \/ BeginConfirm(c)
             \/ EndRead(c) \/ EndWrite(c) \/ EndConfirm(c)
             \/ EventRead(c) \/ EventWrite(c) \/ EventConfirm(c)
      PROVE  history' = history
  BY <1>1 DEF Start, Refuse, Die, BeginRead, BeginWrite, BeginConfirm, EndRead, EndWrite,
              EndConfirm, EventRead, EventWrite, EventConfirm
<1>2. CASE Receive \/ Tick \/ UNCHANGED vars
  BY <1>2 DEF Receive, Tick, vars
<1> QED
  BY <1>1, <1>2 DEF Next

LEMMA HistoryStep ==
    ASSUME AuditInv, HistoryInv, [Next]_vars
    PROVE  HistoryInv'
<1>1. FiniteTables'
  BY StoredIsFinite DEF HistoryInv
<1>2. ASSUME NEW q \in Readers, NEW new \in HistoryType,
             history' = [history EXCEPT ![q] = new], IsFiniteSet(new.rows),
             Cardinality(new.rows) <= IF new.pc = "done" THEN Limit ELSE ReadCap
      PROVE  HistoriesAreBounded'
  <2>1. /\ history \in [Readers -> HistoryType]
        /\ \A p \in Readers :
              /\ IsFiniteSet(history[p].rows)
              /\ Cardinality(history[p].rows)
                    <= IF history[p].pc = "done" THEN Limit ELSE ReadCap
    BY DEF HistoryInv, HistoriesAreBounded
  <2>2. /\ history' \in [Readers -> HistoryType]
        /\ history'[q] = new /\ \A p \in Readers \ {q} : history'[p] = history[p]
    BY <1>2, <2>1
  <2>3. ASSUME NEW p \in Readers
        PROVE  /\ IsFiniteSet(history'[p].rows)
               /\ Cardinality(history'[p].rows)
                     <= IF history'[p].pc = "done" THEN Limit ELSE ReadCap
    <3>1. CASE p = q
      BY <1>2, <2>2, <3>1
    <3>2. CASE p # q
      BY <2>1, <2>2, <3>2
    <3> QED
      BY <3>1, <3>2
  <2> QED
    BY <2>2, <2>3 DEF HistoriesAreBounded
<1>3. ASSUME NEW q \in Readers, ReadRuns(q)
      PROVE  HistoriesAreBounded'
  <2>1. PICK h \in HistoryType :
           /\ history' = [history EXCEPT ![q] = h] /\ h.pc = "receipts"
           /\ IsFiniteSet(h.rows) /\ Cardinality(h.rows) <= ReadCap
    BY <1>3, RunsRead
  <2> QED
    BY <1>2, <2>1
<1>4. ASSUME NEW q \in Readers, ReadReceipts(q)
      PROVE  HistoriesAreBounded'
  <2>1. PICK h \in HistoryType :
           /\ history' = [history EXCEPT ![q] = h] /\ h.pc = "done"
           /\ IsFiniteSet(h.rows) /\ Cardinality(h.rows) <= Limit
    BY <1>4, ReceiptsRead
  <2> QED
    BY <1>2, <2>1
<1>5. ASSUME history' = history
      PROVE  HistoriesAreBounded'
  BY <1>5 DEF HistoryInv, HistoriesAreBounded
<1>6. HistoriesAreBounded'
  <2>1. CASE \A q \in Readers : ~ReadRuns(q) /\ ~ReadReceipts(q)
    BY <1>5, <2>1, HistoriesWait
  <2>2. CASE \E q \in Readers : ReadRuns(q) \/ ReadReceipts(q)
    BY <1>3, <1>4, <2>2
  <2> QED
    BY <2>1, <2>2
<1> QED
  BY <1>1, <1>6 DEF HistoryInv

\* The tables stay finite, and a history within the limits of its two queries.
THEOREM HistoryInvariant == Spec => []HistoryInv
<1>1. Init => HistoryInv
  <2> SUFFICES ASSUME Init
               PROVE  HistoryInv
    OBVIOUS
  <2>1. {k \in RunKeys : Stored(k)} = {} /\ receipts = {}
    BY DEF Init, Stored
  <2>2. NoHistory \in HistoryType /\ NoHistory.rows = {} /\ NoHistory.pc = "idle"
    BY DEF NoHistory, HistoryType
  <2>3. \A q \in Readers : history[q] = NoHistory
    BY DEF Init
  <2>4. HistoriesAreBounded
    BY <2>2, <2>3, FS_EmptySet, AutomationAssumption DEF Init, HistoriesAreBounded
  <2> QED
    BY <2>1, <2>4, FS_EmptySet DEF HistoryInv, FiniteTables
<1>2. AuditInv /\ HistoryInv /\ [Next]_vars => HistoryInv'
  BY HistoryStep
<1> QED
  BY <1>1, <1>2, AuditInvariant, PTL DEF Spec

\* Rows, calls and histories keep their shape (the schema of automation_runs_v2 and the
\* limits of the history's queries).
THEOREM AuditTypeCorrect == Spec => []TypeOK
<1>1. AuditInv /\ HistoryInv => TypeOK
  BY DEF AuditInv, Tables, HistoryInv, HistoriesAreBounded, TypeOK
<1> QED
  BY <1>1, AuditInvariant, HistoryInvariant, PTL

----------------------------------------------------------------------------
(* Nothing that was asked for is dropped from a history, for timestamps in UTC *)

\* In UTC the text of a timestamp orders as its instant does.
LEMMA TimesAre ==
    ASSUME Zones \subseteq {0}
    PROVE  /\ \A row \in AuditRows : row.at.at \in Int /\ Text(row.at) = row.at.at
           /\ \A s \in Stamp : s.at \in Int /\ Text(s) = s.at
<1>1. ASSUME NEW s \in Stamp \cup {NoStamp}
      PROVE  s.at \in Int /\ s.zone = 0
  <2>1. CASE s \in Stamp
    <3>1. s.at \in 0..MaxTime /\ s.zone \in Zones \cup {0}
      BY <2>1 DEF Stamp
    <3>2. s.zone = 0
      BY <3>1
    <3>3. MaxTime \in Nat
      BY AutomationAssumption
    <3>4. s.at \in Int
      BY <3>1, <3>3
    <3> QED
      BY <3>2, <3>4
  <2>2. CASE s = NoStamp
    BY <2>2 DEF NoStamp
  <2> QED
    BY <2>1, <2>2
<1>2. \A s \in Stamp \cup {NoStamp} : s.at \in Int /\ Text(s) = s.at
  BY <1>1 DEF Text
<1> QED
  BY <1>2 DEF AuditRows

\* What a capped read of a table leaves out, it left out for as many rows as it may read.
LEMMA CappedRead ==
    ASSUME Zones \subseteq {0}, NEW found, found \subseteq AuditRows, IsFiniteSet(found),
           NEW S \in Latest(found, ReadCap, ByText(found)), NEW row \in found \ S
    PROVE  FilledAhead(S, ReadCap, row)
<1>1. /\ S \subseteq found /\ Cardinality(S) = ReadCap
      /\ \A t \in S, s \in found \ S : ByText(found)[t] >= ByText(found)[s]
  BY LatestIs, AutomationAssumption
<1>2. ASSUME NEW t \in S
      PROVE  t.at.at >= row.at.at
  <2>1. ByText(found)[t] = Text(t.at) /\ ByText(found)[row] = Text(row.at)
    BY <1>1 DEF ByText
  <2> QED
    BY <1>1, <2>1, TimesAre
<1> QED
  BY <1>1, <1>2 DEF FilledAhead

\* A merge that has Limit rows ahead of a row to choose from lists Limit of them.
LEMMA MergeStaysAhead ==
    ASSUME NEW all, all \subseteq AuditRows, IsFiniteSet(all), NEW row \in AuditRows,
           Zones \subseteq {0},
           NEW ahead, ahead \subseteq all, FilledAhead(ahead, ReadCap, row),
           NEW rows \in Latest(all, Limit, ByInstant(all))
    PROVE  FilledAhead(rows, Limit, row)
<1>1. /\ rows \subseteq all /\ IsFiniteSet(rows) /\ Cardinality(rows) \in Nat
      /\ Cardinality(rows) <= Limit
      /\ \/ rows = all
         \/ /\ Cardinality(rows) = Limit
            /\ \A t \in rows, s \in all \ rows : ByInstant(all)[t] >= ByInstant(all)[s]
  BY LatestIs, AutomationAssumption
<1>2. \A r \in all : ByInstant(all)[r] = r.at.at /\ r.at.at \in Int
  BY TimesAre DEF ByInstant
<1>3. /\ Cardinality(ahead) = ReadCap /\ ReadCap \in Nat /\ Limit \in Nat /\ Limit <= ReadCap
      /\ \A t \in ahead : t.at.at >= row.at.at
  BY AutomationAssumption DEF FilledAhead
<1>4. row.at.at \in Int
  BY TimesAre
<1>5. CASE ahead \subseteq rows
  <2>1. Cardinality(ahead) <= Cardinality(rows)
        /\ (Cardinality(rows) = Cardinality(ahead) => rows = ahead)
    BY <1>1, <1>5, FS_Subset
  <2>2. Cardinality(rows) = Limit /\ Cardinality(rows) = Cardinality(ahead)
    BY <1>1, <1>3, <2>1
  <2>3. rows = ahead
    BY <2>1, <2>2
  <2> QED
    BY <1>3, <2>2, <2>3 DEF FilledAhead
<1>6. CASE ~(ahead \subseteq rows)
  <2>1. PICK s \in ahead : s \notin rows
    BY <1>6
  <2>2. /\ Cardinality(rows) = Limit
        /\ \A t \in rows : ByInstant(all)[t] >= ByInstant(all)[s]
    BY <1>1, <2>1
  <2>3. \A t \in rows : t.at.at >= row.at.at
    BY <1>1, <1>2, <1>3, <1>4, <2>1, <2>2
  <2> QED
    BY <2>2, <2>3 DEF FilledAhead
<1> QED
  BY <1>5, <1>6

\* Receipts are never removed.
LEMMA ReceiptsGrow ==
    ASSUME [Next]_vars
    PROVE  \A row \in ReceiptRows : row \in ReceiptRows'
<1>1. receipts \subseteq receipts'
  <2>1. ASSUME NEW c \in Calls,
               \/ Start(c) \/ Refuse(c) \/ Die(c)
               \/ BeginRead(c) \/ BeginWrite(c) \/ BeginConfirm(c)
               \/ EndRead(c) \/ EndWrite(c) \/ EndConfirm(c)
               \/ EventRead(c) \/ EventWrite(c) \/ EventConfirm(c)
        PROVE  receipts' = receipts
    BY <2>1 DEF Start, Refuse, Die, BeginRead, BeginWrite, BeginConfirm, EndRead, EndWrite,
                EndConfirm, EventRead, EventWrite, EventConfirm
  <2>2. ASSUME NEW q \in Readers, ReadRuns(q) \/ ReadReceipts(q)
        PROVE  receipts' = receipts
    BY <2>2 DEF ReadRuns, ReadReceipts
  <2>3. CASE Receive
    BY <2>3 DEF Receive
  <2>4. CASE Tick \/ UNCHANGED vars
    BY <2>4 DEF Tick, vars
  <2> QED
    BY <2>1, <2>2, <2>3, <2>4 DEF Next
<1> QED
  BY <1>1 DEF ReceiptRows

\* A history that has read the runs.
LEMMA RunsReadKnows ==
    ASSUME Zones \subseteq {0}, AuditInv, HistoryInv, NEW q \in Readers, ReadRuns(q)
    PROVE  HistoryKnows(q)'
<1>1. PICK h \in HistoryType :
              /\ history' = [history EXCEPT ![q] = h]
              /\ h.pc = "receipts" /\ h.since \in Stamp
              /\ h.tables = RunRows \cup ReceiptRows
              /\ LET found == {row \in RunRows : InWindow(h, row)} IN
                 h.rows \in Latest(found, ReadCap, ByText(found))
  BY RunsRead
<1> DEFINE found == {row \in RunRows : InWindow(h, row)}
<1>2. found \subseteq AuditRows /\ IsFiniteSet(found) /\ RunRows \subseteq AuditRows
  BY RowsAre, FS_Subset DEF HistoryInv
<1>3. ASSUME NEW row \in h.tables, row \notin ReceiptRows, row.at.at >= h.since.at,
             row \notin h.rows
      PROVE  FilledAhead(h.rows, ReadCap, row)
  <2>1. row \in RunRows
    BY <1>1, <1>3
  <2>2. InWindow(h, row)
    BY <1>1, <1>2, <1>3, <2>1, TimesAre DEF InWindow
  <2>3. row \in found
    BY <2>1, <2>2
  <2> HIDE DEF found
  <2> QED
    BY <1>1, <1>2, <1>3, <2>3, CappedRead DEF found
<1>4. history'[q] = h
  BY <1>1 DEF HistoryInv, HistoriesAreBounded
<1>5. ReceiptRows' = ReceiptRows
  BY DEF ReadRuns, ReceiptRows
<1> QED
  BY <1>1, <1>3, <1>4, <1>5 DEF HistoryKnows

\* A history that has read the receipts too.
LEMMA ReceiptsReadKnows ==
    ASSUME Zones \subseteq {0}, AuditInv, HistoryInv, NEW q \in Readers, HistoryKnows(q),
           ReadReceipts(q)
    PROVE  HistoryKnows(q)'
<1> DEFINE h == history[q]
           found == {row \in ReceiptRows : InWindow(h, row)}
<1>1. PICK S \in Latest(found, ReadCap, ByText(found)), new \in HistoryType :
              /\ history' = [history EXCEPT ![q] = new]
              /\ S \subseteq found /\ IsFiniteSet(found) /\ IsFiniteSet(S) /\ IsFiniteSet(h.rows)
              /\ new.rows \in Latest(h.rows \cup S, Limit, ByInstant(h.rows \cup S))
              /\ h.pc = "receipts" /\ new.pc = "done"
              /\ new.since = h.since /\ new.tables = h.tables
  BY ReceiptsRead
<1> DEFINE all == h.rows \cup S
<1>2. /\ h \in HistoryType /\ h.rows \subseteq AuditRows /\ h.tables \subseteq AuditRows
      /\ history'[q] = new
  BY <1>1 DEF HistoryInv, HistoriesAreBounded, HistoryType
<1>3. found \subseteq AuditRows
  BY RowsAre DEF HistoryInv
<1>4. all \subseteq AuditRows /\ IsFiniteSet(all)
  BY <1>1, <1>2, <1>3, FS_Union
<1>5. /\ h.since \in Stamp
      /\ \A row \in h.tables :
            \/ row \in ReceiptRows
            \/ row.at.at >= h.since.at => row \in h.rows \/ FilledAhead(h.rows, ReadCap, row)
  BY <1>1 DEF HistoryKnows
<1>6. ASSUME NEW row \in h.tables \ new.rows, row.at.at >= h.since.at
      PROVE  FilledAhead(new.rows, Limit, row)
  <2>1. row \in AuditRows
    BY <1>2
  <2>2. CASE row \in all
    <3>1. /\ new.rows \in Latest(all, Limit, ByInstant(all))
      BY <1>1
    <3> HIDE DEF all
    <3>2. /\ Cardinality(new.rows) = Limit /\ new.rows \subseteq all
          /\ \A t \in new.rows, s \in all \ new.rows : ByInstant(all)[t] >= ByInstant(all)[s]
      BY <1>4, <1>6, <2>2, <3>1, LatestIs, AutomationAssumption
    <3>3. \A t \in new.rows : t.at.at >= row.at.at
      BY <1>6, <2>2, <3>2 DEF ByInstant
    <3> QED
      BY <3>2, <3>3 DEF FilledAhead
  <2>3. CASE row \notin all
    <3>1. PICK ahead \in {h.rows, S} : FilledAhead(ahead, ReadCap, row)
      <4>1. CASE row \in ReceiptRows
        <5>1. row \in found
          BY <1>5, <1>6, <2>1, <4>1, TimesAre DEF InWindow
        <5> HIDE DEF found
        <5>2. FilledAhead(S, ReadCap, row)
          BY <1>1, <1>3, <2>3, <5>1, CappedRead
        <5> QED
          BY <5>2
      <4>2. CASE row \notin ReceiptRows
        BY <1>5, <1>6, <2>3, <4>2
      <4> QED
        BY <4>1, <4>2
    <3>2. ahead \subseteq all /\ new.rows \in Latest(all, Limit, ByInstant(all))
      BY <1>1
    <3> HIDE DEF all
    <3> QED
      BY <1>4, <2>1, <3>1, <3>2, MergeStaysAhead
  <2> QED
    BY <2>2, <2>3
<1> HIDE DEF h
<1> QED
  BY <1>1, <1>2, <1>5, <1>6 DEF HistoryKnows

\* The histories know what they left out.
LEMMA HistoriesKnowStep ==
    ASSUME Zones \subseteq {0}, AuditInv, HistoryInv, [Next]_vars, \A q \in Readers : HistoryKnows(q)
    PROVE  \A q \in Readers : HistoryKnows(q)'
<1> SUFFICES ASSUME NEW q \in Readers
             PROVE  HistoryKnows(q)'
  OBVIOUS
<1>1. CASE history'[q] = history[q]
  BY <1>1, ReceiptsGrow DEF HistoryKnows
<1>2. CASE ReadRuns(q)
  BY <1>2, RunsReadKnows
<1>3. CASE ReadReceipts(q)
  BY <1>3, ReceiptsReadKnows
<1>4. ASSUME NEW p \in Readers \ {q}, ReadRuns(p) \/ ReadReceipts(p)
      PROVE  history'[q] = history[q]
  <2>1. history \in [Readers -> HistoryType]
    BY DEF HistoryInv, HistoriesAreBounded
  <2>2. PICK new : history' = [history EXCEPT ![p] = new]
    <3>1. CASE ReadRuns(p)
      BY <3>1, RunsRead
    <3>2. CASE ReadReceipts(p)
      BY <3>2, ReceiptsRead
    <3> QED
      BY <1>4, <3>1, <3>2
  <2> QED
    BY <2>1, <2>2
<1>5. CASE \A p \in Readers : ~ReadRuns(p) /\ ~ReadReceipts(p)
  BY <1>1, <1>5, HistoriesWait
<1> QED
  BY <1>1, <1>2, <1>3, <1>4, <1>5

\* A history lists every run and receipt that was asked for and stored when it began to
\* read, unless its limit is filled by rows at least as late: the merge of two tables that
\* are filtered and capped on their own drops nothing (getAutomationRunHistory).  For
\* callers that write their timestamps in UTC: those are compared as text.
THEOREM HistoriesAreComplete ==
    ASSUME Zones \subseteq {0}
    PROVE  Spec => []HistoryIsComplete
<1>1. Init => \A q \in Readers : HistoryKnows(q)
  BY DEF Init, HistoryKnows, NoHistory
<1>2. AuditInv /\ HistoryInv /\ [Next]_vars /\ (\A q \in Readers : HistoryKnows(q))
      => (\A q \in Readers : HistoryKnows(q))'
  BY HistoriesKnowStep
<1>3. (\A q \in Readers : HistoryKnows(q)) => HistoryIsComplete
  BY DEF HistoryKnows, HistoryIsComplete, FilledAhead
<1> QED
  BY <1>1, <1>2, <1>3, AuditInvariant, HistoryInvariant, PTL DEF Spec
=============================================================================
