---------------------------- MODULE AutomationRuns ----------------------------
(***************************************************************************)
(* The run audit that preceded the run envelopes and still serves          *)
(* (src/src/automation-run-ledger.ts): begin_run, end_run, the compatible  *)
(* record_automation_run, which routes to both or records a STARTED or     *)
(* FINAL event of its own, and get_automation_run_history, which merges    *)
(* the audit with the receipts of the run envelopes.  Every tool call is   *)
(* a few D1 statements that interleave with other calls.                   *)
(***************************************************************************)
EXTENDS Integers, FiniteSets

CONSTANTS
    Tasks,        \* task names
    Invocations,  \* invocation keys, each of one principal
    Finals,       \* terminal payloads, by hash
    Events,       \* record_automation_run events, see EventType
    Migrated,     \* events already in automation_run_events_v1
    LegacyIds,    \* run ids chosen by callers
    ReceiptIds,   \* run ids of received envelopes
    Calls,        \* one tool call each; also the id begin_run draws
    Readers,      \* one get_automation_run_history each
    Zones,        \* hours by which a caller writes its timestamps ahead of UTC
    Limit,        \* rows a history returns
    ReadCap,      \* rows it reads of each table (1000)
    ServerAuto,   \* the run id SERVER_AUTO
    None,
    MaxTime, MaxFaults

Phases == {"STARTED", "FINAL"}
Stamp == [at : 0..MaxTime, zone : Zones \cup {0}]
\* `outcome`: whether an event declares none, a terminal status or all of an outcome.
EventType == [task : Tasks, run : LegacyIds \cup Calls \cup {ServerAuto}, phase : Phases,
              outcome : {"none", "status", "all"}, payload : Finals, occurred : Stamp]

ASSUME AutomationAssumption ==
    /\ Events \cup Migrated \subseteq EventType /\ IsFiniteSet(Migrated)
    /\ None \notin Invocations \cup Finals
    /\ Zones \subseteq Nat
    /\ Limit \in Nat \ {0} /\ ReadCap \in Nat /\ Limit <= ReadCap
    /\ MaxTime \in Nat /\ MaxFaults \in Nat

VARIABLES
    runs,      \* automation_runs_v2, by task and run id
    receipts,  \* automation_runs_v3: the receipts of run envelopes
    call,      \* the calls, see CallType
    history,   \* the histories being read, see NoHistory
    now,       \* the server's clock
    faults

vars == <<runs, receipts, call, history, now, faults>>

RunKeys == Tasks \X (LegacyIds \cup Calls \cup {ServerAuto})
NoStamp == [at |-> -1, zone |-> 0]

\* `start` and `final` stand for the stored payload hashes.
RunType == [contract : {"run-v2", "legacy-event-v1"}, key : Invocations \cup {None},
            start : Finals \cup {None}, final : Finals \cup {None},
            started : Stamp \cup {NoStamp}, finished : Stamp \cup {NoStamp}]
NoRun == [contract |-> "none"]

Requests ==
    [kind : {"begin"}, task : Tasks, key : Invocations \cup {None}]
    \cup [kind : {"end"}, run : Calls, final : Finals]
    \cup [kind : {"event"}, event : Events]
NoRequest == [kind |-> "none"]

Answers == {"none", "RECORDED", "IDEMPOTENT_REPLAY", "CONFLICT", "NOT_FOUND", "INVALID", "UNAVAILABLE"}
PCs == {"idle", "read", "write", "confirm", "done"}
\* `run` is the run answered or written, `status` what a confirmed write answers,
\* `inserts` an event that found no row.
CallType == [pc : PCs, req : Requests \cup {NoRequest}, run : RunKeys \cup {None},
             status : Answers, inserts : BOOLEAN]
NoCall == [pc |-> "idle", req |-> NoRequest, run |-> None, status |-> "none", inserts |-> FALSE]

Receipts == [task : Tasks, id : ReceiptIds, at : 0..MaxTime]

----------------------------------------------------------------------------

Server == [at |-> now, zone |-> 0]
Text(s) == s.at + s.zone      \* timestamps are compared as they are written
StampOf(r) == IF r.finished # NoStamp THEN r.finished ELSE r.started

Fault == faults < MaxFaults /\ faults' = faults + 1
NoFault == faults' = faults

Goto(c, pc) == call' = [call EXCEPT ![c].pc = pc]
Answer(c, status, run) ==
    call' = [call EXCEPT ![c].pc = "done", ![c].status = status, ![c].run = run]
Fail(c) == Answer(c, "UNAVAILABLE", None)

Stored(k) == runs[k] # NoRun
WithInvocation(task, key) == {k \in RunKeys : Stored(k) /\ k[1] = task /\ runs[k].key = key}
V2WithId(id) == {k \in RunKeys : k[2] = id /\ runs[k].contract = "run-v2"}
HashOf(r, phase) == IF phase = "STARTED" THEN r.start ELSE r.final

\* record_automation_run: a SERVER_AUTO start is a begin_run without invocation
\* key, a FINAL for an id of begin_run is an end_run, the rest are legacy events.
Route(e) ==
    IF e.run = ServerAuto /\ e.phase = "STARTED"
    THEN [kind |-> "begin", task |-> e.task, key |-> None]
    ELSE IF e.run \in Calls /\ e.phase = "FINAL"
    THEN [kind |-> "end", run |-> e.run, final |-> e.payload]
    ELSE [kind |-> "event", event |-> e]

\* parseLegacyEvent, or what the routes in front of it look at.
Valid(e) ==
    LET kind == Route(e).kind IN
    /\ kind = "end" => e.outcome # "none"
    /\ kind = "event" => e.outcome = IF e.phase = "STARTED" THEN "none" ELSE "all"

\* One row per run of the events that share it: MAX of each column by phase.
MigratedRun(k) ==
    LET of(phase) == {e \in Migrated : e.task = k[1] /\ e.run = k[2] /\ e.phase = phase}
        hash(phase) == IF of(phase) = {} THEN None ELSE (CHOOSE e \in of(phase) : TRUE).payload
        at(phase) == IF of(phase) = {} THEN NoStamp ELSE (CHOOSE e \in of(phase) : TRUE).occurred
    IN [contract |-> "legacy-event-v1", key |-> None, start |-> hash("STARTED"),
        final |-> hash("FINAL"), started |-> at("STARTED"), finished |-> at("FINAL")]

\* The first call of an isolate copies automation_run_events_v1 (INSERT OR IGNORE);
\* in a warm isolate the rows are there and nothing changes.
Ensured ==
    [k \in RunKeys |-> IF ~Stored(k) /\ \E e \in Migrated : e.task = k[1] /\ e.run = k[2]
                       THEN MigratedRun(k) ELSE runs[k]]

\* An event whose phase and outcome do not fit is refused, nothing is stored.
Refuse(c) ==
    /\ call[c].pc = "idle"
    /\ \E e \in Events : ~Valid(e) /\ Answer(c, "INVALID", None)
    /\ UNCHANGED <<runs, receipts, history, now, faults>>

\* A validated request; its first storage access creates and fills the table.
Start(c) ==
    /\ call[c].pc = "idle"
    /\ \E req \in [kind : {"begin"}, task : Tasks, key : Invocations \cup {None}]
                  \cup [kind : {"end"}, run : Calls, final : Finals]
                  \cup {Route(e) : e \in {e \in Events : Valid(e)}} :
          call' = [call EXCEPT ![c].pc = "read", ![c].req = req]
    /\ runs' = Ensured
    /\ UNCHANGED <<receipts, history, now, faults>>

----------------------------------------------------------------------------
(* begin_run *)

BeginRead(c) ==
    LET req == call[c].req
        found == WithInvocation(req.task, req.key) IN
    /\ call[c].pc = "read" /\ req.kind = "begin"
    /\ \/ /\ req.key # None
          /\ \E k \in found : Answer(c, "IDEMPOTENT_REPLAY", k)
       \/ /\ req.key = None \/ found = {}
          /\ Goto(c, "write")
    /\ UNCHANGED <<runs, receipts, history, now, faults>>

BeginRow(req) == [contract |-> "run-v2", key |-> req.key, start |-> None, final |-> None,
                  started |-> Server, finished |-> NoStamp]

\* Mutant: no unique index, only the earlier reading and the primary key.
BeginIgnoredByKey(req, k) == Stored(k)
\* The insert is ignored by the primary key, here of a row that an event stored under
\* the id drawn, or by the unique index on (principal, task, invocation key).
BeginIgnored(req, k) ==
    \/ Stored(k)
    \/ req.key # None /\ WithInvocation(req.task, req.key) # {}

BeginWrite(c) ==
    LET req == call[c].req
        k == <<req.task, c>> IN
    /\ call[c].pc = "write" /\ req.kind = "begin"
    /\ \/ /\ BeginIgnored(req, k)
          /\ Goto(c, "confirm")
          /\ UNCHANGED <<runs, faults>>
       \/ /\ ~BeginIgnored(req, k)
          /\ runs' = [runs EXCEPT ![k] = BeginRow(req)]
          /\ \/ NoFault /\ Answer(c, "RECORDED", k)
             \/ Fault /\ Fail(c)
    /\ UNCHANGED <<receipts, history, now>>

\* With no run under the invocation key the insert is reported as failed.
BeginConfirm(c) ==
    LET req == call[c].req
        found == WithInvocation(req.task, req.key) IN
    /\ call[c].pc = "confirm" /\ req.kind = "begin"
    /\ IF req.key = None \/ found = {} THEN Fail(c)
       ELSE \E k \in found : Answer(c, "IDEMPOTENT_REPLAY", k)
    /\ UNCHANGED <<runs, receipts, history, now, faults>>

----------------------------------------------------------------------------
(* end_run *)

EndRead(c) ==
    LET req == call[c].req
        found == V2WithId(req.run) IN
    /\ call[c].pc = "read" /\ req.kind = "end"
    /\ \/ found = {} /\ Answer(c, "NOT_FOUND", None)
       \/ \E k \in found :
             /\ found = {k}
             /\ IF runs[k].final = None
                THEN call' = [call EXCEPT ![c].pc = "write", ![c].run = k]
                ELSE Answer(c, IF runs[k].final = req.final THEN "IDEMPOTENT_REPLAY"
                               ELSE "CONFLICT", k)
    /\ UNCHANGED <<runs, receipts, history, now, faults>>

\* UPDATE ... WHERE final_payload_sha256 IS NULL.
MayEnd(r) == r.final = None

EndWrite(c) ==
    LET k == call[c].run IN
    /\ call[c].pc = "write" /\ call[c].req.kind = "end"
    /\ runs' = IF MayEnd(runs[k])
               THEN [runs EXCEPT ![k].final = call[c].req.final, ![k].finished = Server]
               ELSE runs
    /\ \/ NoFault /\ Goto(c, "confirm")
       \/ Fault /\ Fail(c)
    /\ UNCHANGED <<receipts, history, now>>

\* Mutant: the update is taken to have succeeded.
EndStatusAssumed(r, req) == "RECORDED"
\* The answer is what the row reads back.
EndStatus(r, req) == IF r.final = req.final THEN "RECORDED" ELSE "CONFLICT"

EndConfirm(c) ==
    /\ call[c].pc = "confirm" /\ call[c].req.kind = "end"
    /\ Answer(c, EndStatus(runs[call[c].run], call[c].req), call[c].run)
    /\ UNCHANGED <<runs, receipts, history, now, faults>>

----------------------------------------------------------------------------
(* record_automation_run, the legacy events *)

EventKey(e) == <<e.task, e.run>>

EventRead(c) ==
    LET e == call[c].req.event
        k == EventKey(e)
        hash == HashOf(runs[k], e.phase) IN
    /\ call[c].pc = "read" /\ call[c].req.kind = "event"
    /\ IF ~Stored(k) THEN call' = [call EXCEPT ![c].pc = "write", ![c].inserts = TRUE]
       ELSE IF runs[k].contract # "legacy-event-v1" THEN Answer(c, "CONFLICT", k)
       ELSE IF hash = None THEN Goto(c, "write")
       ELSE Answer(c, IF hash = e.payload THEN "IDEMPOTENT_REPLAY" ELSE "CONFLICT", k)
    /\ UNCHANGED <<runs, receipts, history, now, faults>>

\* Mutant: two of the bound parameters change places.
WithEventSwapped(r, e) ==
    IF e.phase = "STARTED" THEN [r EXCEPT !.start = e.occurred, !.started = e.payload]
    ELSE [r EXCEPT !.final = e.payload, !.finished = e.occurred]
WithEvent(r, e) ==
    IF e.phase = "STARTED"
    THEN [r EXCEPT !.start = e.payload,
                   !.started = IF r.started = NoStamp THEN e.occurred ELSE r.started]
    ELSE [r EXCEPT !.final = e.payload, !.finished = e.occurred]
EventRow(e) ==
    WithEvent([contract |-> "legacy-event-v1", key |-> None, start |-> None, final |-> None,
               started |-> NoStamp, finished |-> NoStamp], e)

\* Mutant: INSERT OR REPLACE.
EventReplaces(c, e) ==
    LET r == runs[EventKey(e)] IN
    call[c].inserts \/ (r.contract = "legacy-event-v1" /\ HashOf(r, e.phase) = None)
\* INSERT OR IGNORE if the row was absent, UPDATE ... WHERE the phase's hash IS NULL
\* if it was there.
EventApplies(c, e) ==
    LET r == runs[EventKey(e)] IN
    IF call[c].inserts THEN r = NoRun
    ELSE r.contract = "legacy-event-v1" /\ HashOf(r, e.phase) = None

EventWrite(c) ==
    LET e == call[c].req.event
        k == EventKey(e) IN
    /\ call[c].pc = "write" /\ call[c].req.kind = "event"
    /\ runs' = IF EventApplies(c, e)
               THEN [runs EXCEPT ![k] = IF call[c].inserts THEN EventRow(e)
                                        ELSE WithEvent(runs[k], e)]
               ELSE runs
    /\ \/ /\ NoFault
          /\ call' = [call EXCEPT ![c].pc = "confirm",
                        ![c].status = IF EventApplies(c, e) THEN "RECORDED"
                                      ELSE "IDEMPOTENT_REPLAY"]
       \/ Fault /\ Fail(c)
    /\ UNCHANGED <<receipts, history, now>>

\* A first event of the other phase may have won the insert: nothing of this one is
\* stored and the caller is told to retry.
EventConfirm(c) ==
    LET e == call[c].req.event
        hash == HashOf(runs[EventKey(e)], e.phase) IN
    /\ call[c].pc = "confirm" /\ call[c].req.kind = "event"
    /\ Answer(c, IF hash = e.payload THEN call[c].status
                 ELSE IF hash = None THEN "UNAVAILABLE" ELSE "CONFLICT", EventKey(e))
    /\ UNCHANGED <<runs, receipts, history, now, faults>>

\* A storage call throws without effect, or the isolate is evicted.
Die(c) ==
    /\ call[c].pc \notin {"idle", "done"}
    /\ Fault
    /\ Fail(c)
    /\ UNCHANGED <<runs, receipts, history, now>>

----------------------------------------------------------------------------
(* get_automation_run_history *)

\* A row of the answer: where it is from, its name and its time key.
RunRow(k, r) == [source |-> r.contract, task |-> k[1], id |-> k[2], at |-> StampOf(r)]
ReceiptRow(r) == [source |-> "run-v3", task |-> r.task, id |-> r.id,
                  at |-> [at |-> r.at, zone |-> 0]]
RunRows == {RunRow(k, runs[k]) : k \in {k \in RunKeys : Stored(k)}}
ReceiptRows == {ReceiptRow(r) : r \in receipts}

\* A history asks since a timestamp (without one, as since 0); the task it may name
\* filters both tables alike and is left out.  `tables` is a history variable, the
\* rows stored when it began to read.
NoHistory == [pc |-> "idle", since |-> NoStamp, rows |-> {}, tables |-> {}]
AuditRows == [source : {"run-v2", "legacy-event-v1", "run-v3"}, task : Tasks,
              id : LegacyIds \cup Calls \cup {ServerAuto} \cup ReceiptIds,
              at : Stamp \cup {NoStamp}]
HistoryType == [pc : {"idle", "receipts", "done"}, since : Stamp \cup {NoStamp},
                rows : SUBSET AuditRows, tables : SUBSET AuditRows]

\* The n rows of S with the greatest key; equal keys in any order.
Latest(S, n, key) ==
    IF Cardinality(S) <= n THEN {S}
    ELSE {T \in SUBSET S : /\ Cardinality(T) = n
                           /\ \A t \in T, s \in S \ T : key[t] >= key[s]}

InWindow(h, row) == Text(row.at) >= Text(h.since)
ByText(S) == [row \in S |-> Text(row.at)]
ByInstant(S) == [row \in S |-> row.at.at]

ReadRuns(q) ==
    /\ history[q].pc = "idle"
    /\ \E since \in Stamp :
       LET h == [NoHistory EXCEPT !.pc = "receipts", !.since = since,
                                  !.tables = RunRows \cup ReceiptRows] IN
       LET rows == {row \in RunRows : InWindow(h, row)} IN
       \E S \in Latest(rows, ReadCap, ByText(rows)) :
          history' = [history EXCEPT ![q] = [h EXCEPT !.rows = S]]
    /\ UNCHANGED <<runs, receipts, call, now, faults>>

\* Mutant: the receipts fill what the runs leave of the limit.
MergedInTurn(old, new) ==
    LET room == IF Cardinality(old) >= Limit THEN 0 ELSE Limit - Cardinality(old) IN
    {S \cup T : S \in Latest(old, Limit, ByInstant(old)), T \in Latest(new, room, ByInstant(new))}
\* The two tables are merged by instant before the limit is applied.
Merged(old, new) == Latest(old \cup new, Limit, ByInstant(old \cup new))

ReadReceipts(q) ==
    LET h == history[q]
        found == {row \in ReceiptRows : InWindow(h, row)} IN
    /\ h.pc = "receipts"
    /\ \E S \in Latest(found, ReadCap, ByText(found)) :
       \E rows \in Merged(h.rows, S) :
          history' = [history EXCEPT ![q].pc = "done", ![q].rows = rows]
    /\ UNCHANGED <<runs, receipts, call, now, faults>>

----------------------------------------------------------------------------

\* A run envelope is received (module RunEnvelope).
Receive ==
    /\ \E r \in Receipts :
          /\ r.at = now /\ \A s \in receipts : s.id # r.id
          /\ receipts' = receipts \cup {r}
    /\ UNCHANGED <<runs, call, history, now, faults>>

Tick ==
    /\ now < MaxTime
    /\ now' = now + 1
    /\ UNCHANGED <<runs, receipts, call, history, faults>>

Init ==
    /\ runs = [k \in RunKeys |-> NoRun]
    /\ receipts = {}
    /\ call = [c \in Calls |-> NoCall]
    /\ history = [q \in Readers |-> NoHistory]
    /\ now = 0
    /\ faults = 0

Next ==
    \/ \E c \in Calls :
          \/ Start(c) \/ Refuse(c) \/ Die(c)
          \/ BeginRead(c) \/ BeginWrite(c) \/ BeginConfirm(c)
          \/ EndRead(c) \/ EndWrite(c) \/ EndConfirm(c)
          \/ EventRead(c) \/ EventWrite(c) \/ EventConfirm(c)
    \/ \E q \in Readers : ReadRuns(q) \/ ReadReceipts(q)
    \/ Receive \/ Tick

Spec == Init /\ [][Next]_vars

----------------------------------------------------------------------------
(* Properties *)

\* Rows, calls and histories keep their shape.
TypeOK ==
    /\ runs \in [RunKeys -> RunType \cup {NoRun}]
    /\ receipts \subseteq Receipts
    /\ call \in [Calls -> CallType]
    /\ history \in [Readers -> HistoryType]
    /\ \A q \in Readers : Cardinality(history[q].rows)
                             <= IF history[q].pc = "done" THEN Limit ELSE ReadCap
    /\ now \in 0..MaxTime /\ faults \in 0..MaxFaults

\* An invocation key begins one run: begins that race, retry after a lost answer or
\* repeat the key later are all answered the one run stored under it.
InvocationNamesOneRun ==
    \A c \in Calls :
        call[c].req.kind = "begin" /\ call[c].req.key # None /\ call[c].run # None
        => WithInvocation(call[c].req.task, call[c].req.key) = {call[c].run}

Acknowledged(c) == call[c].pc = "done" /\ call[c].status \in {"RECORDED", "IDEMPOTENT_REPLAY"}

\* An end_run or event that is acknowledged is in its row for good, whoever else
\* wrote the row meanwhile, and one that is refused as CONFLICT is not: a retry of
\* what was stored is never told that another outcome stands.
AnswersMatchTheRow ==
    \A c \in Calls : call[c].pc = "done" =>
        LET req == call[c].req
            k == call[c].run IN
        /\ req.kind = "end" =>
              /\ Acknowledged(c) => runs[k].final = req.final
              /\ call[c].status = "CONFLICT" => runs[k].final \notin {None, req.final}
        /\ req.kind = "event" =>
              /\ Acknowledged(c) => HashOf(runs[k], req.event.phase) = req.event.payload
              /\ call[c].status = "CONFLICT" /\ runs[k].contract = "legacy-event-v1"
                 => HashOf(runs[k], req.event.phase) \notin {None, req.event.payload}

\* The audit is append-only: no call removes a run, rewrites a recorded start or
\* outcome, or moves a run to the other contract or another invocation.
AuditOnlyGrows ==
    [][\A k \in RunKeys : Stored(k) =>
          /\ Stored(k)' /\ runs'[k].contract = runs[k].contract /\ runs'[k].key = runs[k].key
          /\ runs[k].start # None => runs'[k].start = runs[k].start
          /\ runs[k].final # None => runs'[k].final = runs[k].final]_vars

\* A history lists every run and receipt that was asked for and stored when it began
\* to read, unless its limit is filled by rows at least as late: the merge of the two
\* tables, each with its own filter and cap, drops nothing.
HistoryIsComplete ==
    \A q \in Readers : LET h == history[q] IN
        h.pc = "done" =>
            \A row \in h.tables \ h.rows :
                row.at.at >= h.since.at
                => \/ Cardinality(h.rows) = Limit /\ \A t \in h.rows : t.at.at >= row.at.at
                   \/ \E t \in h.rows : t.source = row.source /\ t.task = row.task /\ t.id = row.id

=============================================================================
