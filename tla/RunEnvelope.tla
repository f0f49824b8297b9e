----------------------------- MODULE RunEnvelope -----------------------------
(***************************************************************************)
(* submit_run_envelope (processRunEnvelope): one call records a run and    *)
(* appends what the run found.  The run row is reserved as UNKNOWN, the    *)
(* owned command goes through the State Gateway, and the row is updated    *)
(* with the outcome derived from the gateway's answer.  The gateway call   *)
(* of an envelope has the same request id; direct calls of the owned tools *)
(* run beside the envelopes.                                               *)
(*                                                                         *)
(* An envelope is a task and one of: a payload (the command), a heartbeat, *)
(* a declared blocker, a declared count of observations, or a combination  *)
(* of these that is rejected.  detail is the count or the blocker.         *)
(***************************************************************************)
EXTENDS StateGateway

CONSTANTS
    Envelopes,       \* the envelopes the scheduled tasks submit
    ReadOnlyTasks,   \* tasks that may declare observations
    HourLength       \* clock units in the hour of a heartbeat's key

EnvelopeType ==
    [task : Text, kind : {"payload", "heartbeat", "blocked", "observation", "mixed"},
     cmd : Commands \cup {NoCommand}, detail : 0..512]

ASSUME EnvelopeAssumption ==
    /\ HourLength \in Nat \ {0}
    /\ Envelopes \subseteq EnvelopeType
    /\ \A e \in Envelopes : e.kind = "payload" => e.cmd \in Commands

VARIABLES
    rows,    \* automation_runs_v3 by task and envelope key
    env      \* the envelopes in flight and their answers

envelopeVars == <<rows, env>>
vars == <<gatewayVars, envelopeVars>>

(***************************************************************************)
(* The envelope key: of the content without timestamp and version for a    *)
(* payload (MARKET: with its records), of kind, detail and hour for a run  *)
(* without payload, of the whole input for a rejected one.                 *)
(***************************************************************************)
ContentOf(cmd) ==
    IF cmd.channel = "MARKET" THEN [cmd EXCEPT !.asOf = 0, !.version = 0]
                              ELSE Identity(cmd)

IsRejected(e) ==
    \/ e.kind = "mixed"
    \/ e.kind = "observation" /\ e.task \notin ReadOnlyTasks

EnvelopeKey(e, now) ==
    [task |-> e.task,
     kind |-> IF IsRejected(e) THEN "invalid" ELSE e.kind,
     content |-> IF e.kind = "payload" THEN ContentOf(e.cmd)
                 ELSE IF IsRejected(e) THEN e.cmd ELSE NoCommand,
     detail |-> e.detail,
     hour |-> IF e.kind = "payload" \/ IsRejected(e) THEN 0
              ELSE now \div HourLength]

RunKeys == {EnvelopeKey(e, now) : e \in Envelopes, now \in 0..MaxTime}

Null == -1      \* a NULL fresh_delta_count

NoRun == [outcome |-> "ABSENT", fresh |-> Null, run |-> NoCall]

NoEnvelope == [task |-> "none", kind |-> "none", cmd |-> NoCommand, detail |-> 0]

IdleEnv == [stage |-> "idle", e |-> NoEnvelope, now |-> 0, run |-> NoCall,
            answer |-> "none", outcome |-> "ABSENT", fresh |-> Null]

Init == GatewayInit
        /\ rows = [k \in RunKeys |-> NoRun]
        /\ env = [c \in Calls |-> IdleEnv]

RunKey(c) == EnvelopeKey(env[c].e, env[c].now)
Run(c) == rows[RunKey(c)]

------------------------------------------------------------------------------
Enter(c, stage) == env' = [env EXCEPT ![c].stage = stage]

Throw(c, outcome) ==
    env' = [env EXCEPT ![c].stage = "done", ![c].answer = "THROWN",
                       ![c].outcome = outcome]

(* receiptFromRow: the stored run, as it was recorded. *)
Replay(c, row) ==
    env' = [env EXCEPT ![c].stage = "done", ![c].answer = "ENVELOPE_REPLAY",
                       ![c].outcome = row.outcome, ![c].fresh = row.fresh,
                       ![c].run = row.run]

Receive(c, e) ==
    /\ call[c].pc = "idle" /\ env[c].stage = "idle"
    /\ env' = [env EXCEPT ![c].e = e, ![c].now = clock, ![c].run = c,
                          ![c].stage = IF IsRejected(e) THEN "reject"
                                                        ELSE "lookup"]
    /\ UNCHANGED <<gatewayVars, rows>>

(* insertInvalidRunRow: the first rejection of an input is recorded as      *)
(* FAILED and thrown, the next one replays the row.                         *)
Reject(c) ==
    /\ env[c].stage = "reject"
    /\ \/ /\ NoFault
          /\ IF Run(c).outcome = "ABSENT"
               THEN /\ rows' = [rows EXCEPT ![RunKey(c)] =
                          [outcome |-> "FAILED", fresh |-> Null, run |-> c]]
                    /\ Throw(c, "FAILED")
               ELSE Replay(c, Run(c)) /\ UNCHANGED rows
       \/ Fault /\ Throw(c, "ABSENT") /\ UNCHANGED rows
    /\ UNCHANGED <<receipts, ledger, call, clock, takenOver>>

(* The replay gate. *)
Lookup(c) ==
    /\ env[c].stage = "lookup"
    /\ \/ /\ NoFault
          /\ IF Run(c).outcome \notin {"ABSENT", "UNKNOWN"}
               THEN Replay(c, Run(c))
               ELSE env' = [env EXCEPT ![c].stage = "reserve",
                        ![c].run = IF Run(c).outcome = "ABSENT" THEN c
                                                                ELSE Run(c).run]
       \/ Fault /\ Throw(c, "ABSENT")
    /\ UNCHANGED <<receipts, ledger, call, clock, takenOver, rows>>

(* insertUnknownRunRow: INSERT ... ON CONFLICT DO NOTHING. *)
Reserve(c) ==
    /\ env[c].stage = "reserve"
    /\ \/ /\ NoFault
          /\ IF Run(c).outcome = "ABSENT"
               THEN /\ rows' = [rows EXCEPT ![RunKey(c)] =
                          [outcome |-> "UNKNOWN", fresh |-> Null,
                           run |-> env[c].run]]
                    /\ Enter(c, "execute")
               ELSE Enter(c, "adopt") /\ UNCHANGED rows
       \/ Fault /\ Throw(c, "ABSENT") /\ UNCHANGED rows
    /\ UNCHANGED <<receipts, ledger, call, clock, takenOver>>

(* The row was there: replay it if it is settled by now, else go on with it. *)
Adopt(c) ==
    /\ env[c].stage = "adopt"
    /\ \/ /\ NoFault
          /\ IF Run(c).outcome # "UNKNOWN"
               THEN Replay(c, Run(c))
               ELSE env' = [env EXCEPT ![c].stage = "execute",
                                       ![c].run = Run(c).run]
       \/ Fault /\ Throw(c, "ABSENT")
    /\ UNCHANGED <<receipts, ledger, call, clock, takenOver, rows>>

(* A payload resolves the owner context, which may be unreadable, and enters *)
(* the State Gateway, whose clock is read anew.                             *)
Execute(c) ==
    LET e == env[c].e
    IN  /\ env[c].stage = "execute"
        /\ \/ /\ e.kind # "payload"
              /\ NoFault
              /\ Enter(c, "record")
              /\ UNCHANGED call
           \/ /\ e.kind = "payload"
              /\ NoFault
              /\ call' = [call EXCEPT ![c].cmd = e.cmd, ![c].now = clock,
                     ![c].pc = CASE e.cmd.channel = "MARKET" -> "build"
                                 [] e.cmd.channel = "CLOSE" -> "closeThesis"
                                 [] OTHER -> "insert"]
              /\ Enter(c, "record")
           \/ /\ e.kind = "payload"
              /\ Fault
              /\ call' = [call EXCEPT ![c].pc = "done",
                                      ![c].answer = "STATE_UNAVAILABLE"]
              /\ Enter(c, "record")
        /\ UNCHANGED <<receipts, ledger, clock, takenOver, rows>>

------------------------------------------------------------------------------
(* The derivation matrix: outcome and fresh_delta_count of a gateway answer. *)

Retryable == {"STATE_UNAVAILABLE", "STATE_OUTCOME_UNKNOWN",
              "STATE_READBACK_FAILED", "ERROR"}

(* Mutant: a write in progress elsewhere is taken for granted. *)
OutcomeOfOptimistic(c) ==
    LET answer == call[c].answer
    IN  CASE env[c].e.kind = "blocked" -> "BLOCKED"
          [] env[c].e.kind \in {"observation", "heartbeat"} -> "SILENT"
          [] answer \in {"PERSISTED", "STATE_UNAVAILABLE"} -> "COMPLETED"
          [] answer = "IDEMPOTENT_REPLAY" -> "SILENT"
          [] OTHER -> "UNKNOWN"

OutcomeOf(c) ==
    LET e == env[c].e
        answer == call[c].answer
    IN  CASE e.kind = "blocked" -> "BLOCKED"
          [] e.kind \in {"observation", "heartbeat"} -> "SILENT"
          [] e.kind = "payload" /\ answer = "PERSISTED" -> "COMPLETED"
          [] e.kind = "payload" /\ answer = "IDEMPOTENT_REPLAY" -> "SILENT"
          [] e.kind = "payload" /\ answer \in Retryable -> "UNKNOWN"
          [] e.kind = "payload" /\ answer \in {"STATE_CONFLICT",
                                               "STATE_CHAIN_MISMATCH"} -> "BLOCKED"
          [] OTHER -> "FAILED"

(* Mutants: a replay counts as fresh; a failed write as zero. *)
FreshOfReplay(c) ==
    CASE env[c].e.kind = "observation" -> env[c].e.detail
      [] env[c].e.kind = "payload" /\ call[c].answer \in Settled -> 1
      [] env[c].e.kind = "payload" /\ call[c].answer \notin Settled -> Null
      [] OTHER -> 0

FreshOfFailure(c) ==
    CASE env[c].e.kind = "observation" -> env[c].e.detail
      [] env[c].e.kind = "payload" /\ call[c].answer = "PERSISTED" -> 1
      [] OTHER -> 0

FreshOf(c) ==
    LET e == env[c].e
    IN  CASE e.kind = "observation" -> e.detail
          [] e.kind = "payload" /\ call[c].answer = "PERSISTED" -> 1
          [] e.kind = "payload" /\ call[c].answer \notin Settled -> Null
          [] OTHER -> 0

(* Mutant: the outcome guard is dropped. *)
RecordedAlways(c) ==
    [rows EXCEPT ![RunKey(c)].outcome = OutcomeOf(c),
                 ![RunKey(c)].fresh = FreshOf(c)]

(* updateRunV3Row changes only a row that is still UNKNOWN; a failed gateway *)
(* call is thrown after it was recorded.                                     *)
Recorded(c) ==
    IF Run(c).outcome = "UNKNOWN" /\ Run(c).run = env[c].run
      THEN [rows EXCEPT ![RunKey(c)].outcome = OutcomeOf(c),
                        ![RunKey(c)].fresh = FreshOf(c)]
      ELSE rows

Record(c) ==
    /\ env[c].stage = "record"
    /\ env[c].e.kind = "payload" => call[c].pc = "done"
    /\ \/ /\ NoFault
          /\ rows' = Recorded(c)
          /\ env' = [env EXCEPT ![c].stage = "done",
                 ![c].answer = IF call[c].answer \in Settled \cup {"none"}
                                 THEN "ENVELOPE_RECORDED" ELSE "THROWN",
                 ![c].outcome = OutcomeOf(c), ![c].fresh = FreshOf(c)]
       \/ /\ Fault
          /\ rows' \in {rows, Recorded(c)}
          /\ Throw(c, "ABSENT")
    /\ UNCHANGED <<receipts, ledger, call, clock, takenOver>>

(* The worker dies outside the gateway; inside it, Die of StateGateway. *)
Evict(c) ==
    /\ env[c].stage \in {"reject", "lookup", "reserve", "adopt", "execute", "record"}
    /\ call[c].pc \in {"idle", "done"}
    /\ Fault
    /\ Enter(c, "dead")
    /\ UNCHANGED <<receipts, ledger, call, clock, takenOver, rows>>

Direct(c, cmd) == env[c].stage = "idle" /\ Submit(c, cmd)

EnvelopeStep(c) ==
    \/ Reject(c) \/ Lookup(c) \/ Reserve(c) \/ Adopt(c) \/ Execute(c)
    \/ Record(c) \/ Evict(c)

Next ==
    \/ \E c \in Calls :
          \/ \E e \in Envelopes : Receive(c, e)
          \/ EnvelopeStep(c)
          \/ CallStep(c) /\ UNCHANGED envelopeVars
          \/ \E cmd \in Commands : Direct(c, cmd) /\ UNCHANGED envelopeVars
    \/ Tick /\ UNCHANGED envelopeVars

Spec == Init /\ [][Next]_vars

------------------------------------------------------------------------------
(* Properties *)

Outcomes == {"UNKNOWN", "COMPLETED", "SILENT", "BLOCKED", "FAILED"}
Terminal == Outcomes \ {"UNKNOWN"}

(* Every variable keeps its type; a row has a run id once it exists, and a   *)
(* fresh count only with an outcome that carries one.                        *)
TypeOK ==
    /\ GatewayTypeOK
    /\ DOMAIN rows = RunKeys /\ DOMAIN env = Calls
    /\ \A k \in RunKeys :
          /\ rows[k].outcome \in Outcomes \cup {"ABSENT"}
          /\ (rows[k].run = NoCall) <=> (rows[k].outcome = "ABSENT")
          /\ rows[k].fresh # Null => \/ rows[k].outcome \in {"COMPLETED", "SILENT"}
                                     \/ k.kind = "blocked" /\ rows[k].fresh = 0
    /\ \A c \in Calls :
          /\ env[c].stage \in {"idle", "reject", "lookup", "reserve", "adopt",
                               "execute", "record", "done", "dead"}
          /\ (env[c].stage = "done") <=> (env[c].answer # "none")

(* A run is COMPLETED only if its content really is in the ledger, whichever  *)
(* attempt recorded it and whatever the other attempts were answered.         *)
CompletedRunIsInLedger ==
    \A k \in RunKeys : (k.kind = "payload" /\ rows[k].outcome = "COMPLETED") =>
        \E i \in DOMAIN ledger : ContentOf(ledger[i].cmd) = k.content

(* One comment is counted as fresh by one run at most: tasks that submit the  *)
(* same content, and retries of an envelope, never notify of it twice.        *)
FreshIsCountedOnce ==
    \A content \in {k.content : k \in RunKeys} :
        Cardinality({k \in RunKeys : /\ k.kind = "payload"
                                     /\ k.content = content
                                     /\ rows[k].fresh = 1})
            <= Cardinality({i \in DOMAIN ledger :
                               ContentOf(ledger[i].cmd) = content})

(* A run that is still UNKNOWN keeps its envelope retryable and a run with a  *)
(* final outcome is never changed again, not even by an attempt that was      *)
(* started before it was recorded (the guard outcome = 'UNKNOWN').            *)
OutcomeIsFinal ==
    [][\A k \in RunKeys :
          /\ rows[k].outcome \in Terminal => rows'[k] = rows[k]
          /\ rows[k].outcome # "ABSENT" => rows'[k].run = rows[k].run]_vars

==============================================================================
