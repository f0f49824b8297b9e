-------------------------- MODULE RunEnvelopeProofs --------------------------
(***************************************************************************)
(* What submit_run_envelope keeps, for any envelopes, commands and bounds. *)
(* The invariant adds to that of the gateway what links a run to a write:  *)
(* a COMPLETED or fresh run was recorded by a call that was answered       *)
(* PERSISTED with a comment of its own.                                    *)
(***************************************************************************)
EXTENDS RunEnvelope, StateGatewayProofs

EnvStages == {"idle", "reject", "lookup", "reserve", "adopt", "execute", "record",
              "done", "dead"}
EnvAnswers == {"none", "THROWN", "ENVELOPE_REPLAY", "ENVELOPE_RECORDED"}

RowType == [outcome : Outcomes \cup {"ABSENT"}, fresh : Int, run : Calls \cup {NoCall}]

EnvType ==
    [stage : EnvStages, e : Envelopes \cup {NoEnvelope}, now : Nat,
     run : Calls \cup {NoCall}, answer : EnvAnswers,
     outcome : Outcomes \cup {"ABSENT"}, fresh : Int]

RunTypes == rows \in [RunKeys -> RowType] /\ env \in [Calls -> EnvType]

(* The stages before the gateway call of an envelope begins. *)
Before == {"reject", "lookup", "reserve", "adopt", "execute"}

EnvKnows(c) ==
    /\ (env[c].stage = "done") <=> (env[c].answer # "none")
    /\ env[c].stage # "idle" => env[c].e \in Envelopes /\ env[c].now \in 0..MaxTime
    /\ env[c].stage \in Before => call[c].pc = "idle"
    /\ env[c].stage \in {"lookup", "reserve", "adopt", "execute", "record"} =>
          ~IsRejected(env[c].e)
    /\ env[c].stage = "reserve" => env[c].run \in Calls
    /\ env[c].stage = "record" /\ env[c].e.kind = "payload" =>
          \/ call[c].cmd = env[c].e.cmd
          \/ call[c].pc = "done" /\ call[c].answer = "STATE_UNAVAILABLE"

(* The call of an envelope wrote the comment its run tells of. *)
Writer(c, k) ==
    /\ call[c].answer = "PERSISTED" /\ env[c].stage # "idle"
    /\ RunKey(c) = k /\ call[c].cmd = env[c].e.cmd

RowKnows(k) ==
    /\ (rows[k].run = NoCall) <=> (rows[k].outcome = "ABSENT")
    /\ rows[k].fresh # Null => \/ rows[k].outcome \in {"COMPLETED", "SILENT"}
                               \/ k.kind = "blocked" /\ rows[k].fresh = 0
    /\ k.kind = "payload" /\ (rows[k].outcome = "COMPLETED" \/ rows[k].fresh = 1) =>
          \E c \in Calls : Writer(c, k)

(* A call that wrote a comment, and did not find it. *)
Wrote(c) ==
    \/ call[c].pc = "readback"
    \/ call[c].pc = "settle" /\ call[c].result = "PERSISTED"
    \/ call[c].answer = "PERSISTED"

WritersDiffer ==
    \A c, d \in Calls : c # d /\ Wrote(c) /\ Wrote(d) => call[c].comment # call[d].comment

EnvInv ==
    /\ GatewayInv /\ RunTypes /\ WritersDiffer
    /\ \A k \in RunKeys : RowKnows(k)
    /\ \A c \in Calls : EnvKnows(c)

------------------------------------------------------------------------------
(* The comment that a payload names has the content of the payload *)

LEMMA SamePayloadSameContent ==
    ASSUME NEW c, call[c].cmd \in CommandType,
           NEW comment \in CommentType, PayloadOf(comment) = Payload(c)
    PROVE  ContentOf(comment.cmd) = ContentOf(call[c].cmd)
<1> DEFINE Owned(cmd) == cmd.channel # "MARKET" /\ cmd.id = "CMD"
           x == comment.cmd
           y == call[c].cmd
<1>1. x \in CommandType
  BY DEF CommentType
<1>2. ASSUME NEW cmd \in CommandType, Owned(cmd)
      PROVE  Owned(Identity(cmd)) /\ ContentOf(cmd) = Identity(cmd)
  BY <1>2 DEF Identity, CommandType, ContentOf
<1>3. PayloadOf(comment).cmd = IF Owned(x) THEN Identity(x) ELSE x
  BY DEF PayloadOf
<1>4. Payload(c).cmd = IF Owned(y) THEN Identity(y) ELSE y
  BY DEF Payload
<1> HIDE DEF Owned, x, y
<1>5. CASE Owned(x) /\ Owned(y)
  BY <1>1, <1>2, <1>3, <1>4, <1>5 DEF x, y
<1>6. CASE Owned(x) /\ ~Owned(y)
  <2>1. Identity(x) = y
    BY <1>3, <1>4, <1>6
  <2> QED
    BY <1>1, <1>2, <1>6, <2>1
<1>7. CASE ~Owned(x) /\ Owned(y)
  <2>1. x = Identity(y) /\ y \in CommandType
    BY <1>3, <1>4, <1>7 DEF y
  <2> QED
    BY <1>2, <1>7, <2>1
<1>8. CASE ~Owned(x) /\ ~Owned(y)
  BY <1>3, <1>4, <1>8 DEF x, y
<1> QED
  BY <1>5, <1>6, <1>7, <1>8

(* What a step of the gateway does to the record of its call.                *)
LEMMA CallStepShape ==
    ASSUME GatewayInv, NEW c \in Calls, CallStep(c)
    PROVE  /\ call[c].pc \notin {"idle", "done"}
           /\ \/ \E next \in Stages \ {"idle", "readback", "settle"} : Goto(c, next)
              \/ \E a : a # "PERSISTED" /\ Answer(c, a)
              \/ call[c].pc = "settle" /\ Answer(c, call[c].result)
              \/ AnswerReplay(c, Row(c))
              \/ \E e : Raise(c, e)
              \/ \E i : FoundAt(c, i)
              \/ \E prev, preopen : call' = [call EXCEPT ![c].pc = "insert", ![c].now = clock,
                                                ![c].prev = prev, ![c].preopen = preopen]
              \/ \E base : call' = [call EXCEPT ![c].pc = "post", ![c].base = base]
              \/ call' = [call EXCEPT ![c].pc = "readback", ![c].comment = Len(ledger) + 1]
              \/ /\ call[c].pc = "readback"
                 /\ call' = [call EXCEPT ![c].pc = "settle", ![c].result = "PERSISTED"]
<1>1. {"insert", "closeMarket", "inspect", "acquire", "confirm", "read", "post", "dead"}
         \subseteq Stages \ {"idle", "readback", "settle"}
  BY DEF Stages
<1>2. CASE BuildMarket(c)
  BY <1>2 DEF BuildMarket
<1>3. CASE CheckThesis(c)
  <2>1. CASE \E error \in LedgerErrors : Answer(c, error)
    BY <1>3, <2>1 DEF CheckThesis, LedgerErrors
  <2> QED
    BY <1>1, <1>3, <2>1 DEF CheckThesis
<1>4. CASE CheckMarket(c)
  <2>1. CASE \E error \in LedgerErrors : Answer(c, error)
    BY <1>4, <2>1 DEF CheckMarket, LedgerErrors
  <2> QED
    BY <1>1, <1>4, <2>1 DEF CheckMarket
<1>5. CASE Insert(c) \/ Inspect(c) \/ Acquire(c) \/ Confirm(c)
  BY <1>1, <1>5 DEF Insert, Inspect, Acquire, Confirm
<1>6. CASE ReadInvestment(c)
  BY <1>1, <1>6 DEF ReadInvestment, ReadFails
<1>7. CASE ReadMarket(c)
  BY <1>1, <1>7 DEF ReadMarket, ReadFails
<1>8. CASE Post(c) \/ Readback(c)
  BY <1>8 DEF Post, Readback
<1>9. CASE Settle(c)
  BY <1>9 DEF Settle
<1>10. CASE Die(c)
  BY <1>1, <1>10 DEF Die
<1>11. CASE Fail(c)
  <2>1. call[c].result \in Errors
    BY <1>11 DEF Fail, GatewayInv, CallKnows, HasCommand
  <2>2. call[c].result # "PERSISTED"
    BY <2>1 DEF Errors, LedgerErrors
  <2> QED
    BY <1>11, <2>2 DEF Fail
<1> QED
  BY <1>2, <1>3, <1>4, <1>5, <1>6, <1>7, <1>8, <1>9, <1>10, <1>11 DEF CallStep

(* A step of a call keeps its command; the comment it writes is a new one.   *)
LEMMA CallStepIs ==
    ASSUME GatewayInv, NEW c \in Calls, CallStep(c)
    PROVE  /\ call[c].pc \notin {"idle", "done"}
           /\ \A d \in Calls \ {c} : call'[d] = call[d]
           /\ call'[c].cmd = call[c].cmd
           /\ Wrote(c)' => \/ Wrote(c) /\ call'[c].comment = call[c].comment
                           \/ call'[c].comment = Len(ledger) + 1
<1>1. call \in [Calls -> CallType] /\ call[c] \in CallType
  BY DEF GatewayInv, GatewayTypes
<1>2. call[c].pc \notin {"idle", "done"} /\ call[c].answer = "none"
  BY CallStepShape DEF GatewayInv, CallKnows, HasCommand
<1>3. CASE \E next \in Stages \ {"idle", "readback", "settle"} : Goto(c, next)
  BY <1>1, <1>2, <1>3 DEF Goto, Wrote, CallType
<1>4. CASE \E a : a # "PERSISTED" /\ Answer(c, a)
  BY <1>1, <1>2, <1>4 DEF Answer, Wrote, CallType
<1>5. CASE call[c].pc = "settle" /\ Answer(c, call[c].result)
  BY <1>1, <1>2, <1>5 DEF Answer, Wrote, CallType
<1>6. CASE AnswerReplay(c, Row(c))
  BY <1>1, <1>2, <1>6 DEF AnswerReplay, Wrote, CallType
<1>7. CASE \E e : Raise(c, e)
  BY <1>1, <1>2, <1>7 DEF Raise, Wrote, CallType
<1>8. CASE \E i : FoundAt(c, i)
  BY <1>1, <1>2, <1>8 DEF FoundAt, Wrote, CallType
<1>9. CASE \E prev, preopen : call' = [call EXCEPT ![c].pc = "insert", ![c].now = clock,
                                            ![c].prev = prev, ![c].preopen = preopen]
  BY <1>1, <1>2, <1>9 DEF Wrote, CallType
<1>10. CASE \E base : call' = [call EXCEPT ![c].pc = "post", ![c].base = base]
  BY <1>1, <1>2, <1>10 DEF Wrote, CallType
<1>11. CASE call' = [call EXCEPT ![c].pc = "readback", ![c].comment = Len(ledger) + 1]
  BY <1>1, <1>2, <1>11 DEF Wrote, CallType
<1>12. CASE /\ call[c].pc = "readback"
            /\ call' = [call EXCEPT ![c].pc = "settle", ![c].result = "PERSISTED"]
  BY <1>1, <1>2, <1>12 DEF Wrote, CallType
<1> QED
  BY <1>2, <1>3, <1>4, <1>5, <1>6, <1>7, <1>8, <1>9, <1>10, <1>11, <1>12, CallStepShape

(* A comment that a call wrote is no other call's.                           *)
LEMMA WritersStay ==
    ASSUME EnvInv, NEW c \in Calls,
           \A d \in Calls \ {c} : call'[d] = call[d],
           Wrote(c)' => \/ Wrote(c) /\ call'[c].comment = call[c].comment
                        \/ call'[c].comment = Len(ledger) + 1
    PROVE  WritersDiffer'
<1>1. ASSUME NEW d \in Calls \ {c}, Wrote(c)', Wrote(d)'
      PROVE  call'[c].comment # call'[d].comment
  <2>1. Wrote(d) /\ call'[d].comment = call[d].comment
    BY <1>1 DEF Wrote
  <2>2. call[d].comment \in Nat /\ call[d].comment <= Len(ledger) /\ Len(ledger) \in Nat
    BY DEF EnvInv, GatewayInv, GatewayTypes, CallType, CallBounds
  <2>3. CASE Wrote(c) /\ call'[c].comment = call[c].comment
    BY <2>1, <2>3 DEF EnvInv, WritersDiffer
  <2>4. CASE call'[c].comment = Len(ledger) + 1
    BY <2>1, <2>2, <2>4
  <2> QED
    BY <1>1, <2>3, <2>4
<1>2. ASSUME NEW a \in Calls \ {c}, NEW b \in Calls \ {c}, a # b, Wrote(a)', Wrote(b)'
      PROVE  call'[a].comment # call'[b].comment
  <2>1. Wrote(a) /\ Wrote(b) /\ call'[a] = call[a] /\ call'[b] = call[b]
    BY <1>2 DEF Wrote
  <2> QED
    BY <1>2, <2>1 DEF EnvInv, WritersDiffer
<1> QED
  BY <1>1, <1>2 DEF WritersDiffer

(* A step of the gateway beside the envelopes.                               *)
LEMMA GatewayStepKeeps ==
    ASSUME EnvInv, GatewayInv', UNCHANGED envelopeVars, NEW c \in Calls,
           \A d \in Calls \ {c} : call'[d] = call[d],
           call[c].pc # "done",
           env[c].stage # "idle" => call[c].pc # "idle" /\ call'[c].cmd = call[c].cmd,
           Wrote(c)' => \/ Wrote(c) /\ call'[c].comment = call[c].comment
                        \/ call'[c].comment = Len(ledger) + 1
    PROVE  EnvInv'
<1>1. rows' = rows /\ env' = env
  BY DEF envelopeVars
<1>2. RunTypes' /\ WritersDiffer'
  BY <1>1, WritersStay DEF EnvInv, RunTypes
<1>3. ASSUME NEW d \in Calls PROVE EnvKnows(d)'
  <2>1. EnvKnows(d)
    BY DEF EnvInv
  <2>2. CASE d # c
    BY <1>1, <2>1, <2>2 DEF EnvKnows
  <2>3. CASE d = c
    BY <1>1, <2>1, <2>3 DEF EnvKnows, Before
  <2> QED
    BY <2>2, <2>3
<1>4. ASSUME NEW k \in RunKeys PROVE RowKnows(k)'
  <2>1. RowKnows(k)
    BY DEF EnvInv
  <2>2. call[c].answer = "none"
    BY DEF EnvInv, GatewayInv, CallKnows, HasCommand
  <2>3. ASSUME NEW d \in Calls, Writer(d, k) PROVE Writer(d, k)'
    <3>1. d # c
      BY <2>2, <2>3 DEF Writer
    <3> QED
      BY <1>1, <2>3, <3>1 DEF Writer, RunKey
  <2> QED
    BY <1>1, <2>1, <2>3 DEF RowKnows
<1> QED
  BY <1>2, <1>3, <1>4 DEF EnvInv

(* A call of an envelope, or of an owned tool, in the gateway.               *)
LEMMA InnerStep ==
    ASSUME EnvInv, NEW c \in Calls, CallStep(c), UNCHANGED envelopeVars
    PROVE  EnvInv'
<1>1. GatewayInv'
  BY CallStepKeeps DEF EnvInv
<1>2. /\ call[c].pc \notin {"idle", "done"}
      /\ \A d \in Calls \ {c} : call'[d] = call[d]
      /\ call'[c].cmd = call[c].cmd
      /\ Wrote(c)' => \/ Wrote(c) /\ call'[c].comment = call[c].comment
                      \/ call'[c].comment = Len(ledger) + 1
  BY CallStepIs DEF EnvInv
<1> QED
  BY <1>1, <1>2, GatewayStepKeeps

LEMMA DirectStep ==
    ASSUME EnvInv, NEW c \in Calls, NEW cmd \in Commands, Direct(c, cmd),
           UNCHANGED envelopeVars
    PROVE  EnvInv'
<1>1. GatewayInv' /\ env[c].stage = "idle" /\ call[c].pc = "idle"
  BY SubmitStep DEF EnvInv, Direct, Submit
<1>2. call \in [Calls -> CallType] /\ call[c] \in CallType /\ call[c].answer = "none"
  BY <1>1 DEF EnvInv, GatewayInv, GatewayTypes, CallKnows, HasCommand
<1>3. FirstStage(cmd) \in {"build", "closeThesis", "insert"}
  BY DEF FirstStage
<1>5. (\A d \in Calls \ {c} : call'[d] = call[d]) /\ call'[c].answer = "none"
      /\ call'[c].pc \notin {"readback", "settle"}
  <2>1. CASE call' = [call EXCEPT ![c].cmd = cmd, ![c].now = clock,
                                  ![c].pc = FirstStage(cmd)]
    BY <1>2, <1>3, <2>1 DEF CallType
  <2>2. ASSUME NEW prev \in DayLinks(cmd.date), NEW preopen \in DayLinks(cmd.date),
               call' = [call EXCEPT ![c].cmd = cmd, ![c].now = clock, ![c].prev = prev,
                                    ![c].preopen = preopen, ![c].pc = "insert"]
        PROVE  (\A d \in Calls \ {c} : call'[d] = call[d]) /\ call'[c].answer = "none"
               /\ call'[c].pc \notin {"readback", "settle"}
    BY <1>2, <2>2 DEF CallType
  <2>3. Submit(c, cmd)
    BY DEF Direct
  <2> QED
    BY <2>1, <2>2, <2>3 DEF Submit, FirstStage
<1>4. ~Wrote(c)'
  BY <1>5 DEF Wrote
<1> QED
  BY <1>1, <1>4, <1>5, GatewayStepKeeps

------------------------------------------------------------------------------
(* The steps of an envelope *)

LEMMA EnvStepKeeps ==
    ASSUME EnvInv, GatewayInv', NEW c \in Calls, NEW new \in EnvType,
           env' = [env EXCEPT ![c] = new], new.stage # "idle",
           env[c].stage = "idle" \/ (new.e = env[c].e /\ new.now = env[c].now),
           \/ call' = call
           \/ /\ call[c].pc = "idle" /\ ~Wrote(c)'
              /\ \A d \in Calls \ {c} : call'[d] = call[d],
           rows' \in [RunKeys -> RowType],
           \A k \in RunKeys : rows'[k] = rows[k] \/ RowKnows(k)',
           EnvKnows(c)'
    PROVE  EnvInv'
<1>1. /\ env' \in [Calls -> EnvType] /\ env'[c] = new
      /\ \A d \in Calls \ {c} : env'[d] = env[d]
  BY DEF EnvInv, RunTypes
<1>2. \A d \in Calls \ {c} : call'[d] = call[d]
  OBVIOUS
<1>3. WritersDiffer'
  <2>1. CASE call' = call
    BY <2>1, WritersStay DEF Wrote
  <2>2. CASE ~Wrote(c)'
    BY <1>2, <2>2, WritersStay
  <2> QED
    BY <2>1, <2>2
<1>4. ASSUME NEW d \in Calls PROVE EnvKnows(d)'
  <2>1. EnvKnows(d)
    BY DEF EnvInv
  <2>2. d # c => EnvKnows(d)'
    BY <1>1, <1>2, <2>1 DEF EnvKnows
  <2> QED
    BY <2>2
<1>5. ASSUME NEW k \in RunKeys, rows'[k] = rows[k] PROVE RowKnows(k)'
  <2>1. RowKnows(k)
    BY DEF EnvInv
  <2>2. ASSUME NEW d \in Calls, Writer(d, k) PROVE Writer(d, k)'
    <3>1. CASE d # c
      BY <1>1, <1>2, <2>2, <3>1 DEF Writer, RunKey
    <3>2. CASE d = c
      <4>1. call' = call
        <5>1. call[c].pc = "idle" => call[c].answer = "none"
          BY DEF EnvInv, GatewayInv, CallKnows, HasCommand
        <5> QED
          BY <2>2, <3>2, <5>1 DEF Writer
      <4> QED
        BY <1>1, <2>2, <3>2, <4>1 DEF Writer, RunKey
    <3> QED
      BY <3>1, <3>2
  <2> QED
    BY <1>5, <2>1, <2>2 DEF RowKnows
<1> QED
  BY <1>1, <1>3, <1>4, <1>5 DEF EnvInv, RunTypes

LEMMA OuterKeeps ==
    ASSUME EnvInv, UNCHANGED <<receipts, ledger, call, clock, takenOver>>, Fault \/ NoFault
    PROVE  GatewayInv'
<1>1. clock' \in clock..MaxTime
  BY GatewayAssumption DEF EnvInv, GatewayInv, GatewayTypes
<1> QED
  BY <1>1, FaultBound, TickStep DEF EnvInv

LEMMA RunIs ==
    ASSUME EnvInv, NEW c \in Calls, env[c].stage # "idle"
    PROVE  /\ RunKey(c) \in RunKeys /\ Run(c) = rows[RunKey(c)] /\ Run(c) \in RowType
           /\ RowKnows(RunKey(c)) /\ EnvKnows(c) /\ env[c] \in EnvType
           /\ env[c].e \in Envelopes /\ env[c].now \in 0..MaxTime
<1>1. env[c].e \in Envelopes /\ env[c].now \in 0..MaxTime
  BY DEF EnvInv, EnvKnows
<1>2. RunKey(c) \in RunKeys
  BY <1>1 DEF RunKey, RunKeys
<1> QED
  BY <1>1, <1>2 DEF EnvInv, RunTypes, Run

(* The steps that end an envelope, and those that go on.                     *)
LEMMA ThrowKeeps ==
    ASSUME EnvInv, NEW c \in Calls, env[c].stage # "idle",
           NEW outcome \in Outcomes \cup {"ABSENT"}, Throw(c, outcome),
           UNCHANGED <<receipts, ledger, call, clock, takenOver>>, Fault \/ NoFault,
           rows' \in [RunKeys -> RowType],
           \A k \in RunKeys : rows'[k] = rows[k] \/ RowKnows(k)'
    PROVE  EnvInv'
<1> DEFINE new == [env[c] EXCEPT !.stage = "done", !.answer = "THROWN", !.outcome = outcome]
<1>1. env[c] \in EnvType /\ EnvKnows(c) /\ env \in [Calls -> EnvType]
  BY RunIs DEF EnvInv, RunTypes
<1>2. /\ new \in EnvType /\ new.stage = "done" /\ new.answer = "THROWN"
      /\ new.e = env[c].e /\ new.now = env[c].now
  BY <1>1 DEF EnvType, EnvStages, EnvAnswers
<1>3. env' = [env EXCEPT ![c] = new]
  BY DEF Throw
<1> HIDE DEF new
<1>4. EnvKnows(c)'
  BY <1>1, <1>2, <1>3 DEF EnvKnows, Before
<1> QED
  BY <1>2, <1>3, <1>4, OuterKeeps, EnvStepKeeps

LEMMA ReplayKeeps ==
    ASSUME EnvInv, NEW c \in Calls, env[c].stage # "idle", Replay(c, Run(c)),
           UNCHANGED <<receipts, ledger, call, clock, takenOver>>, Fault \/ NoFault,
           rows' = rows
    PROVE  EnvInv'
<1> DEFINE row == Run(c)
           new == [env[c] EXCEPT !.stage = "done", !.answer = "ENVELOPE_REPLAY",
                       !.outcome = row.outcome, !.fresh = row.fresh, !.run = row.run]
<1>1. env[c] \in EnvType /\ EnvKnows(c) /\ env \in [Calls -> EnvType] /\ row \in RowType
  BY RunIs DEF EnvInv, RunTypes
<1>2. /\ row.outcome \in Outcomes \cup {"ABSENT"} /\ row.fresh \in Int
      /\ row.run \in Calls \cup {NoCall}
  BY <1>1 DEF RowType
<1>3. env' = [env EXCEPT ![c] = new]
  BY DEF Replay
<1> HIDE DEF row
<1>4. /\ new \in EnvType /\ new.stage = "done" /\ new.answer = "ENVELOPE_REPLAY"
      /\ new.e = env[c].e /\ new.now = env[c].now
  BY <1>1, <1>2 DEF EnvType, EnvStages, EnvAnswers
<1> HIDE DEF new
<1>5. EnvKnows(c)'
  BY <1>1, <1>3, <1>4 DEF EnvKnows, Before
<1>6. rows' \in [RunKeys -> RowType]
  BY DEF EnvInv, RunTypes
<1> QED
  BY <1>3, <1>4, <1>5, <1>6, OuterKeeps, EnvStepKeeps

(* An envelope that goes on, with the run it reserves or adopts.             *)
LEMMA EnterKeeps ==
    ASSUME EnvInv, NEW c \in Calls, env[c].stage # "idle",
           NEW stage \in EnvStages \ {"idle", "done"},
           NEW run \in Calls \cup {NoCall},
           env' = [env EXCEPT ![c] = [env[c] EXCEPT !.stage = stage, !.run = run]],
           env[c].stage # "done",
           stage \in Before => env[c].stage \in Before,
           stage \in {"lookup", "reserve", "adopt", "execute", "record"} =>
              env[c].stage \in {"lookup", "reserve", "adopt", "execute", "record"},
           stage = "reserve" => run \in Calls,
           stage = "record" => env[c].e.kind # "payload",
           UNCHANGED <<receipts, ledger, call, clock, takenOver>>, Fault \/ NoFault,
           rows' \in [RunKeys -> RowType],
           \A k \in RunKeys : rows'[k] = rows[k] \/ RowKnows(k)'
    PROVE  EnvInv'
<1> DEFINE new == [env[c] EXCEPT !.stage = stage, !.run = run]
<1>1. env[c] \in EnvType /\ EnvKnows(c) /\ env \in [Calls -> EnvType]
  BY RunIs DEF EnvInv, RunTypes
<1>2. /\ new \in EnvType /\ new.stage = stage /\ new.run = run /\ new.answer = env[c].answer
      /\ new.e = env[c].e /\ new.now = env[c].now
  BY <1>1 DEF EnvType
<1>3. env' = [env EXCEPT ![c] = new]
  OBVIOUS
<1> HIDE DEF new
<1>4. env'[c] = new
  BY <1>1, <1>3
<1>5. EnvKnows(c)'
  BY <1>1, <1>2, <1>4 DEF EnvKnows
<1> QED
  BY <1>2, <1>3, <1>5, OuterKeeps, EnvStepKeeps

LEMMA NewRun ==
    ASSUME EnvInv, NEW c \in Calls, env[c].stage # "idle", NEW run \in Calls,
           NEW outcome \in {"UNKNOWN", "FAILED"},
           rows' = [rows EXCEPT ![RunKey(c)] =
                       [outcome |-> outcome, fresh |-> Null, run |-> run]]
    PROVE  /\ rows' \in [RunKeys -> RowType]
           /\ \A k \in RunKeys : rows'[k] = rows[k] \/ RowKnows(k)'
<1> DEFINE new == [outcome |-> outcome, fresh |-> Null, run |-> run]
<1>1. RunKey(c) \in RunKeys /\ rows \in [RunKeys -> RowType]
  BY RunIs DEF EnvInv, RunTypes
<1> PICK key \in RunKeys : key = RunKey(c)
  BY <1>1
<1>2. new \in RowType /\ new.outcome = outcome /\ new.fresh = Null /\ new.run = run
  BY DEF RowType, Outcomes, Null
<1> HIDE DEF new
<1>3. rows' = [rows EXCEPT ![key] = new]
  BY DEF new
<1>4. rows' \in [RunKeys -> RowType] /\ \A k \in RunKeys \ {key} : rows'[k] = rows[k]
  BY <1>1, <1>2, <1>3
<1>5. rows'[key] = new
  BY <1>1, <1>3
<1>6. RowKnows(key)'
  <2>1. run # NoCall /\ outcome # "ABSENT" /\ outcome # "COMPLETED" /\ Null # 1
    BY GatewayAssumption DEF Null
  <2>2. rows'[key].run # NoCall /\ rows'[key].outcome \notin {"ABSENT", "COMPLETED"}
        /\ rows'[key].fresh = Null
    BY <1>2, <1>5, <2>1
  <2> QED
    BY <2>1, <2>2 DEF RowKnows, Null
<1>7. ASSUME NEW k \in RunKeys PROVE rows'[k] = rows[k] \/ RowKnows(k)'
  BY <1>4, <1>6
<1> QED
  BY <1>4, <1>7

LEMMA ReceiveStep ==
    ASSUME EnvInv, NEW c \in Calls, NEW e \in Envelopes, Receive(c, e)
    PROVE  EnvInv'
<1> DEFINE stage == IF IsRejected(e) THEN "reject" ELSE "lookup"
           new == [env[c] EXCEPT !.e = e, !.now = clock, !.run = c, !.stage = stage]
<1>1. /\ env[c] \in EnvType /\ EnvKnows(c) /\ env \in [Calls -> EnvType]
      /\ clock \in 0..MaxTime /\ clock \in Nat /\ rows \in [RunKeys -> RowType]
  BY GatewayAssumption DEF EnvInv, RunTypes, GatewayInv, GatewayTypes
<1>2. /\ stage \in {"reject", "lookup"} /\ (stage = "lookup" => ~IsRejected(e))
      /\ call[c].pc = "idle" /\ env[c].stage = "idle"
      /\ UNCHANGED <<receipts, ledger, call, clock, takenOver>> /\ NoFault
      /\ rows' = rows
  BY DEF Receive, gatewayVars, NoFault
<1>3. env' = [env EXCEPT ![c] = new]
  BY DEF Receive
<1> HIDE DEF stage
<1>4. /\ new \in EnvType /\ new.stage = stage /\ new.answer = env[c].answer
      /\ new.e = e /\ new.now = clock
  BY <1>1, <1>2 DEF EnvType, EnvStages
<1> HIDE DEF new
<1>5. env'[c] = new
  BY <1>1, <1>3
<1>6. EnvKnows(c)'
  BY <1>1, <1>2, <1>4, <1>5 DEF EnvKnows
<1> QED
  BY <1>1, <1>2, <1>3, <1>4, <1>6, OuterKeeps, EnvStepKeeps

LEMMA RejectStep ==
    ASSUME EnvInv, NEW c \in Calls, Reject(c)
    PROVE  EnvInv'
<1>1. /\ env[c].stage = "reject" /\ (Fault \/ NoFault)
      /\ UNCHANGED <<receipts, ledger, call, clock, takenOver>>
      /\ rows \in [RunKeys -> RowType]
  BY DEF Reject, EnvInv, RunTypes
<1>2. CASE /\ rows' = [rows EXCEPT ![RunKey(c)] =
                          [outcome |-> "FAILED", fresh |-> Null, run |-> c]]
           /\ Throw(c, "FAILED")
  <2>1. /\ rows' \in [RunKeys -> RowType]
        /\ \A k \in RunKeys : rows'[k] = rows[k] \/ RowKnows(k)'
    BY <1>1, <1>2, NewRun
  <2> QED
    BY <1>1, <1>2, <2>1, ThrowKeeps DEF Outcomes
<1>3. CASE Replay(c, Run(c)) /\ UNCHANGED rows
  BY <1>1, <1>3, ReplayKeeps
<1>4. CASE Throw(c, "ABSENT") /\ UNCHANGED rows
  BY <1>1, <1>4, ThrowKeeps
<1> QED
  BY <1>2, <1>3, <1>4 DEF Reject

LEMMA EnterIs ==
    ASSUME EnvInv, NEW c \in Calls, NEW stage, Enter(c, stage)
    PROVE  /\ env' = [env EXCEPT ![c] = [env[c] EXCEPT !.stage = stage, !.run = env[c].run]]
           /\ env[c].run \in Calls \cup {NoCall}
<1>1. env[c] \in EnvType
  BY DEF EnvInv, RunTypes
<1>2. [env[c] EXCEPT !.stage = stage] = [env[c] EXCEPT !.stage = stage, !.run = env[c].run]
  BY <1>1 DEF EnvType
<1> QED
  BY <1>1, <1>2 DEF Enter, EnvType

LEMMA LookupStep ==
    ASSUME EnvInv, NEW c \in Calls, Lookup(c)
    PROVE  EnvInv'
<1>1. /\ env[c].stage = "lookup" /\ (Fault \/ NoFault) /\ rows' = rows
      /\ UNCHANGED <<receipts, ledger, call, clock, takenOver>>
  BY DEF Lookup
<1>2. rows' \in [RunKeys -> RowType] /\ \A k \in RunKeys : rows'[k] = rows[k]
  BY <1>1 DEF EnvInv, RunTypes
<1>3. CASE Replay(c, Run(c))
  BY <1>1, <1>3, ReplayKeeps
<1>4. CASE Throw(c, "ABSENT")
  BY <1>1, <1>2, <1>4, ThrowKeeps
<1>5. CASE env' = [env EXCEPT ![c].stage = "reserve",
                       ![c].run = IF Run(c).outcome = "ABSENT" THEN c ELSE Run(c).run]
  <2> DEFINE run == IF Run(c).outcome = "ABSENT" THEN c ELSE Run(c).run
  <2>1. run \in Calls
    <3>1. Run(c) \in RowType /\ RowKnows(RunKey(c)) /\ Run(c) = rows[RunKey(c)]
      BY <1>1, RunIs
    <3>2. Run(c).outcome # "ABSENT" => Run(c).run \in Calls
      BY <3>1 DEF RowType, RowKnows
    <3> QED
      BY <3>2
  <2>2. env' = [env EXCEPT ![c] = [env[c] EXCEPT !.stage = "reserve", !.run = run]]
    BY <1>5
  <2> HIDE DEF run
  <2>3. "reserve" \in EnvStages \ {"idle", "done"} /\ "reserve" \in Before
        /\ "lookup" \in Before
    BY DEF EnvStages, Before
  <2> QED
    BY <1>1, <1>2, <2>1, <2>2, <2>3, EnterKeeps
<1> QED
  BY <1>3, <1>4, <1>5 DEF Lookup

LEMMA ReserveStep ==
    ASSUME EnvInv, NEW c \in Calls, Reserve(c)
    PROVE  EnvInv'
<1>1. /\ env[c].stage = "reserve" /\ (Fault \/ NoFault)
      /\ UNCHANGED <<receipts, ledger, call, clock, takenOver>>
  BY DEF Reserve
<1>2. env[c].run \in Calls /\ rows \in [RunKeys -> RowType]
  BY <1>1 DEF EnvInv, EnvKnows, RunTypes
<1>3. {"execute", "adopt"} \subseteq EnvStages \ {"idle", "done"} /\ "reserve" \in Before
  BY DEF EnvStages, Before
<1>4. CASE /\ rows' = [rows EXCEPT ![RunKey(c)] =
                          [outcome |-> "UNKNOWN", fresh |-> Null, run |-> env[c].run]]
           /\ Enter(c, "execute")
  <2>1. /\ rows' \in [RunKeys -> RowType]
        /\ \A k \in RunKeys : rows'[k] = rows[k] \/ RowKnows(k)'
    BY <1>1, <1>2, <1>4, NewRun
  <2>2. env' = [env EXCEPT ![c] = [env[c] EXCEPT !.stage = "execute", !.run = env[c].run]]
        /\ env[c].run \in Calls \cup {NoCall}
    BY <1>4, EnterIs
  <2> QED
    BY <1>1, <1>3, <2>1, <2>2, EnterKeeps
<1>5. CASE Enter(c, "adopt") /\ UNCHANGED rows
  <2>1. env' = [env EXCEPT ![c] = [env[c] EXCEPT !.stage = "adopt", !.run = env[c].run]]
        /\ env[c].run \in Calls \cup {NoCall}
    BY <1>5, EnterIs
  <2> QED
    BY <1>1, <1>2, <1>3, <1>5, <2>1, EnterKeeps
<1>6. CASE Throw(c, "ABSENT") /\ UNCHANGED rows
  BY <1>1, <1>2, <1>6, ThrowKeeps
<1> QED
  BY <1>4, <1>5, <1>6 DEF Reserve

LEMMA AdoptStep ==
    ASSUME EnvInv, NEW c \in Calls, Adopt(c)
    PROVE  EnvInv'
<1>1. /\ env[c].stage = "adopt" /\ (Fault \/ NoFault) /\ rows' = rows
      /\ UNCHANGED <<receipts, ledger, call, clock, takenOver>>
  BY DEF Adopt
<1>2. rows' \in [RunKeys -> RowType] /\ \A k \in RunKeys : rows'[k] = rows[k]
  BY <1>1 DEF EnvInv, RunTypes
<1>3. CASE Replay(c, Run(c))
  BY <1>1, <1>3, ReplayKeeps
<1>4. CASE Throw(c, "ABSENT")
  BY <1>1, <1>2, <1>4, ThrowKeeps
<1>5. CASE env' = [env EXCEPT ![c].stage = "execute", ![c].run = Run(c).run]
  <2> DEFINE run == Run(c).run
  <2>1. run \in Calls \cup {NoCall}
    BY <1>1, RunIs DEF RowType
  <2>2. env' = [env EXCEPT ![c] = [env[c] EXCEPT !.stage = "execute", !.run = run]]
    BY <1>5
  <2> HIDE DEF run
  <2>3. "execute" \in EnvStages \ {"idle", "done"} /\ "adopt" \in Before
    BY DEF EnvStages, Before
  <2> QED
    BY <1>1, <1>2, <2>1, <2>2, <2>3, EnterKeeps
<1> QED
  BY <1>3, <1>4, <1>5 DEF Adopt

(* A payload enters the gateway, or is answered that the owner is unreadable. *)
LEMMA ExecuteStep ==
    ASSUME EnvInv, NEW c \in Calls, Execute(c)
    PROVE  EnvInv'
<1> DEFINE e == env[c].e
           new == [env[c] EXCEPT !.stage = "record"]
<1>1. /\ env[c].stage = "execute" /\ (Fault \/ NoFault) /\ rows' = rows
      /\ Enter(c, "record") /\ UNCHANGED <<receipts, ledger, clock, takenOver>>
  BY DEF Execute
<1>2. rows' \in [RunKeys -> RowType] /\ \A k \in RunKeys : rows'[k] = rows[k]
  BY <1>1 DEF EnvInv, RunTypes
<1>3. /\ e \in Envelopes /\ env[c].now \in 0..MaxTime /\ EnvKnows(c) /\ env[c] \in EnvType
      /\ env \in [Calls -> EnvType]
  BY <1>1, RunIs DEF EnvInv, RunTypes
<1>4. call[c].pc = "idle" /\ call[c].answer = "none" /\ call \in [Calls -> CallType]
  BY <1>1, <1>3
  DEF EnvKnows, Before, EnvInv, GatewayInv, GatewayTypes, CallKnows, HasCommand
<1>5. CASE e.kind # "payload" /\ UNCHANGED call
  <2>1. env' = [env EXCEPT ![c] = [env[c] EXCEPT !.stage = "record", !.run = env[c].run]]
        /\ env[c].run \in Calls \cup {NoCall}
    BY <1>1, EnterIs
  <2>2. "record" \in EnvStages \ {"idle", "done"} /\ "record" \notin Before
    BY DEF EnvStages, Before
  <2> QED
    BY <1>1, <1>2, <1>5, <2>1, <2>2, EnterKeeps
<1>6. ASSUME GatewayInv', call'[c].cmd = e.cmd \/ (call'[c].pc = "done"
                                        /\ call'[c].answer = "STATE_UNAVAILABLE"),
             ~Wrote(c)', \A d \in Calls \ {c} : call'[d] = call[d]
      PROVE  EnvInv'
  <2>1. env' = [env EXCEPT ![c] = new]
    BY <1>1 DEF Enter
  <2>2. /\ new \in EnvType /\ new.stage = "record" /\ new.e = e /\ new.now = env[c].now
        /\ new.answer = env[c].answer
    BY <1>3 DEF EnvType, EnvStages
  <2> HIDE DEF new
  <2>3. env'[c] = new
    BY <1>3, <2>1
  <2>4. EnvKnows(c)'
    BY <1>1, <1>3, <1>6, <2>2, <2>3 DEF EnvKnows, Before
  <2> QED
    BY <1>2, <1>4, <1>6, <2>1, <2>2, <2>4, EnvStepKeeps
<1>7. CASE /\ e.kind = "payload" /\ NoFault
           /\ call' = [call EXCEPT ![c].cmd = e.cmd, ![c].now = clock,
                                   ![c].pc = FirstStage(e.cmd)]
  <2>1. e.cmd \in Commands
    BY <1>3, <1>7, EnvelopeAssumption
  <2>2. GatewayInv'
    BY <1>1, <1>4, <1>7, <2>1, BeginStep DEF EnvInv
  <2>3. FirstStage(e.cmd) \notin {"readback", "settle"}
    BY DEF FirstStage
  <2>4. /\ call'[c].cmd = e.cmd /\ call'[c].pc = FirstStage(e.cmd) /\ call'[c].answer = "none"
        /\ \A d \in Calls \ {c} : call'[d] = call[d]
    BY <1>4, <1>7 DEF CallType
  <2>5. ~Wrote(c)'
    BY <2>3, <2>4 DEF Wrote
  <2> QED
    BY <1>6, <2>2, <2>4, <2>5
<1>8. CASE Fault /\ Answer(c, "STATE_UNAVAILABLE")
  <2>1. "STATE_UNAVAILABLE" \in Answers \ (Settled \cup {"none", "STATE_CONFLICT"})
    BY PlainAnswers
  <2>2. GatewayInv'
    BY <1>1, <1>8, <2>1, QuietAnswer DEF EnvInv
  <2>3. /\ call'[c].pc = "done" /\ call'[c].answer = "STATE_UNAVAILABLE"
        /\ \A d \in Calls \ {c} : call'[d] = call[d]
    BY <1>4, <1>8 DEF Answer, CallType
  <2>4. ~Wrote(c)'
    BY <2>3 DEF Wrote
  <2> QED
    BY <1>6, <2>2, <2>3, <2>4
<1> QED
  BY <1>5, <1>7, <1>8 DEF Execute, Answer, FirstStage

LEMMA DetailIs ==
    ASSUME NEW e \in EnvelopeType
    PROVE  e.detail \in Int
<1>1. \A d \in 0..512 : d \in Int
  OBVIOUS
<1>2. e.detail \in 0..512
  BY DEF EnvelopeType
<1> QED
  BY <1>1, <1>2

(* What the derivation matrix records.                                       *)
LEMMA OutcomeIs ==
    ASSUME EnvInv, NEW c \in Calls, env[c].stage = "record"
    PROVE  /\ OutcomeOf(c) \in Outcomes /\ FreshOf(c) \in Int /\ RunKey(c).kind = env[c].e.kind
           /\ FreshOf(c) # Null => \/ OutcomeOf(c) \in {"COMPLETED", "SILENT"}
                                   \/ env[c].e.kind = "blocked" /\ FreshOf(c) = 0
           /\ env[c].e.kind = "payload" /\ (OutcomeOf(c) = "COMPLETED" \/ FreshOf(c) = 1) =>
                 call[c].answer = "PERSISTED" /\ call[c].cmd = env[c].e.cmd
<1> DEFINE e == env[c].e
           answer == call[c].answer
<1>1. e \in Envelopes /\ EnvKnows(c)
  BY RunIs
<1>2. /\ e.kind \in {"payload", "heartbeat", "blocked", "observation"}
      /\ e.detail \in Int /\ ~IsRejected(e)
  <2>1. e \in EnvelopeType
    BY <1>1, EnvelopeAssumption
  <2>2. ~IsRejected(e)
    BY <1>1 DEF EnvKnows
  <2>3. e.kind \in {"payload", "heartbeat", "blocked", "observation", "mixed"}
    BY <2>1 DEF EnvelopeType
  <2>4. e.detail \in Int
    BY <2>1, DetailIs
  <2> QED
    BY <2>2, <2>3, <2>4 DEF IsRejected
<1>3. RunKey(c).kind = e.kind
  BY <1>2 DEF RunKey, EnvelopeKey
<1>4. CASE e.kind = "blocked"
  <2>1. OutcomeOf(c) = "BLOCKED"
    BY <1>4 DEF OutcomeOf
  <2>2. FreshOf(c) = 0
    BY <1>4 DEF FreshOf
  <2> QED
    BY <1>3, <1>4, <2>1, <2>2 DEF Outcomes
<1>5. CASE e.kind \in {"observation", "heartbeat"}
  <2>1. OutcomeOf(c) = "SILENT"
    BY <1>5 DEF OutcomeOf
  <2>2. CASE e.kind = "observation"
    <3>1. FreshOf(c) = e.detail
      BY <2>2 DEF FreshOf
    <3>2. FreshOf(c) \in Int
      BY <1>2, <3>1
    <3> QED
      BY <1>3, <2>1, <2>2, <3>2 DEF Outcomes
  <2>3. CASE e.kind = "heartbeat"
    <3>1. FreshOf(c) = 0
      BY <2>3 DEF FreshOf
    <3> QED
      BY <1>3, <2>1, <2>3, <3>1 DEF Outcomes
  <2> QED
    BY <1>5, <2>2, <2>3
<1>6. CASE e.kind = "payload"
  <2>1. answer = "PERSISTED" => call[c].cmd = e.cmd
    BY <1>1, <1>6 DEF EnvKnows
  <2>2. CASE answer = "PERSISTED"
    <3>1. OutcomeOf(c) = "COMPLETED"
      BY <1>6, <2>2 DEF OutcomeOf, Retryable
    <3>2. FreshOf(c) = 1
      BY <1>6, <2>2 DEF FreshOf, Settled
    <3> QED
      BY <1>3, <1>6, <2>1, <2>2, <3>1, <3>2 DEF Outcomes
  <2>3. CASE answer = "IDEMPOTENT_REPLAY"
    <3>1. OutcomeOf(c) = "SILENT"
      BY <1>6, <2>3 DEF OutcomeOf, Retryable
    <3>2. FreshOf(c) = 0
      BY <1>6, <2>3 DEF FreshOf, Settled
    <3> QED
      BY <1>3, <1>6, <3>1, <3>2 DEF Outcomes
  <2>4. CASE answer \notin Settled
    <3>1. OutcomeOf(c) \in {"UNKNOWN", "BLOCKED", "FAILED"}
      BY <1>6, <2>4 DEF OutcomeOf, Settled
    <3>2. FreshOf(c) = Null
      BY <1>6, <2>4 DEF FreshOf, Settled
    <3> QED
      BY <1>3, <1>6, <3>1, <3>2 DEF Outcomes, Null
  <2> QED
    BY <2>2, <2>3, <2>4 DEF Settled
<1> QED
  BY <1>2, <1>4, <1>5, <1>6

RowWith(row, outcome, fresh) == [row EXCEPT !.outcome = outcome, !.fresh = fresh]

LEMMA RowWithIs ==
    ASSUME NEW row \in RowType, NEW o \in Outcomes, NEW f \in Int, NEW new,
           new = RowWith(row, o, f)
    PROVE  new \in RowType /\ new.outcome = o /\ new.fresh = f /\ new.run = row.run
<1>1. new = [row EXCEPT !.outcome = o, !.fresh = f]
  BY DEF RowWith
<1>2. new = [outcome |-> o, fresh |-> f, run |-> row.run]
  BY <1>1 DEF RowType
<1> QED
  BY <1>2 DEF RowType

LEMMA RecordedRow ==
    ASSUME EnvInv, NEW c \in Calls, env[c].stage = "record", rows' \in {rows, Recorded(c)},
           call' = call, env'[c].stage # "idle", env'[c].e = env[c].e,
           env'[c].now = env[c].now
    PROVE  /\ rows' \in [RunKeys -> RowType]
           /\ \A k \in RunKeys : rows'[k] = rows[k] \/ RowKnows(k)'
<1>1. /\ RunKey(c) \in RunKeys /\ rows \in [RunKeys -> RowType] /\ Run(c) = rows[RunKey(c)]
      /\ Run(c) \in RowType /\ RowKnows(RunKey(c))
  BY RunIs DEF EnvInv, RunTypes
<1>2. PICK key \in RunKeys : key = RunKey(c)
  BY <1>1
<1>3. CASE rows' = rows
  BY <1>1, <1>3
<1>4. CASE Run(c).outcome = "UNKNOWN" /\ rows' = [rows EXCEPT ![key].outcome = OutcomeOf(c),
                                                          ![key].fresh = FreshOf(c)]
  <2>1. /\ OutcomeOf(c) \in Outcomes /\ FreshOf(c) \in Int /\ key.kind = env[c].e.kind
        /\ FreshOf(c) # Null => \/ OutcomeOf(c) \in {"COMPLETED", "SILENT"}
                                \/ key.kind = "blocked" /\ FreshOf(c) = 0
        /\ key.kind = "payload" /\ (OutcomeOf(c) = "COMPLETED" \/ FreshOf(c) = 1) =>
              call[c].answer = "PERSISTED" /\ call[c].cmd = env[c].e.cmd
    BY <1>2, OutcomeIs
  <2>2. Run(c).run \in Calls \cup {NoCall} /\ Run(c).run # NoCall
    BY <1>1, <1>4 DEF RowType, RowKnows
  <2> DEFINE new == RowWith(rows[key], OutcomeOf(c), FreshOf(c))
  <2>3. rows' = [rows EXCEPT ![key] = new]
    BY <1>4 DEF RowWith
  <2> HIDE DEF new
  <2>4. new = RowWith(rows[key], OutcomeOf(c), FreshOf(c)) /\ rows[key] \in RowType
    BY <1>1, <1>2 DEF new
  <2>5. /\ new \in RowType /\ new.outcome = OutcomeOf(c) /\ new.fresh = FreshOf(c)
        /\ new.run = Run(c).run
    BY <1>1, <1>2, <2>1, <2>4, RowWithIs
  <2>6. /\ rows' \in [RunKeys -> RowType] /\ rows'[key] = new
        /\ \A k \in RunKeys \ {key} : rows'[k] = rows[k]
    BY <1>1, <1>2, <2>3, <2>5
  <2>7. key.kind = "payload" /\ (OutcomeOf(c) = "COMPLETED" \/ FreshOf(c) = 1) => Writer(c, key)'
    BY <1>2, <2>1 DEF Writer, RunKey
  <2>8. "ABSENT" \notin Outcomes
    BY DEF Outcomes
  <2>9. RowKnows(key)'
    BY <2>1, <2>2, <2>5, <2>6, <2>7, <2>8 DEF RowKnows
  <2>10. ASSUME NEW k \in RunKeys PROVE rows'[k] = rows[k] \/ RowKnows(k)'
    BY <2>6, <2>9
  <2> QED
    BY <2>6, <2>10
<1> QED
  BY <1>2, <1>3, <1>4 DEF Recorded

LEMMA RecordStep ==
    ASSUME EnvInv, NEW c \in Calls, Record(c)
    PROVE  EnvInv'
<1>1. /\ env[c].stage = "record" /\ (Fault \/ NoFault) /\ rows' \in {rows, Recorded(c)}
      /\ UNCHANGED <<receipts, ledger, call, clock, takenOver>>
  BY DEF Record, Recorded
<1>2. env[c] \in EnvType /\ env \in [Calls -> EnvType] /\ EnvKnows(c)
  BY <1>1, RunIs DEF EnvInv, RunTypes
<1>3. CASE Throw(c, "ABSENT")
  <2>1. env'[c].stage = "done" /\ env'[c].e = env[c].e /\ env'[c].now = env[c].now
    BY <1>2, <1>3 DEF Throw, EnvType
  <2>2. /\ rows' \in [RunKeys -> RowType]
        /\ \A k \in RunKeys : rows'[k] = rows[k] \/ RowKnows(k)'
    BY <1>1, <2>1, RecordedRow
  <2> QED
    BY <1>1, <1>3, <2>2, ThrowKeeps
<1>4. ASSUME NEW answer \in EnvAnswers \ {"none"},
             env' = [env EXCEPT ![c].stage = "done", ![c].answer = answer,
                                ![c].outcome = OutcomeOf(c), ![c].fresh = FreshOf(c)]
      PROVE  EnvInv'
  <2> DEFINE new == [env[c] EXCEPT !.stage = "done", !.answer = answer,
                                   !.outcome = OutcomeOf(c), !.fresh = FreshOf(c)]
  <2>1. env' = [env EXCEPT ![c] = new]
    BY <1>4
  <2>2. OutcomeOf(c) \in Outcomes /\ FreshOf(c) \in Int
    BY <1>1, OutcomeIs
  <2>3. /\ new \in EnvType /\ new.stage = "done" /\ new.answer = answer
        /\ new.e = env[c].e /\ new.now = env[c].now
    BY <1>2, <2>2 DEF EnvType, EnvStages
  <2> HIDE DEF new
  <2>4. env'[c] = new
    BY <1>2, <2>1
  <2>5. EnvKnows(c)'
    BY <1>1, <1>2, <2>3, <2>4 DEF EnvKnows, Before
  <2>6. /\ rows' \in [RunKeys -> RowType]
        /\ \A k \in RunKeys : rows'[k] = rows[k] \/ RowKnows(k)'
    BY <1>1, <2>3, <2>4, RecordedRow
  <2> QED
    BY <1>1, <2>1, <2>3, <2>5, <2>6, OuterKeeps, EnvStepKeeps
<1>5. {"ENVELOPE_RECORDED", "THROWN"} \subseteq EnvAnswers \ {"none"}
  BY DEF EnvAnswers
<1> QED
  BY <1>3, <1>4, <1>5 DEF Record

LEMMA EvictStep ==
    ASSUME EnvInv, NEW c \in Calls, Evict(c)
    PROVE  EnvInv'
<1>1. /\ env[c].stage \notin {"idle", "done"} /\ Fault /\ rows' = rows
      /\ UNCHANGED <<receipts, ledger, call, clock, takenOver>>
  BY DEF Evict
<1>2. rows' \in [RunKeys -> RowType] /\ \A k \in RunKeys : rows'[k] = rows[k]
  BY <1>1 DEF EnvInv, RunTypes
<1>3. env' = [env EXCEPT ![c] = [env[c] EXCEPT !.stage = "dead", !.run = env[c].run]]
      /\ env[c].run \in Calls \cup {NoCall}
  BY EnterIs DEF Evict
<1>4. "dead" \in EnvStages \ {"idle", "done"} /\ "dead" \notin Before
  BY DEF EnvStages, Before
<1> QED
  BY <1>1, <1>2, <1>3, <1>4, EnterKeeps

------------------------------------------------------------------------------
(* The invariant *)

LEMMA EnvInit == Init => EnvInv
<1> SUFFICES ASSUME Init PROVE EnvInv
  OBVIOUS
<1>1. GatewayInv /\ \A c \in Calls : call[c] = Idle
  BY GatewayInitInv DEF Init, GatewayInit
<1>2. IdleEnv \in EnvType /\ NoRun \in RowType
  BY DEF IdleEnv, EnvType, EnvStages, EnvAnswers, NoRun, RowType, Null
<1>3. /\ rows = [k \in RunKeys |-> NoRun] /\ env = [c \in Calls |-> IdleEnv]
  BY DEF Init
<1>4. RunTypes
  BY <1>2, <1>3 DEF RunTypes
<1>5. \A c \in Calls : ~Wrote(c)
  BY <1>1 DEF Wrote, Idle
<1>6. \A k \in RunKeys : RowKnows(k)
  BY <1>3 DEF RowKnows, NoRun, Null
<1>7. \A c \in Calls : EnvKnows(c)
  BY <1>3 DEF EnvKnows, IdleEnv, Before
<1> QED
  BY <1>1, <1>4, <1>5, <1>6, <1>7 DEF EnvInv, WritersDiffer

LEMMA ClockStep ==
    ASSUME EnvInv, UNCHANGED <<receipts, ledger, call, takenOver, rows, env>>,
           clock' \in clock..MaxTime, faults' = faults
    PROVE  EnvInv'
<1>1. GatewayInv'
  BY TickStep DEF EnvInv, GatewayInv, GatewayTypes
<1>2. RunTypes' /\ WritersDiffer'
  BY DEF EnvInv, RunTypes, WritersDiffer, Wrote
<1>3. \A k \in RunKeys : RowKnows(k)'
  BY DEF EnvInv, RowKnows, Writer, RunKey
<1>4. \A c \in Calls : EnvKnows(c)'
  BY DEF EnvInv, EnvKnows
<1> QED
  BY <1>1, <1>2, <1>3, <1>4 DEF EnvInv

LEMMA EnvNext == EnvInv /\ [Next]_vars => EnvInv'
<1> SUFFICES ASSUME EnvInv, [Next]_vars PROVE EnvInv'
  OBVIOUS
<1>1. ASSUME NEW c \in Calls, NEW e \in Envelopes, Receive(c, e) PROVE EnvInv'
  BY <1>1, ReceiveStep
<1>2. ASSUME NEW c \in Calls, EnvelopeStep(c) PROVE EnvInv'
  BY <1>2, RejectStep, LookupStep, ReserveStep, AdoptStep, ExecuteStep, RecordStep, EvictStep
  DEF EnvelopeStep
<1>3. ASSUME NEW c \in Calls, CallStep(c), UNCHANGED envelopeVars PROVE EnvInv'
  BY <1>3, InnerStep
<1>4. ASSUME NEW c \in Calls, NEW cmd \in Commands, Direct(c, cmd), UNCHANGED envelopeVars
      PROVE  EnvInv'
  BY <1>4, DirectStep
<1>5. clock \in 0..MaxTime /\ clock + 1 \in Int /\ MaxTime \in Nat
  BY GatewayAssumption DEF EnvInv, GatewayInv, GatewayTypes
<1>6. CASE Tick /\ UNCHANGED envelopeVars
  <2>1. clock' \in clock..MaxTime
    BY <1>5, <1>6 DEF Tick
  <2> QED
    BY <1>6, <2>1, ClockStep DEF Tick, envelopeVars
<1>7. CASE UNCHANGED vars
  <2>1. clock' \in clock..MaxTime
    BY <1>5, <1>7 DEF vars, gatewayVars
  <2> QED
    BY <1>7, <2>1, ClockStep DEF vars, gatewayVars, envelopeVars
<1> QED
  BY <1>1, <1>2, <1>3, <1>4, <1>6, <1>7 DEF Next

(* What the runs of the envelopes tell of the ledger, whatever interleaves    *)
(* with them.                                                                *)
THEOREM EnvelopeInvariant == Spec => []EnvInv
<1> QED
  BY EnvInit, EnvNext, PTL DEF Spec

------------------------------------------------------------------------------
(* What follows from it *)

LEMMA EnvInvTypeOK == EnvInv => TypeOK
<1> SUFFICES ASSUME EnvInv PROVE TypeOK
  OBVIOUS
<1>1. GatewayTypeOK
  BY GatewayInvTypeOK DEF EnvInv
<1>2. DOMAIN rows = RunKeys /\ DOMAIN env = Calls
  BY DEF EnvInv, RunTypes
<1>3. ASSUME NEW k \in RunKeys
      PROVE  /\ rows[k].outcome \in Outcomes \cup {"ABSENT"}
             /\ (rows[k].run = NoCall) <=> (rows[k].outcome = "ABSENT")
             /\ rows[k].fresh # Null => \/ rows[k].outcome \in {"COMPLETED", "SILENT"}
                                        \/ k.kind = "blocked" /\ rows[k].fresh = 0
  BY DEF EnvInv, RunTypes, RowType, RowKnows
<1>4. ASSUME NEW c \in Calls
      PROVE  /\ env[c].stage \in EnvStages
             /\ (env[c].stage = "done") <=> (env[c].answer # "none")
  BY DEF EnvInv, RunTypes, EnvType, EnvKnows
<1> QED
  BY <1>1, <1>2, <1>3, <1>4 DEF TypeOK, EnvStages

(* Every variable of the gateway and of the runs keeps its type; a row has a *)
(* run once it exists, and a fresh count only with an outcome that has one.  *)
THEOREM RunsTypeCorrect == Spec => []TypeOK
<1> QED
  BY EnvelopeInvariant, EnvInvTypeOK, PTL

(* The comment of the call that wrote for a run has the content of its key.  *)
LEMMA WriterComment ==
    ASSUME EnvInv, NEW k \in RunKeys, k.kind = "payload", NEW c \in Calls, Writer(c, k)
    PROVE  /\ call[c].comment \in DOMAIN ledger
           /\ ContentOf(ledger[call[c].comment].cmd) = k.content
<1>1. "PERSISTED" \in Settled
  BY DEF Settled
<1>2. /\ call[c].cmd \in CommandType /\ call[c].comment \in DOMAIN ledger
      /\ PayloadOf(ledger[call[c].comment]) = Payload(c)
  BY <1>1, CommandsTyped
  DEF Writer, EnvInv, GatewayInv, CallKnows, HasCommand, KnowsComment
<1>3. ledger[call[c].comment] \in CommentType
  BY <1>2 DEF EnvInv, GatewayInv, GatewayTypes
<1>4. ContentOf(ledger[call[c].comment].cmd) = ContentOf(call[c].cmd)
  BY <1>2, <1>3, SamePayloadSameContent
<1>5. k.content = ContentOf(env[c].e.cmd)
  BY DEF Writer, RunKey, EnvelopeKey
<1> QED
  BY <1>2, <1>4, <1>5 DEF Writer

LEMMA InvCompleted == EnvInv => CompletedRunIsInLedger
<1> SUFFICES ASSUME EnvInv, NEW k \in RunKeys, k.kind = "payload",
                    rows[k].outcome = "COMPLETED"
             PROVE  \E i \in DOMAIN ledger : ContentOf(ledger[i].cmd) = k.content
  BY DEF CompletedRunIsInLedger
<1>1. PICK c \in Calls : Writer(c, k)
  BY DEF EnvInv, RowKnows
<1> QED
  BY <1>1, WriterComment

(* A run that is COMPLETED has its content in the ledger, whichever attempt  *)
(* recorded it and whatever the other attempts were answered.                *)
THEOREM CompletedRunsAreInLedger == Spec => []CompletedRunIsInLedger
<1> QED
  BY EnvelopeInvariant, InvCompleted, PTL

(* Fresh runs of one content are told of by different comments: the writers  *)
(* are different calls, and different calls wrote different comments.        *)
LEMMA InvFresh == EnvInv => FreshIsCountedOnce
<1> SUFFICES ASSUME EnvInv, NEW content
             PROVE  Cardinality({k \in RunKeys : /\ k.kind = "payload" /\ k.content = content
                                                 /\ rows[k].fresh = 1})
                      <= Cardinality({i \in DOMAIN ledger :
                                         ContentOf(ledger[i].cmd) = content})
  BY DEF FreshIsCountedOnce
<1> DEFINE S == {k \in RunKeys : /\ k.kind = "payload" /\ k.content = content
                                 /\ rows[k].fresh = 1}
           T == {i \in DOMAIN ledger : ContentOf(ledger[i].cmd) = content}
           W(k) == CHOOSE c \in Calls : Writer(c, k)
           f == [k \in S |-> call[W(k)].comment]
<1>1. ASSUME NEW k \in S PROVE W(k) \in Calls /\ Writer(W(k), k)
  <2>1. \E c \in Calls : Writer(c, k)
    BY DEF EnvInv, RowKnows
  <2> QED
    BY <2>1
<1> HIDE DEF W
<1>2. ASSUME NEW k \in S PROVE call[W(k)].comment \in T
  BY <1>1, WriterComment
<1>3. ASSUME NEW j \in S, NEW k \in S, call[W(j)].comment = call[W(k)].comment
      PROVE  j = k
  <2>1. Wrote(W(j)) /\ Wrote(W(k))
    BY <1>1 DEF Writer, Wrote
  <2>2. W(j) = W(k)
    BY <1>1, <1>3, <2>1 DEF EnvInv, WritersDiffer
  <2> QED
    BY <1>1, <2>2 DEF Writer
<1>4. f \in Injection(S, T)
  <2> HIDE DEF S, T
  <2>1. f \in [S -> T]
    BY <1>2
  <2>2. \A j, k \in S : f[j] = f[k] => j = k
    BY <1>3
  <2> QED
    BY <2>1, <2>2 DEF Injection, IsInjective
<1>5. IsFiniteSet(T)
  <2>1. DOMAIN ledger = 1..Len(ledger) /\ Len(ledger) \in Nat
    BY DEF EnvInv, GatewayInv, GatewayTypes
  <2>2. IsFiniteSet(1..Len(ledger))
    BY <2>1, FS_Interval
  <2>3. T \subseteq 1..Len(ledger)
    BY <2>1
  <2> HIDE DEF T
  <2> QED
    BY <2>2, <2>3, FS_Subset
<1> HIDE DEF S, T, f
<1>6. Cardinality(S) <= Cardinality(T)
  BY <1>4, <1>5, FS_Injection
<1> QED
  BY <1>6 DEF S, T

(* No comment is counted as fresh twice, neither by two tasks that submit    *)
(* the same content nor by the retries of an envelope.                       *)
THEOREM FreshCountsAreComments == Spec => []FreshIsCountedOnce
<1> QED
  BY EnvelopeInvariant, InvFresh, PTL

(* A step changes only a row that is absent, or one that is UNKNOWN and then *)
(* keeps its run.                                                            *)
LEMMA RowsFinal ==
    ASSUME EnvInv, [Next]_vars, NEW k \in RunKeys
    PROVE  /\ rows[k].outcome \in Terminal => rows'[k] = rows[k]
           /\ rows[k].outcome # "ABSENT" => rows'[k].run = rows[k].run
<1>1. rows \in [RunKeys -> RowType] /\ "ABSENT" \notin Terminal /\ "UNKNOWN" \notin Terminal
  BY DEF EnvInv, RunTypes, Terminal, Outcomes
<1>2. CASE rows' = rows
  BY <1>2
<1>3. ASSUME NEW c \in Calls, NEW new, Run(c).outcome = "ABSENT",
             rows' = [rows EXCEPT ![RunKey(c)] = new]
      PROVE  /\ rows[k].outcome \in Terminal => rows'[k] = rows[k]
             /\ rows[k].outcome # "ABSENT" => rows'[k].run = rows[k].run
  BY <1>1, <1>3 DEF Run
<1>4. ASSUME NEW c \in Calls, rows' = Recorded(c)
      PROVE  /\ rows[k].outcome \in Terminal => rows'[k] = rows[k]
             /\ rows[k].outcome # "ABSENT" => rows'[k].run = rows[k].run
  <2>1. CASE /\ Run(c).outcome = "UNKNOWN" /\ RunKey(c) = k
             /\ rows' = [rows EXCEPT ![RunKey(c)].outcome = OutcomeOf(c),
                                     ![RunKey(c)].fresh = FreshOf(c)]
    <3>1. rows'[k].run = rows[k].run
      BY <1>1, <2>1 DEF RowType
    <3> QED
      BY <1>1, <2>1, <3>1 DEF Run
  <2>2. CASE /\ RunKey(c) # k
             /\ rows' = [rows EXCEPT ![RunKey(c)].outcome = OutcomeOf(c),
                                     ![RunKey(c)].fresh = FreshOf(c)]
    BY <1>1, <2>2
  <2> QED
    BY <1>2, <1>4, <2>1, <2>2 DEF Recorded
<1>5. ASSUME NEW c \in Calls, Reject(c) \/ Reserve(c)
      PROVE  /\ rows[k].outcome \in Terminal => rows'[k] = rows[k]
             /\ rows[k].outcome # "ABSENT" => rows'[k].run = rows[k].run
  BY <1>2, <1>3, <1>5 DEF Reject, Reserve
<1>6. ASSUME NEW c \in Calls, Record(c)
      PROVE  /\ rows[k].outcome \in Terminal => rows'[k] = rows[k]
             /\ rows[k].outcome # "ABSENT" => rows'[k].run = rows[k].run
  BY <1>2, <1>4, <1>6 DEF Record
<1>7. CASE UNCHANGED rows
  BY <1>2, <1>7
<1> QED
  BY <1>5, <1>6, <1>7 DEF Next, Receive, EnvelopeStep, Lookup, Adopt, Execute, Evict,
                          envelopeVars, vars

(* A run with a final outcome is never changed again, not even by an attempt *)
(* that was started before it was recorded, and a row keeps its run id.      *)
THEOREM OutcomesAreFinal == Spec => OutcomeIsFinal
<1>1. EnvInv /\ [Next]_vars =>
        [\A k \in RunKeys :
            /\ rows[k].outcome \in Terminal => rows'[k] = rows[k]
            /\ rows[k].outcome # "ABSENT" => rows'[k].run = rows[k].run]_vars
  BY RowsFinal
<1> QED
  BY <1>1, EnvelopeInvariant, PTL DEF Spec, OutcomeIsFinal
=============================================================================
