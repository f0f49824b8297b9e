----------------------------- MODULE StateGateway ----------------------------
(***************************************************************************)
(* appendStateBatch and the two owned commands in front of it: a call      *)
(* reserves the D1 receipt of its write key with a lease, appends to the   *)
(* GitHub ledger, reads the comment back and finalizes the receipt.  Every *)
(* await of the code is a step of its own, so calls interleave between any *)
(* two D1 statements or GitHub requests.  A request to D1 or GitHub may    *)
(* fail before or after it took effect, and a call may die at any await;   *)
(* MaxFaults bounds how often.  Time is a counter up to MaxTime, LeaseTTL  *)
(* stands for the 120 seconds of the lease.                                *)
(***************************************************************************)
EXTENDS StateLedger

(* What an owned command may say in each channel: the R state it proposes or *)
(* sets, or a market reading that confirms or does not.                      *)
OwnedBodies ==
    [INDUSTRY |-> {"none", "R0", "R1"}, COMPANY |-> {"none", "R2"},
     CLOSE |-> {"none", "R0", "R1", "R2", "R3", "R4"},
     MARKET |-> {"plain", "confirmed"}]

(* The ledger as it was when it had n comments. *)
Prefix(ledger, n) == SubSeq(ledger, 1, n)

(* What a CLOSE comment and a checkpoint rest on existed before them. *)
ClosesAreSupported(ledger) ==
    \A i \in DOMAIN ledger : ledger[i].cmd.channel = "CLOSE" =>
        /\ \E n \in 0..(i - 1) : ThesisSupports(Prefix(ledger, n), ledger[i].cmd.body)
        /\ NeedsMarket(ledger[i].cmd.body) =>
              \E n \in 0..(i - 1) : MarketSupports(Prefix(ledger, n), ledger[i].cmd)

IsReadingOf(comment, ledger) ==
    /\ comment.prev = PreviousCheckpoint(ledger, comment.cmd)
    /\ comment.preopen = ExpectedPreopen(ledger, comment.cmd)
    /\ comment.base = TransitionBase(ledger, comment.cmd)
    /\ TransitionIsValid(ledger, comment.cmd)

CheckpointsAreReadings(ledger) ==
    \A i \in Checkpoints(ledger) : \E n \in 0..(i - 1) :
        IsReadingOf(ledger[i], Prefix(ledger, n))

CONSTANTS
    Calls,       \* one element per call (its request id)
    NoCall,      \* a lease column that is NULL
    Commands,    \* the commands callers submit
    Histories,   \* the ledgers that may exist before the first call
    LeaseTTL, MaxTime, MaxFaults

ASSUME GatewayAssumption ==
    /\ NoCall \notin Calls /\ IsFiniteSet(Calls)
    /\ LeaseTTL \in Nat \ {0}
    /\ MaxTime \in Nat
    /\ MaxFaults \in Nat
    /\ Commands \subseteq CommandType
    /\ \A cmd \in Commands :
          cmd.id = "CMD" => cmd.body \in OwnedBodies[cmd.channel]

(* Earlier ledgers were written by this code: links point back to comments,  *)
(* a key was written once, and what a CLOSE or a checkpoint rests on was     *)
(* there when it was written (the predicates of the last two properties).    *)
ASSUME HistoriesAreLinked ==
    \A h \in Histories :
        /\ h \in Seq(CommentType)
        /\ \A i \in DOMAIN h : h[i].prev < i /\ h[i].preopen < i
ASSUME HistoriesWroteOnce ==
    \A h \in Histories : \A i, j \in DOMAIN h :
        i # j => Identity(h[i].cmd) # Identity(h[j].cmd)
ASSUME HistoriesAreSupported ==
    \A h \in Histories : ClosesAreSupported(h) /\ CheckpointsAreReadings(h)

VARIABLES
    receipts,    \* state_write_receipts_v1, by write key
    ledger,      \* the GitHub comments
    call,        \* the calls in flight and their answers
    clock,
    faults,      \* failed requests and dead calls so far
    takenOver    \* history: write keys whose lease lapsed and was taken over

gatewayVars == <<receipts, ledger, call, clock, faults, takenOver>>

Keys == {Identity(cmd) : cmd \in Commands}

Settled == {"PERSISTED", "IDEMPOTENT_REPLAY"}

NoPayload == [cmd |-> NoCommand, prev |-> NoComment, preopen |-> NoComment]

NoReceipt == [status |-> "ABSENT", sha |-> NoPayload, owner |-> NoCall,
              until |-> 0, attempts |-> 0, comment |-> NoComment]

Idle == [pc |-> "idle", cmd |-> NoCommand, now |-> 0, prev |-> NoComment,
         preopen |-> NoComment, base |-> 0, comment |-> NoComment,
         result |-> "none", answer |-> "none"]

(***************************************************************************)
(* payload_sha256: of the events only for an owned investment command,     *)
(* otherwise of the whole batch.  The hash is modelled by its argument.    *)
(***************************************************************************)
Payload(c) ==
    LET cmd == call[c].cmd
    IN  IF cmd.channel # "MARKET" /\ cmd.id = "CMD"
          THEN [cmd |-> Identity(cmd), prev |-> NoComment, preopen |-> NoComment]
          ELSE [cmd |-> cmd, prev |-> call[c].prev, preopen |-> call[c].preopen]

KeyOf(c) == Identity(call[c].cmd)
Row(c) == receipts[KeyOf(c)]

(* The comment the call would write, or finds already written. *)
Batch(c) ==
    [cmd |-> call[c].cmd, prev |-> call[c].prev, preopen |-> call[c].preopen,
     base |-> call[c].base]

GatewayInit ==
    /\ receipts = [k \in Keys |-> NoReceipt]
    /\ ledger \in Histories
    /\ call = [c \in Calls |-> Idle]
    /\ clock = 0
    /\ faults = 0
    /\ takenOver = {}

------------------------------------------------------------------------------
(* The ways a call goes on: to another await, or to its answer. *)

Goto(c, next) == call' = [call EXCEPT ![c].pc = next]

Answer(c, answer) ==
    call' = [call EXCEPT ![c].pc = "done", ![c].answer = answer]

(* An answer that names the comment of a receipt. *)
AnswerReplay(c, row) ==
    call' = [call EXCEPT ![c].pc = "done", ![c].answer = "IDEMPOTENT_REPLAY",
                         ![c].comment = row.comment]

(* An error inside the try of appendStateBatch: the receipt is finalized *)
(* first, then the error is thrown.                                      *)
Raise(c, error) ==
    call' = [call EXCEPT ![c].pc = "fail", ![c].result = error]

(* A GitHub request that fails is answered STATE_OUTCOME_UNKNOWN; the error  *)
(* is not retryable, here STATE_DENIED, if GitHub refused the credential.    *)
LedgerErrors == {"STATE_OUTCOME_UNKNOWN", "STATE_DENIED"}

Fault == faults < MaxFaults /\ faults' = faults + 1
NoFault == UNCHANGED faults

------------------------------------------------------------------------------
(* fetchAllComments: a page that cannot be read ends the call. *)
ReadFails(c) == Fault /\ \E error \in LedgerErrors : Raise(c, error)

(* The comment ids a caller can have read for a day. *)
DayLinks(date) ==
    {NoComment} \cup {i \in Checkpoints(ledger) : ledger[i].cmd.date = date}

(***************************************************************************)
(* A call arrives.  An owned MARKET command first derives its links from   *)
(* the ledger; a caller of the exact-schema entry supplies its own, from   *)
(* the checkpoints of the day it has read.  CLOSE checks its upstream      *)
(* dependencies.  now is read once, on entry to appendStateBatch.          *)
(***************************************************************************)
Submit(c, cmd) ==
    /\ call[c].pc = "idle"
    /\ \/ /\ cmd.channel # "MARKET" \/ cmd.id = "CMD"
          /\ call' = [call EXCEPT ![c].cmd = cmd, ![c].now = clock,
                 ![c].pc = CASE cmd.channel = "MARKET" -> "build"
                             [] cmd.channel = "CLOSE" -> "closeThesis"
                             [] OTHER -> "insert"]
       \/ /\ cmd.channel = "MARKET" /\ cmd.id # "CMD"
          /\ \E prev, preopen \in DayLinks(cmd.date) :
                /\ cmd.slot = 1 => prev = NoComment /\ preopen = NoComment
                /\ call' = [call EXCEPT ![c].cmd = cmd, ![c].now = clock,
                       ![c].prev = prev, ![c].preopen = preopen,
                       ![c].pc = "insert"]
    /\ UNCHANGED <<receipts, ledger, clock, faults, takenOver>>

(* buildMarketObservationBatch: its errors are not mapped. *)
BuildMarket(c) ==
    /\ call[c].pc = "build"
    /\ \/ /\ NoFault
          /\ IF HasDuplicates(ledger)
               THEN Answer(c, "STATE_CONFLICT")
               ELSE call' = [call EXCEPT ![c].pc = "insert", ![c].now = clock,
                        ![c].prev = PreviousCheckpoint(ledger, call[c].cmd),
                        ![c].preopen = ExpectedPreopen(ledger, call[c].cmd)]
       \/ Fault /\ Answer(c, "ERROR")
    /\ UNCHANGED <<receipts, ledger, clock, takenOver>>

(* Mutant: some earlier event supports CLOSE, not the latest one. *)
CheckThesisOnHistory(c) ==
    /\ call[c].pc = "closeThesis"
    /\ LET body == call[c].cmd.body
           Has(channel, b) == \E i \in ChannelPositions(ledger, channel) :
                                  ledger[i].cmd.body = b
       IN  IF /\ NeedsIndustry(body) => Has("INDUSTRY", "R1")
              /\ NeedsCompany(body) => Has("COMPANY", "R2")
             THEN Goto(c, IF NeedsMarket(body) THEN "closeMarket" ELSE "insert")
             ELSE Answer(c, "STATE_CHAIN_MISMATCH")
    /\ UNCHANGED <<receipts, ledger, clock, faults, takenOver>>

(* validateCloseDependencies, its INDUSTRY or COMPANY read. *)
CheckThesis(c) ==
    /\ call[c].pc = "closeThesis"
    /\ \/ /\ NoFault
          /\ IF ThesisSupports(ledger, call[c].cmd.body)
               THEN Goto(c, IF NeedsMarket(call[c].cmd.body) THEN "closeMarket"
                                                             ELSE "insert")
               ELSE Answer(c, "STATE_CHAIN_MISMATCH")
       \/ Fault /\ \E error \in LedgerErrors : Answer(c, error)
    /\ UNCHANGED <<receipts, ledger, clock, takenOver>>

(* validateCloseDependencies, its MARKET read. *)
CheckMarket(c) ==
    /\ call[c].pc = "closeMarket"
    /\ \/ /\ NoFault
          /\ IF MarketSupports(ledger, call[c].cmd)
               THEN Goto(c, "insert")
               ELSE Answer(c, "STATE_CHAIN_MISMATCH")
       \/ Fault /\ \E error \in LedgerErrors : Answer(c, error)
    /\ UNCHANGED <<receipts, ledger, clock, takenOver>>

------------------------------------------------------------------------------
(* reserveStateWrite: insert, inspect, take the lease, look who has it.    *)
(* It runs outside the try, so a D1 error leaves the receipt as it is.     *)

Insert(c) ==
    /\ call[c].pc = "insert"
    /\ \/ /\ NoFault \/ Fault
          /\ receipts' = IF Row(c).status # "ABSENT" THEN receipts
                         ELSE [receipts EXCEPT ![KeyOf(c)].status = "PENDING",
                                               ![KeyOf(c)].sha = Payload(c)]
          /\ IF faults' = faults THEN Goto(c, "inspect")
                                 ELSE Answer(c, "ERROR")
       \/ Fault /\ Answer(c, "ERROR") /\ UNCHANGED receipts
    /\ UNCHANGED <<ledger, clock, takenOver>>

(* Mutant: a settled receipt is replayed before its payload is compared. *)
InspectStatusFirst(c) ==
    /\ call[c].pc = "inspect"
    /\ IF Row(c).status \in Settled THEN AnswerReplay(c, Row(c))
       ELSE IF Row(c).sha # Payload(c) THEN Answer(c, "STATE_CONFLICT")
       ELSE Goto(c, "acquire")
    /\ UNCHANGED <<receipts, ledger, clock, faults, takenOver>>

Inspect(c) ==
    /\ call[c].pc = "inspect"
    /\ \/ /\ NoFault
          /\ IF Row(c).sha # Payload(c) THEN Answer(c, "STATE_CONFLICT")
             ELSE IF Row(c).status \in Settled THEN AnswerReplay(c, Row(c))
             ELSE Goto(c, "acquire")
       \/ Fault /\ Answer(c, "ERROR")
    /\ UNCHANGED <<receipts, ledger, clock, takenOver>>

LeaseIsFree(row, c, now) ==
    row.owner \in {NoCall, c} \/ row.until < now

(* Mutant: the status inspected before is trusted at the update. *)
MayAcquireInspected(c) ==
    Row(c).sha = Payload(c) /\ LeaseIsFree(Row(c), c, call[c].now)

MayAcquire(c) ==
    /\ Row(c).sha = Payload(c)
    /\ Row(c).status \notin Settled \cup {"CONFLICT"}
    /\ LeaseIsFree(Row(c), c, call[c].now)

Lease(c) ==
    [Row(c) EXCEPT !.status = "PENDING", !.attempts = @ + 1, !.owner = c,
                   !.until = call[c].now + LeaseTTL]

Acquire(c) ==
    /\ call[c].pc = "acquire"
    /\ \/ /\ NoFault \/ Fault
          /\ IF MayAcquire(c)
               THEN /\ receipts' = [receipts EXCEPT ![KeyOf(c)] = Lease(c)]
                    /\ takenOver' = IF Row(c).owner \in {NoCall, c}
                                      THEN takenOver
                                      ELSE takenOver \cup {KeyOf(c)}
               ELSE UNCHANGED <<receipts, takenOver>>
          /\ IF faults' = faults THEN Goto(c, "confirm")
                                 ELSE Answer(c, "ERROR")
       \/ Fault /\ Answer(c, "ERROR") /\ UNCHANGED <<receipts, takenOver>>
    /\ UNCHANGED <<ledger, clock>>

(* Mutant: whoever finds the receipt unsettled goes on. *)
ConfirmUnsettled(c) ==
    /\ call[c].pc = "confirm"
    /\ IF Row(c).status \in Settled THEN AnswerReplay(c, Row(c))
                                    ELSE Goto(c, "read")
    /\ UNCHANGED <<receipts, ledger, clock, faults, takenOver>>

Confirm(c) ==
    /\ call[c].pc = "confirm"
    /\ \/ /\ NoFault
          /\ CASE Row(c).status = "CONFLICT" -> Answer(c, "STATE_CONFLICT")
               [] Row(c).status # "CONFLICT" /\ Row(c).owner = c -> Goto(c, "read")
               [] Row(c).owner # c /\ Row(c).status \in Settled ->
                     AnswerReplay(c, Row(c))
               [] OTHER -> Answer(c, "STATE_UNAVAILABLE")
       \/ Fault /\ Answer(c, "ERROR")
    /\ UNCHANGED <<receipts, ledger, clock, takenOver>>

------------------------------------------------------------------------------
(* appendInvestmentLedgerBatch and appendMarketCheckpoint *)

(* The call found its batch in comment i already. *)
FoundAt(c, i) ==
    call' = [call EXCEPT ![c].pc = "settle", ![c].result = "IDEMPOTENT_REPLAY",
                         ![c].comment = i]

ReadInvestment(c) ==
    /\ call[c].pc = "read" /\ call[c].cmd.channel # "MARKET"
    /\ \/ /\ NoFault
          /\ LET same == Positions(ledger, call[c].cmd)
             IN  IF same = {} THEN Goto(c, "post")
                 ELSE \/ \E i \in same :
                            /\ same = {i} /\ ledger[i] = Batch(c)
                            /\ FoundAt(c, i)
                      \/ /\ ~ \E i \in same : same = {i} /\ ledger[i] = Batch(c)
                         /\ Raise(c, "STATE_CONFLICT")
       \/ ReadFails(c)
    /\ UNCHANGED <<receipts, ledger, clock, takenOver>>

(* Mutant: the links derived when the batch was built are not compared. *)
ReadMarketTrustLinks(c) ==
    /\ call[c].pc = "read" /\ call[c].cmd.channel = "MARKET"
    /\ LET cmd == call[c].cmd IN
          IF CurrentSlot(ledger, cmd.date, cmd.slot) # NoComment
            THEN Raise(c, "STATE_CONFLICT")
            ELSE call' = [call EXCEPT ![c].pc = "post",
                                      ![c].base = TransitionBase(ledger, cmd)]
    /\ UNCHANGED <<receipts, ledger, clock, faults, takenOver>>

ReadMarket(c) ==
    /\ call[c].pc = "read" /\ call[c].cmd.channel = "MARKET"
    /\ LET cmd == call[c].cmd
           batch == [Batch(c) EXCEPT !.base = TransitionBase(ledger, cmd)]
           current == CurrentSlot(ledger, cmd.date, cmd.slot)
       IN  \/ /\ NoFault
              /\ CASE HasDuplicates(ledger) -> Raise(c, "STATE_CONFLICT")
                   [] ~HasDuplicates(ledger) /\ ~TransitionIsValid(ledger, cmd) ->
                         Raise(c, "STATE_VALIDATION_FAILED")
                   [] OTHER ->
                        IF current # NoComment
                          THEN IF ledger[current] = batch
                                 THEN FoundAt(c, current)
                                 ELSE Raise(c, "STATE_CONFLICT")
                          ELSE IF /\ batch.prev = PreviousCheckpoint(ledger, cmd)
                                  /\ batch.preopen = ExpectedPreopen(ledger, cmd)
                                 THEN call' = [call EXCEPT ![c].pc = "post",
                                                  ![c].base = batch.base]
                                 ELSE Raise(c, "STATE_CHAIN_MISMATCH")
           \/ ReadFails(c)
    /\ UNCHANGED <<receipts, ledger, clock, takenOver>>

(* The POST is never retried.  It may land although its answer is lost. *)
Post(c) ==
    /\ call[c].pc = "post"
    /\ \/ /\ NoFault
          /\ ledger' = Append(ledger, Batch(c))
          /\ call' = [call EXCEPT ![c].pc = "readback",
                                  ![c].comment = Len(ledger) + 1]
       \/ /\ Fault
          /\ \/ /\ UNCHANGED ledger
                /\ \E error \in LedgerErrors : Raise(c, error)
             \/ /\ ledger' = Append(ledger, Batch(c))
                /\ Raise(c, "STATE_OUTCOME_UNKNOWN")
    /\ UNCHANGED <<receipts, clock, takenOver>>

Readback(c) ==
    /\ call[c].pc = "readback"
    /\ \/ /\ NoFault
          /\ call' = [call EXCEPT ![c].pc = "settle", ![c].result = "PERSISTED"]
       \/ Fault /\ Raise(c, "STATE_READBACK_FAILED")
    /\ UNCHANGED <<receipts, ledger, clock, takenOver>>

------------------------------------------------------------------------------
(* finalizeStateWriteReceipt: nothing happens once the lease is lost. *)

(* Mutant: the lease guard is dropped. *)
FinalizedByAnyone(c, status, comment) ==
    [receipts EXCEPT ![KeyOf(c)].status = status,
                     ![KeyOf(c)].comment = comment,
                     ![KeyOf(c)].owner = NoCall,
                     ![KeyOf(c)].until = 0]

Finalized(c, status, comment) ==
    IF Row(c).owner = c
      THEN [receipts EXCEPT ![KeyOf(c)].status = status,
                            ![KeyOf(c)].comment = comment,
                            ![KeyOf(c)].owner = NoCall,
                            ![KeyOf(c)].until = 0]
      ELSE receipts

(* A D1 failure here lands in the catch as STATE_UNAVAILABLE. *)
Settle(c) ==
    /\ call[c].pc = "settle"
    /\ \/ /\ NoFault
          /\ receipts' = Finalized(c, call[c].result, call[c].comment)
          /\ Answer(c, call[c].result)
       \/ /\ Fault
          /\ receipts' \in {receipts,
                            Finalized(c, call[c].result, call[c].comment)}
          /\ Raise(c, "STATE_UNAVAILABLE")
    /\ UNCHANGED <<ledger, clock, takenOver>>

(* Mutants: a failed readback counts as written; a failure as a conflict. *)
FailureStatusOptimistic(error) ==
    CASE error = "STATE_CONFLICT" -> "CONFLICT"
      [] error = "STATE_READBACK_FAILED" -> "PERSISTED"
      [] error \in LedgerErrors -> "OUTCOME_UNKNOWN"
      [] OTHER -> "FAILED"

FailureStatusClosed(error) ==
    IF error = "STATE_UNAVAILABLE" THEN "FAILED" ELSE "CONFLICT"

FailureStatus(error) ==
    CASE error = "STATE_CONFLICT" -> "CONFLICT"
      [] error \in LedgerErrors \cup {"STATE_READBACK_FAILED"} ->
            "OUTCOME_UNKNOWN"
      [] OTHER -> "FAILED"

Fail(c) ==
    LET finalized == Finalized(c, FailureStatus(call[c].result), NoComment)
    IN  /\ call[c].pc = "fail"
        /\ \/ /\ NoFault
              /\ receipts' = finalized
              /\ Answer(c, call[c].result)
           \/ /\ Fault
              /\ receipts' \in {receipts, finalized}
              /\ Answer(c, "ERROR")
        /\ UNCHANGED <<ledger, clock, takenOver>>

------------------------------------------------------------------------------
(* The worker that runs a call is evicted. *)
Die(c) ==
    /\ call[c].pc \notin {"idle", "done", "dead"}
    /\ Fault
    /\ Goto(c, "dead")
    /\ UNCHANGED <<receipts, ledger, clock, takenOver>>

Tick ==
    /\ clock < MaxTime
    /\ clock' = clock + 1
    /\ UNCHANGED <<receipts, ledger, call, faults, takenOver>>

CallStep(c) ==
    \/ BuildMarket(c) \/ CheckThesis(c) \/ CheckMarket(c)
    \/ Insert(c) \/ Inspect(c) \/ Acquire(c) \/ Confirm(c)
    \/ ReadInvestment(c) \/ ReadMarket(c) \/ Post(c) \/ Readback(c)
    \/ Settle(c) \/ Fail(c) \/ Die(c)

GatewayNext ==
    \/ \E c \in Calls : CallStep(c) \/ \E cmd \in Commands : Submit(c, cmd)
    \/ Tick

GatewaySpec == GatewayInit /\ [][GatewayNext]_gatewayVars
------------------------------------------------------------------------------
(* Properties *)

(* The hashed payload of a comment, as Payload computes it for a call. *)
PayloadOf(comment) ==
    IF comment.cmd.channel # "MARKET" /\ comment.cmd.id = "CMD"
      THEN [cmd |-> Identity(comment.cmd), prev |-> NoComment,
            preopen |-> NoComment]
      ELSE [cmd |-> comment.cmd, prev |-> comment.prev,
            preopen |-> comment.preopen]

Stages == {"idle", "build", "closeThesis", "closeMarket", "insert", "inspect",
           "acquire", "confirm", "read", "post", "readback", "settle", "fail",
           "done", "dead"}

Errors == {"STATE_CONFLICT", "STATE_CHAIN_MISMATCH", "STATE_VALIDATION_FAILED",
           "STATE_UNAVAILABLE", "STATE_READBACK_FAILED"} \cup LedgerErrors

(* Every variable keeps its type: a receipt is held by a call or by nobody, *)
(* links and comment ids point into the ledger, and a call has an answer    *)
(* exactly when it is done.                                                 *)
GatewayTypeOK ==
    /\ clock \in 0..MaxTime /\ faults \in 0..MaxFaults
    /\ takenOver \subseteq Keys
    /\ DOMAIN receipts = Keys /\ DOMAIN call = Calls
    /\ \A k \in Keys :
          /\ receipts[k].status \in {"ABSENT", "PENDING", "OUTCOME_UNKNOWN",
                                     "CONFLICT", "FAILED"} \cup Settled
          /\ receipts[k].owner \in Calls \cup {NoCall}
          /\ receipts[k].until \in 0..(MaxTime + LeaseTTL)
          /\ receipts[k].attempts \in 0..Cardinality(Calls)
          /\ receipts[k].comment \in 0..Len(ledger)
    /\ \A i \in DOMAIN ledger :
          /\ ledger[i].prev \in 0..(i - 1) /\ ledger[i].preopen \in 0..(i - 1)
    /\ \A c \in Calls :
          /\ call[c].pc \in Stages
          /\ call[c].now \in 0..clock
          /\ call[c].comment \in 0..Len(ledger)
          /\ call[c].answer \in {"none", "ERROR"} \cup Settled \cup Errors
          /\ (call[c].pc = "done") <=> (call[c].answer # "none")

(* A receipt that says PERSISTED or IDEMPOTENT_REPLAY names a comment of the *)
(* ledger that carries the hashed payload of the receipt, whichever calls    *)
(* raced, died or lost their lease before (reserve and finalize).            *)
ReceiptNamesItsComment ==
    \A k \in Keys : receipts[k].status \in Settled =>
        /\ receipts[k].comment \in DOMAIN ledger
        /\ PayloadOf(ledger[receipts[k].comment]) = receipts[k].sha

(* persisted: true is only answered with the id of a comment that carries    *)
(* what this very call submitted: a call that replays, or that won a race,   *)
(* never gets the comment of a different payload under the same key.         *)
AnswerNamesItsComment ==
    \A c \in Calls : call[c].answer \in Settled =>
        /\ call[c].comment \in DOMAIN ledger
        /\ PayloadOf(ledger[call[c].comment]) = Payload(c)

(* Two calls write the same key twice only if one of them took over the      *)
(* lapsed lease of another that was still running: lost answers, retries,    *)
(* dead calls and D1 failures alone never duplicate a comment.               *)
SecondCommentNeedsTakeover ==
    \A i, j \in DOMAIN ledger :
        (i # j /\ Identity(ledger[i].cmd) = Identity(ledger[j].cmd)) =>
            Identity(ledger[i].cmd) \in takenOver

(* STATE_CONFLICT is only answered when the key is really in use otherwise:  *)
(* by another payload in the receipt, by a comment in the ledger, or (MARKET)*)
(* by duplicates in the ledger; an outage never turns a key into a conflict. *)
ConflictHasCause ==
    \A c \in Calls : call[c].answer = "STATE_CONFLICT" =>
        \/ call[c].pc = "done" /\ Row(c).status # "ABSENT" /\ Row(c).sha # Payload(c)
        \/ Positions(ledger, call[c].cmd) # {}
        \/ HasDuplicates(ledger)

(* A CLOSE comment is in the ledger only if the INDUSTRY, COMPANY and MARKET *)
(* comments it depends on were there, and were the latest, at some moment    *)
(* before it was written (validateCloseDependencies).                        *)
CloseIsSupported == ClosesAreSupported(ledger)

(* The links and the universe transition of a checkpoint were all derived    *)
(* from one state of the ledger that existed before it was written.          *)
CheckpointLinksAreOneReading == CheckpointsAreReadings(ledger)

(* docs/specs/2026-09-29-envelope-spec.md, 2.2: while the receipt row exists, *)
(* submitting the same events with a new timestamp replays the first write.   *)
(* So an owned command whose events are in the ledger never conflicts.        *)
RestampedRetryReplays ==
    \A c \in Calls :
        (/\ call[c].answer = "STATE_CONFLICT"
         /\ call[c].cmd.channel # "MARKET" /\ call[c].cmd.id = "CMD") =>
            Positions(ledger, call[c].cmd) = {}

(* A receipt that was settled or found in conflict never changes again: no   *)
(* late call with a lapsed lease, and no retry, reopens or overwrites it.    *)
SettledReceiptIsFinal ==
    [][\A k \in Keys : receipts[k].status \in Settled \cup {"CONFLICT"} =>
            receipts'[k] = receipts[k]]_gatewayVars

(* A lease ends by its holder's own finalize, or after its time is over: no  *)
(* other call takes or releases a receipt that is still held.                *)
LeaseEndsByHolderOrTime ==
    [][\A k \in Keys : \A c \in Calls :
            (receipts[k].owner = c /\ receipts'[k].owner # c) =>
                \/ call[c].pc \in {"settle", "fail"} /\ call'[c] # call[c]
                \/ receipts[k].until < clock]_gatewayVars
==============================================================================
