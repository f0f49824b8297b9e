--------------------------- MODULE IssueBookkeeping ---------------------------
(***************************************************************************)
(* Controlled GitHub issue bookkeeping (src/src/issue-bookkeeping.ts): a   *)
(* task submits an intent under a dedupe key; the Worker reserves the key  *)
(* in D1, makes one GitHub request and records its outcome in the row.     *)
(* Calls run concurrently and may end at any await.  A call is the winner  *)
(* of a key when the row it reads back carries its own timestamp.          *)
(***************************************************************************)
EXTENDS Integers, FiniteSets

CONSTANTS
    Keys,          \* dedupe keys
    Commands,      \* the valid intents tasks submit, see CommandType
    Whitelists,    \* configurations of the allowed targets, one per deployment
    Stamps,        \* timestamps, millisecond precision
    SharedStamps,  \* TRUE: two calls of one key may start in one millisecond
    Calls,         \* one submitIssueBookkeeping each
    None,          \* no row, command or stamp
    MaxFaults      \* bound on failed storage calls and evicted Workers

Operations == {"COMMENT", "CLOSE"}
CommandType == [key : Keys, operation : Operations, target : STRING]

ASSUME BookkeepingAssumption ==
    /\ Commands \subseteq CommandType
    /\ \A w \in Whitelists : w \subseteq [target : STRING, valid : BOOLEAN]
    /\ SharedStamps \in BOOLEAN
    /\ None \notin Commands /\ None \notin Stamps
    /\ MaxFaults \in Nat

VARIABLES
    row,        \* issue_bookkeeping: the row of each key
    requests,   \* GitHub: requests made under each key
    landed,     \* those that took effect
    call,       \* the calls, see CallType
    settled,    \* history: keys whose row was updated
    faults

vars == <<row, requests, landed, call, settled, faults>>

RowStatuses == {"PERSISTED", "DELIVERY_BLOCKED", "OUTCOME_UNKNOWN"}
RowType == [operation : Operations, target : STRING, status : RowStatuses, at : Stamps]
NoRow == [operation |-> "COMMENT", target |-> "", status |-> "OUTCOME_UNKNOWN", at |-> None]

PCs == {"idle", "lookup", "insert", "reread", "deliver", "settle", "done", "error"}
\* `outcome` is the status the call will record, or answered; `row` what it replays.
CallType == [pc : PCs, cmd : Commands \cup {None}, at : Stamps \cup {None},
             outcome : RowStatuses \cup {"none", "IDEMPOTENT_REPLAY", "REJECTED_TARGET"},
             row : RowType \cup {NoRow}]
NoCall == [pc |-> "idle", cmd |-> None, at |-> None, outcome |-> "none", row |-> NoRow]

----------------------------------------------------------------------------

Key(c) == call[c].cmd.key
Goto(c, pc) == call' = [call EXCEPT ![c].pc = pc]
Answer(c, status, r) == call' = [call EXCEPT ![c].pc = "done", ![c].outcome = status, ![c].row = r]

Fault == faults < MaxFaults /\ faults' = faults + 1
NoFault == faults' = faults

\* parseTargets: one invalid entry makes the whole whitelist unusable, as if absent.
Targets(w) == IF \A e \in w : e.valid THEN {e.target : e \in w} ELSE {}

\* The answer to a target that is not listed.  Nothing is stored.
Rejected(cmd, t) ==
    [NoCall EXCEPT !.pc = "done", !.cmd = cmd, !.at = t, !.outcome = "REJECTED_TARGET"]

\* A call in a deployment with whitelist w; calls of different deployments overlap.
Start(c, cmd, t) ==
    /\ call[c].pc = "idle"
    /\ SharedStamps \/ \A d \in Calls : call[d].at = t => Key(d) # cmd.key
    /\ \E w \in Whitelists :
          call' = [call EXCEPT ![c] =
                     IF cmd.target \in Targets(w)
                     THEN [NoCall EXCEPT !.pc = "lookup", !.cmd = cmd, !.at = t]
                     ELSE Rejected(cmd, t)]
    /\ UNCHANGED <<row, requests, landed, settled, faults>>

Lookup(c) ==
    /\ call[c].pc = "lookup"
    /\ LET r == row[Key(c)] IN
       IF r # NoRow THEN Answer(c, "IDEMPOTENT_REPLAY", r) ELSE Goto(c, "insert")
    /\ UNCHANGED <<row, requests, landed, settled, faults>>

\* INSERT ... ON CONFLICT(dedupe_key) DO NOTHING; it may fail although it inserted.
Insert(c) ==
    LET cmd == call[c].cmd IN
    /\ call[c].pc = "insert"
    /\ row' = IF row[Key(c)] # NoRow THEN row
              ELSE [row EXCEPT ![Key(c)] =
                      [operation |-> cmd.operation, target |-> cmd.target,
                       status |-> "OUTCOME_UNKNOWN", at |-> call[c].at]]
    /\ \/ NoFault /\ Goto(c, "reread")
       \/ Fault /\ Goto(c, "error")
    /\ UNCHANGED <<requests, landed, settled>>

\* Mutant: whoever finds the row unsettled delivers.
RereadByStatus(c) ==
    /\ call[c].pc = "reread"
    /\ LET r == row[Key(c)] IN
       IF r.status # "OUTCOME_UNKNOWN" THEN Answer(c, "IDEMPOTENT_REPLAY", r)
       ELSE Goto(c, "deliver")
    /\ UNCHANGED <<row, requests, landed, settled, faults>>

\* The row is read back: another call's timestamp makes this one the loser.  A
\* winner without a token goes straight to recording that.
Reread(c) ==
    /\ call[c].pc = "reread"
    /\ LET r == row[Key(c)] IN
       IF r.at # call[c].at THEN Answer(c, "IDEMPOTENT_REPLAY", r)
       ELSE \/ Goto(c, "deliver")
            \/ call' = [call EXCEPT ![c].pc = "settle", ![c].outcome = "DELIVERY_BLOCKED"]
    /\ UNCHANGED <<row, requests, landed, settled, faults>>

Landed(c) == landed' = [landed EXCEPT ![Key(c)] = @ + 1]

Responded(c, outcome) == call' = [call EXCEPT ![c].pc = "settle", ![c].outcome = outcome]

\* Mutant: every response that is not ok is a refusal.
DeliverRefused(c) ==
    /\ call[c].pc = "deliver"
    /\ requests' = [requests EXCEPT ![Key(c)] = @ + 1]
    /\ \/ Landed(c) /\ Responded(c, "PERSISTED")
       \/ landed' = landed /\ Responded(c, "DELIVERY_BLOCKED")
       \/ Landed(c) /\ Responded(c, "DELIVERY_BLOCKED")
    /\ UNCHANGED <<row, settled, faults>>

\* One POST or PATCH.  A 2xx response landed, another 4xx did not; after a
\* transport failure, 429 or 5xx it may or may not have.
Deliver(c) ==
    /\ call[c].pc = "deliver"
    /\ requests' = [requests EXCEPT ![Key(c)] = @ + 1]
    /\ \/ Landed(c) /\ Responded(c, "PERSISTED")
       \/ landed' = landed /\ Responded(c, "DELIVERY_BLOCKED")
       \/ /\ Landed(c) \/ landed' = landed
          /\ Responded(c, "OUTCOME_UNKNOWN")
    /\ UNCHANGED <<row, settled, faults>>

\* updateRow, by key alone; it may fail although it updated.
Settle(c) ==
    LET k == Key(c) IN
    /\ call[c].pc = "settle"
    /\ row' = [row EXCEPT ![k].status = call[c].outcome, ![k].at = call[c].at]
    /\ settled' = settled \cup {k}
    /\ \/ NoFault /\ Answer(c, call[c].outcome, NoRow)
       \/ Fault /\ Goto(c, "error")
    /\ UNCHANGED <<requests, landed>>

\* The Worker is evicted, or a storage call throws without effect.
Die(c) ==
    /\ call[c].pc \notin {"idle", "done", "error"}
    /\ Fault
    /\ Goto(c, "error")
    /\ UNCHANGED <<row, requests, landed, settled>>

\* It is evicted while the request to GitHub is on its way.
DieDelivering(c) ==
    /\ call[c].pc = "deliver"
    /\ Fault
    /\ requests' = [requests EXCEPT ![Key(c)] = @ + 1]
    /\ Landed(c) \/ landed' = landed
    /\ Goto(c, "error")
    /\ UNCHANGED <<row, settled>>

----------------------------------------------------------------------------

Init ==
    /\ row = [k \in Keys |-> NoRow]
    /\ requests = [k \in Keys |-> 0]
    /\ landed = [k \in Keys |-> 0]
    /\ call = [c \in Calls |-> NoCall]
    /\ settled = {}
    /\ faults = 0

Next == \E c \in Calls :
            \/ \E cmd \in Commands, t \in Stamps : Start(c, cmd, t)
            \/ Lookup(c) \/ Insert(c) \/ Reread(c) \/ Deliver(c) \/ Settle(c)
            \/ Die(c) \/ DieDelivering(c)

Spec == Init /\ [][Next]_vars

----------------------------------------------------------------------------
(* Properties *)

\* Rows, counters and calls keep their shape.
TypeOK ==
    /\ row \in [Keys -> RowType \cup {NoRow}]
    /\ requests \in [Keys -> Nat]
    /\ landed \in [Keys -> Nat]
    /\ call \in [Calls -> CallType]
    /\ settled \subseteq Keys
    /\ faults \in Nat

Promise == INSTANCE OneDelivery WITH
    stage <- [k \in Keys |-> IF row[k] = NoRow THEN "free" ELSE row[k].status],
    sent <- requests

\* Bookkeeping implements the promise of one delivery per key: of calls that
\* insert, lose the race, crash before or after the request, or fail to record
\* its outcome, none makes a second request and none rewrites an outcome.
DeliversOnce == Promise!Spec

\* What a row says happened on GitHub, did: PERSISTED is exactly one effect,
\* DELIVERY_BLOCKED is none, so a task that reads BLOCKED may act otherwise.
RowIsTrueOfGitHub ==
    \A k \in Keys :
        /\ row[k] = NoRow => landed[k] = 0
        /\ row[k].status = "PERSISTED" => landed[k] = 1
        /\ row[k].status = "DELIVERY_BLOCKED" => landed[k] = 0

\* What the caller of c knows of its key.
Told(c) == IF call[c].outcome = "IDEMPOTENT_REPLAY" THEN call[c].row.status ELSE call[c].outcome

\* Answers under one key do not contradict each other: after one call was told
\* PERSISTED or DELIVERY_BLOCKED, none is told the opposite, first-hand or by replay.
AnswersAgree ==
    \A c, d \in Calls :
        /\ call[c].pc = "done" /\ call[d].pc = "done" /\ Key(c) = Key(d)
        /\ Told(c) = "PERSISTED"
        => Told(d) # "DELIVERY_BLOCKED"

=============================================================================
