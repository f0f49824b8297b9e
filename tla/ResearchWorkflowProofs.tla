----------------------- MODULE ResearchWorkflowProofs -----------------------
(***************************************************************************)
(* Proofs about ResearchWorkflow, for every set of jobs, owners, keys,     *)
(* payloads, calls and requests, every TTL and any number of faults.       *)
(*                                                                         *)
(* The invariant has two halves.  Control says what a request's position   *)
(* implies about its own locals.  Tables relates the rows of the tables to *)
(* each other and to the requests that wrote them; only the steps that run *)
(* a batch can disturb it, and each of them is fenced by its own SQL.      *)
(***************************************************************************)
EXTENDS ResearchWorkflow, FiniteSetTheorems, TLAPS

ClaimPCs == {"c_terminal", "c_denied", "c_deferral", "c_batch", "c_confirm",
             "c_terminal2", "c_deferral2", "c_current"}
SubmitPCs == {"s_key", "s_conflict", "s_reject", "s_lease", "s_formal", "s_accept",
              "s_verify", "s_match", "s_race", "s_terminal", "s_synthetic"}
DeferPCs == {"d_key", "d_job", "d_batch", "d_race", "d_key2", "d_job2", "d_terminal",
             "d_lease", "d_status_terminal", "d_status_lease", "d_status_deferral"}

\* What being at position `where` says about the locals of request r.
ControlAt(r, where) ==
    /\ where # "idle" => call[r] \in Calls
    /\ where \in ClaimPCs => call[r] \in ClaimCalls
    /\ where \in SubmitPCs => call[r] \in SubmitCalls /\ call[r].key \in Keys
    /\ where \in SubmitPCs \ {"s_key", "s_conflict"} => call[r].origin # "OTHER"
    /\ where \in DeferPCs => call[r] \in DeferCalls /\ call[r].key \in Keys
    /\ where \in {"idle", "c_terminal", "c_deferral"} => tries[r] = 0
    /\ where = "c_batch" => tries[r] < 2
    /\ where \in {"s_formal", "s_accept"} => EffectiveOrigin(call[r]) = "CHATGPT"
    /\ where = "s_synthetic" => EffectiveOrigin(call[r]) # "CHATGPT"

ControlOf(r) == ControlAt(r, pc[r])

Control == \A r \in Requests : ControlOf(r)

\* The clock a request captured is in the past.
AtPast == \A r \in Requests : at[r] <= clock

\* Primary key of the lease table; every lease was issued by a claim.
LeaseKey == /\ \A l, m \in leases : l.job = m.job => l = m
            /\ leases \subseteq issued

\* UNIQUE(idempotency_key), and a row belongs to the call of its request.
ProposalKey == /\ \A p, q \in proposals : p.key = q.key => p = q
               /\ \A p \in proposals : /\ pc[p.id] # "idle"
                                       /\ p.key = call[p.id].key
                                       /\ p.job = call[p.id].job

\* Formal proposals and terminal rows correspond one to one.
FormalIsTerminal == \A p \in proposals : Formal(p) => [job |-> p.job, id |-> p.id] \in terminals
TerminalKey == \A t, u \in terminals : t.job = u.job => t = u

\* The part of the answers that is about the tables.
AcceptedRow == \A r \in Requests :
    reply[r].status = "ACCEPTED" => [job |-> call[r].job, id |-> r] \in terminals /\ pc[r] # "idle"

Tables == LeaseKey /\ ProposalKey /\ FormalIsTerminal /\ TerminalKey
          /\ CompletedJobIsClosed /\ DeferredJobIsFree

IInv == TypeOK /\ Control /\ AtPast /\ Tables /\ AcceptedRow

----------------------------------------------------------------------------
(* Helpers *)

\* A call's operation determines its shape.
LEMMA CallShapes ==
    ASSUME NEW c \in Calls
    PROVE  /\ c.op = "claim" => c \in ClaimCalls
           /\ c.op = "submit" => c \in SubmitCalls
           /\ c.op = "defer" => c \in DeferCalls
           /\ c.op \in {"claim", "submit", "defer"}
<1>1. c \in ClaimCalls \/ c \in SubmitCalls \/ c \in DeferCalls
  BY ParameterAssumption DEF CallType
<1>2. CASE c \in ClaimCalls
  BY <1>2 DEF ClaimCalls
<1>3. CASE c \in SubmitCalls
  BY <1>3 DEF SubmitCalls
<1>4. CASE c \in DeferCalls
  BY <1>4 DEF DeferCalls
<1> QED BY <1>1, <1>2, <1>3, <1>4

\* Tables only depends on the tables, on the calls of started requests and on
\* the clock, which may advance.
LEMMA TablesStable ==
    ASSUME TypeOK, Tables,
           UNCHANGED <<leases, terminals, proposals, deferrals, issued>>,
           \A p \in proposals : call'[p.id] = call[p.id] /\ pc'[p.id] # "idle",
           clock' \in Nat, clock <= clock'
    PROVE  Tables'
<1>1. LeaseKey' /\ ProposalKey' /\ FormalIsTerminal' /\ TerminalKey'
  BY DEF Tables, LeaseKey, ProposalKey, FormalIsTerminal, TerminalKey, Formal
<1>2. CompletedJobIsClosed'
  BY DEF Tables, CompletedJobIsClosed, LeaseOf, Formal
<1>3. DeferredJobIsFree'
  <2> SUFFICES ASSUME NEW d \in deferrals, d.recheck > clock'
               PROVE  LeaseOf(d.job) = {}
    BY DEF DeferredJobIsFree, LeaseOf
  <2>1. d.recheck \in Nat /\ clock \in Nat
    BY DEF TypeOK, DeferralRows
  <2>2. d.recheck > clock
    BY <2>1
  <2> QED BY <2>2 DEF Tables, DeferredJobIsFree
<1> QED BY <1>1, <1>2, <1>3 DEF Tables

\* A step of one started request that leaves the clock and the other requests
\* alone: what remains to be shown is about its own locals.
LEMMA OwnStep ==
    ASSUME TypeOK, Control, AtPast,
           NEW r \in Requests, NEW where \in PCs \ {"idle"}, NEW answer \in Replies,
           pc[r] # "idle",
           pc' = [pc EXCEPT ![r] = where],
           reply' = [reply EXCEPT ![r] = answer],
           tries' \in [Requests -> 0..2],
           \A s \in Requests \ {r} : tries'[s] = tries[s],
           UNCHANGED <<clock, call, at>>,
           ControlOf(r)'
    PROVE  /\ pc' \in [Requests -> PCs]
           /\ reply' \in [Requests -> Replies]
           /\ Control' /\ AtPast'
           /\ \A s \in Requests : pc'[s] # "idle" <=> pc[s] # "idle"
<1>1. \A s \in Requests \ {r} : ControlOf(s)'
  BY DEF Control, ControlOf, ControlAt, TypeOK, EffectiveOrigin
<1>2. Control'
  BY <1>1 DEF Control
<1> QED BY <1>2 DEF TypeOK, AtPast

\* A step that only moves a request on, with its answer decided or not.
LEMMA QuietStep ==
    ASSUME IInv,
           NEW r \in Requests, NEW where \in PCs \ {"idle"}, NEW answer \in Replies,
           pc[r] # "idle",
           pc' = [pc EXCEPT ![r] = where],
           reply' = [reply EXCEPT ![r] = answer],
           UNCHANGED <<db, clock, call, at, tries>>,
           faults' \in Nat,
           answer.status = "ACCEPTED" => [job |-> call[r].job, id |-> r] \in terminals,
           ControlOf(r)'
    PROVE  IInv'
<1> USE DEF IInv
<1>1. /\ pc' \in [Requests -> PCs]
      /\ reply' \in [Requests -> Replies]
      /\ Control' /\ AtPast'
      /\ \A s \in Requests : pc'[s] # "idle" <=> pc[s] # "idle"
  <2>1. tries' \in [Requests -> 0..2] /\ \A s \in Requests \ {r} : tries'[s] = tries[s]
    BY DEF TypeOK
  <2> QED BY <2>1, OwnStep
<1>2. TypeOK'
  BY <1>1 DEF TypeOK, db
<1>3. Tables'
  <2>1. \A p \in proposals : call'[p.id] = call[p.id] /\ pc'[p.id] # "idle"
    BY <1>1 DEF Tables, ProposalKey, TypeOK, ProposalRows
  <2>2. clock' \in Nat /\ clock <= clock'
    BY DEF TypeOK
  <2> QED BY <2>1, <2>2, TablesStable DEF db
<1>4. AcceptedRow'
  BY <1>1 DEF AcceptedRow, TypeOK, db
<1> QED BY <1>1, <1>2, <1>3, <1>4

LEMMA MoveOnStep ==
    ASSUME IInv, NEW r \in Requests, NEW where \in PCs \ {"idle"},
           pc[r] # "idle", ControlAt(r, where), MoveOn(r, where)
    PROVE  IInv'
<1>1. reply[r] \in Replies /\ reply' = [reply EXCEPT ![r] = reply[r]]
  BY DEF IInv, TypeOK, MoveOn
<1>2. ControlOf(r)'
  BY DEF IInv, TypeOK, ControlOf, ControlAt, MoveOn, Goto, EffectiveOrigin
<1>3. reply[r].status = "ACCEPTED" => [job |-> call[r].job, id |-> r] \in terminals
  BY DEF IInv, AcceptedRow
<1>4. faults' \in Nat
  BY DEF IInv, TypeOK, MoveOn
<1>5. pc' = [pc EXCEPT ![r] = where] /\ UNCHANGED <<db, clock, call, at, tries>>
  BY DEF MoveOn, Goto
<1> QED BY <1>1, <1>2, <1>3, <1>4, <1>5, QuietStep

LEMMA DecideStep ==
    ASSUME IInv, NEW r \in Requests, NEW where \in PCs \ {"idle"}, NEW answer \in Replies,
           pc[r] # "idle", ControlAt(r, where), Decide(r, where, answer),
           answer.status = "ACCEPTED" => [job |-> call[r].job, id |-> r] \in terminals
    PROVE  IInv'
<1>1. ControlOf(r)'
  BY DEF IInv, TypeOK, ControlOf, ControlAt, Decide, Goto, EffectiveOrigin
<1>2. faults' \in Nat
  BY DEF IInv, TypeOK, Decide
<1>3. /\ pc' = [pc EXCEPT ![r] = where]
      /\ reply' = [reply EXCEPT ![r] = answer]
      /\ UNCHANGED <<db, clock, call, at, tries>>
  BY DEF Decide, Goto
<1> QED BY <1>1, <1>2, <1>3, QuietStep

LEMMA ThrowsStep ==
    ASSUME IInv, NEW r \in Requests, NEW where \in PCs \ {"idle"},
           pc[r] # "idle", ControlAt(r, where), Throws(r, where)
    PROVE  IInv'
<1>1. reply[r] \in Replies /\ reply' = [reply EXCEPT ![r] = reply[r]]
  BY DEF IInv, TypeOK, Throws
<1>2. ControlOf(r)'
  BY DEF IInv, TypeOK, ControlOf, ControlAt, Throws, Goto, EffectiveOrigin
<1>3. reply[r].status = "ACCEPTED" => [job |-> call[r].job, id |-> r] \in terminals
  BY DEF IInv, AcceptedRow
<1>4. faults' \in Nat
  BY DEF IInv, TypeOK, Throws
<1>5. pc' = [pc EXCEPT ![r] = where] /\ UNCHANGED <<db, clock, call, at, tries>>
  BY DEF Throws, Goto
<1> QED BY <1>1, <1>2, <1>3, <1>4, <1>5, QuietStep

\* A position that ends the handler needs nothing but a call.
LEMMA EndControl ==
    ASSUME IInv, NEW r \in Requests, pc[r] # "idle"
    PROVE  ControlAt(r, "done") /\ ControlAt(r, "error")
BY DEF IInv, Control, ControlOf, ControlAt, ClaimPCs, SubmitPCs, DeferPCs

\* The answers a handler gives are replies.
LEMMA ReplyType ==
    ASSUME NEW status \in Statuses, NEW reason \in Reasons,
           NEW rows \in SUBSET (LeaseRows \cup ProposalRows \cup DeferralRows)
    PROVE  /\ Reply(status, reason, rows) \in Replies
           /\ Reply(status, reason, rows).status = status
BY DEF Reply, Replies

LEMMA RejectedType ==
    ASSUME NEW reason \in Reasons
    PROVE  Rejected(reason) \in Replies /\ Rejected(reason).status = "REJECTED"
<1>1. "REJECTED" \in Statuses /\ {} \in SUBSET (LeaseRows \cup ProposalRows \cup DeferralRows)
  BY DEF Statuses
<1> QED BY <1>1, ReplyType DEF Rejected

----------------------------------------------------------------------------
(* Entering and leaving handlers, and time *)

LEMMA TickStep == ASSUME IInv, Tick PROVE IInv'
<1> USE DEF IInv
<1>1. clock' \in Nat /\ clock <= clock'
  BY DEF Tick, TypeOK
<1>2. TypeOK' /\ Control' /\ AtPast' /\ AcceptedRow'
  BY <1>1 DEF Tick, TypeOK, Control, ControlOf, ControlAt, AtPast, AcceptedRow, db, EffectiveOrigin
<1>3. Tables'
  <2>1. \A p \in proposals : call'[p.id] = call[p.id] /\ pc'[p.id] # "idle"
    BY DEF Tick, Tables, ProposalKey
  <2> QED BY <1>1, <2>1, TablesStable DEF Tick, db
<1> QED BY <1>2, <1>3

LEMMA EnterStep ==
    ASSUME IInv, NEW r \in Requests, NEW c \in Calls,
           NEW where \in PCs \ {"idle"}, NEW answer \in Replies,
           answer.status # "ACCEPTED",
           Enter(r, c, where, answer), ControlOf(r)'
    PROVE  IInv'
<1> USE DEF IInv
<1>1. TypeOK' /\ AtPast'
  BY DEF Enter, Goto, TypeOK, AtPast, db
<1>2. Control'
  <2>1. \A s \in Requests \ {r} : ControlOf(s)'
    BY DEF Enter, Goto, Control, ControlOf, ControlAt, TypeOK, EffectiveOrigin
  <2> QED BY <2>1 DEF Control
<1>3. Tables'
  <2>1. \A p \in proposals : call'[p.id] = call[p.id] /\ pc'[p.id] # "idle"
    BY DEF Enter, Goto, Tables, ProposalKey, TypeOK, ProposalRows
  <2>2. clock' \in Nat /\ clock <= clock'
    BY DEF Enter, TypeOK
  <2> QED BY <2>1, <2>2, TablesStable DEF Enter, db
<1>4. AcceptedRow'
  BY DEF Enter, Goto, AcceptedRow, TypeOK, db
<1> QED BY <1>1, <1>2, <1>3, <1>4

LEMMA StartStep ==
    ASSUME IInv, NEW r \in Requests, NEW c \in Calls, Start(r, c)
    PROVE  IInv'
<1>1. CASE WellFormed(c) /\ Enter(r, c, FirstAwait(c), NoReply)
  <2>1. NoReply \in Replies /\ NoReply.status # "ACCEPTED"
    BY DEF NoReply, Reply, Replies, Statuses, Reasons
  <2>2. FirstAwait(c) \in PCs \ {"idle"}
    BY CallShapes DEF FirstAwait, PCs
  <2>3. pc'[r] = FirstAwait(c) /\ call'[r] = c /\ tries'[r] = tries[r] /\ tries[r] = 0
    BY <1>1 DEF Enter, Goto, IInv, TypeOK, Control, ControlOf, ControlAt
  <2>4. c.op # "claim" => c.key # BadKey
    BY <1>1 DEF WellFormed
  <2>5. ControlOf(r)'
    <3>1. CASE c.op = "claim"
      BY <3>1, <2>3, CallShapes DEF FirstAwait, ControlOf, ControlAt, ClaimPCs, SubmitPCs, DeferPCs
    <3>2. CASE c.op = "submit"
      <4>1. c \in SubmitCalls /\ c.key \in Keys
        BY <3>2, <2>4, CallShapes DEF SubmitCalls
      <4> QED BY <4>1, <3>2, <2>3 DEF FirstAwait, ControlOf, ControlAt, ClaimPCs, SubmitPCs, DeferPCs
    <3>3. CASE c.op = "defer"
      <4>1. c \in DeferCalls /\ c.key \in Keys
        BY <3>3, <2>4, CallShapes DEF DeferCalls
      <4> QED BY <4>1, <3>3, <2>3 DEF FirstAwait, ControlOf, ControlAt, ClaimPCs, SubmitPCs, DeferPCs
    <3> QED BY <3>1, <3>2, <3>3, CallShapes
  <2> QED BY <1>1, <2>1, <2>2, <2>5, EnterStep
<1>2. ASSUME NEW answer \in Replies, answer.status # "ACCEPTED", Enter(r, c, "done", answer)
      PROVE  IInv'
  <2>1. "done" \in PCs \ {"idle"}
    BY DEF PCs
  <2>2. ControlOf(r)'
    BY <1>2 DEF Enter, Goto, IInv, TypeOK, ControlOf, ControlAt, ClaimPCs, SubmitPCs, DeferPCs
  <2> QED BY <1>2, <2>1, <2>2, EnterStep
<1>3. "VALIDATION_FAILED" \in Reasons /\ "NOT_FOUND" \in Reasons /\ "NOT_CLAIMABLE" \in Statuses
  BY DEF Reasons, Statuses
<1>4. /\ Rejected("VALIDATION_FAILED") \in Replies
      /\ Rejected("VALIDATION_FAILED").status # "ACCEPTED"
  BY <1>3, RejectedType
<1>5. /\ Reply("NOT_CLAIMABLE", "NOT_FOUND", {}) \in Replies
      /\ Reply("NOT_CLAIMABLE", "NOT_FOUND", {}).status # "ACCEPTED"
  <2>1. {} \in SUBSET (LeaseRows \cup ProposalRows \cup DeferralRows)
    OBVIOUS
  <2> QED BY <2>1, <1>3, ReplyType
<1> QED BY <1>1, <1>2, <1>4, <1>5 DEF Start

LEMMA FailStep == ASSUME IInv, NEW r \in Requests, Fail(r) PROVE IInv'
<1>1. "error" \in PCs \ {"idle"}
  BY DEF PCs
<1> QED BY <1>1, EndControl, ThrowsStep DEF Fail

----------------------------------------------------------------------------
(* Steps that only read *)

\* Moving on inside a handler keeps the locals' shape.
LEMMA HandlerControl ==
    ASSUME IInv, NEW r \in Requests
    PROVE  /\ pc[r] \in ClaimPCs =>
                 /\ \A where \in ClaimPCs \ {"c_terminal", "c_deferral", "c_batch"} : ControlAt(r, where)
                 /\ tries[r] = 0 => ControlAt(r, "c_deferral")
                 /\ tries[r] < 2 => ControlAt(r, "c_batch")
           /\ pc[r] \in SubmitPCs =>
                 /\ ControlAt(r, "s_conflict")
                 /\ call[r].origin # "OTHER" =>
                       \A where \in SubmitPCs \ {"s_formal", "s_accept", "s_synthetic"} : ControlAt(r, where)
                 /\ call[r].origin # "OTHER" /\ EffectiveOrigin(call[r]) = "CHATGPT" =>
                       ControlAt(r, "s_formal") /\ ControlAt(r, "s_accept")
                 /\ call[r].origin # "OTHER" /\ EffectiveOrigin(call[r]) # "CHATGPT" =>
                       ControlAt(r, "s_synthetic")
           /\ pc[r] \in DeferPCs => \A where \in DeferPCs : ControlAt(r, where)
<1>1. ControlAt(r, pc[r])
  BY DEF IInv, Control, ControlOf
<1>2. CASE pc[r] \in ClaimPCs
  <2>1. call[r] \in Calls /\ call[r] \in ClaimCalls
    BY <1>1, <1>2 DEF ControlAt, ClaimPCs
  <2> QED BY <2>1, <1>2 DEF ControlAt, ClaimPCs, SubmitPCs, DeferPCs
<1>3. CASE pc[r] \in SubmitPCs
  <2>1. call[r] \in Calls /\ call[r] \in SubmitCalls /\ call[r].key \in Keys
    BY <1>1, <1>3 DEF ControlAt, SubmitPCs
  <2> QED BY <2>1, <1>3 DEF ControlAt, ClaimPCs, SubmitPCs, DeferPCs
<1>4. CASE pc[r] \in DeferPCs
  <2>1. call[r] \in Calls /\ call[r] \in DeferCalls /\ call[r].key \in Keys
    BY <1>1, <1>4 DEF ControlAt, DeferPCs
  <2> QED BY <2>1, <1>4 DEF ControlAt, ClaimPCs, SubmitPCs, DeferPCs
<1> QED BY <1>2, <1>3, <1>4 DEF ClaimPCs, SubmitPCs, DeferPCs

LEMMA Positions == ClaimPCs \cup SubmitPCs \cup DeferPCs \cup {"done", "error"} \subseteq PCs \ {"idle"}
BY DEF ClaimPCs, SubmitPCs, DeferPCs, PCs

\* Answering with anything but an acceptance.
LEMMA AnswerStep ==
    ASSUME IInv, NEW r \in Requests, pc[r] # "idle",
           NEW answer \in Replies, answer.status # "ACCEPTED", Answer(r, answer)
    PROVE  IInv'
<1>1. "done" \in PCs \ {"idle"}
  BY Positions
<1> QED BY <1>1, EndControl, DecideStep DEF Answer

LEMMA RejectStep ==
    ASSUME IInv, NEW r \in Requests, pc[r] # "idle", NEW reason \in Reasons,
           Answer(r, Rejected(reason))
    PROVE  IInv'
BY RejectedType, AnswerStep

LEMMA ClaimReads ==
    ASSUME IInv, NEW r \in Requests,
           \/ ClaimTerminal(r) \/ ClaimDeferral(r) \/ ClaimConfirm(r)
           \/ ClaimTerminal2(r) \/ ClaimDeferral2(r) \/ ClaimCurrent(r)
    PROVE  IInv'
<1>1. pc[r] \in ClaimPCs /\ pc[r] # "idle"
  BY DEF ClaimTerminal, ClaimDeferral, ClaimConfirm, ClaimTerminal2, ClaimDeferral2,
         ClaimCurrent, ClaimPCs
<1>2. ASSUME NEW where \in ClaimPCs \cup {"error"}, MoveOn(r, where), ControlAt(r, where)
      PROVE  IInv'
  BY <1>1, <1>2, Positions, MoveOnStep
<1>3. ASSUME NEW status \in Statuses \ {"ACCEPTED"}, NEW reason \in Reasons,
             NEW rows \in SUBSET leases, Answer(r, Reply(status, reason, rows))
      PROVE  IInv'
  <2>1. rows \in SUBSET (LeaseRows \cup ProposalRows \cup DeferralRows)
    BY DEF IInv, TypeOK
  <2>2. Reply(status, reason, rows) \in Replies /\ Reply(status, reason, rows).status # "ACCEPTED"
    BY <2>1, ReplyType
  <2> QED BY <1>1, <1>3, <2>2, AnswerStep
<1>0. {} \in SUBSET leases
  OBVIOUS
<1>4. CASE ClaimTerminal(r)
  <2>1. tries[r] = 0
    BY <1>4 DEF ClaimTerminal, IInv, Control, ControlOf, ControlAt
  <2>2. ControlAt(r, "c_denied") /\ ControlAt(r, "c_deferral")
    BY <1>1, <2>1, HandlerControl DEF ClaimPCs
  <2> QED BY <1>4, <1>2, <2>2 DEF ClaimTerminal, ClaimPCs
<1>5. CASE ClaimDeferral(r)
  <2>1. tries[r] < 2
    BY <1>5 DEF ClaimDeferral, IInv, Control, ControlOf, ControlAt
  <2>2. ControlAt(r, "c_batch")
    BY <1>1, <2>1, HandlerControl
  <2>3. CASE MoveOn(r, "c_batch")
    BY <2>3, <1>2, <2>2 DEF ClaimPCs
  <2>4. CASE Answer(r, Reply("NOT_CLAIMABLE", "DEFERRED", {}))
    BY <2>4, <1>0, <1>3 DEF Statuses, Reasons
  <2> QED BY <1>5, <2>3, <2>4 DEF ClaimDeferral
<1>6. CASE ClaimConfirm(r)
  <2>1. ControlAt(r, "c_terminal2")
    BY <1>1, HandlerControl DEF ClaimPCs
  <2>2. CASE MoveOn(r, "c_terminal2")
    BY <2>1, <2>2, <1>2 DEF ClaimPCs
  <2>3. ASSUME NEW own \in SUBSET leases, Answer(r, Reply("CLAIMED", "none", own)) PROVE IInv'
    BY <2>3, <1>0, <1>3 DEF Statuses, Reasons
  <2> QED BY <1>6, <2>2, <2>3 DEF ClaimConfirm, LeaseOf
<1>7. CASE ClaimTerminal2(r)
  <2>1. ControlAt(r, "c_denied") /\ ControlAt(r, "c_deferral2")
    BY <1>1, HandlerControl DEF ClaimPCs
  <2> QED BY <1>7, <1>2, <2>1 DEF ClaimTerminal2, ClaimPCs
<1>8. CASE ClaimDeferral2(r)
  <2>1. ControlAt(r, "c_current")
    BY <1>1, HandlerControl DEF ClaimPCs
  <2>2. CASE MoveOn(r, "c_current")
    BY <2>1, <2>2, <1>2 DEF ClaimPCs
  <2>3. CASE Answer(r, Reply("NOT_CLAIMABLE", "DEFERRED", {}))
    BY <2>3, <1>0, <1>3 DEF Statuses, Reasons
  <2> QED BY <1>8, <2>2, <2>3 DEF ClaimDeferral2
<1>9. CASE ClaimCurrent(r)
  <2>1. CASE MoveOn(r, IF tries[r] < 2 THEN "c_batch" ELSE "error")
    <3>1. CASE tries[r] < 2
      <4>1. ControlAt(r, "c_batch")
        BY <3>1, <1>1, HandlerControl
      <4> QED BY <4>1, <3>1, <2>1, <1>2 DEF ClaimPCs
    <3>2. CASE ~ (tries[r] < 2)
      BY <3>2, <2>1, <1>1, <1>2, EndControl
    <3> QED BY <3>1, <3>2
  <2>2. ASSUME NEW rows \in SUBSET leases, Answer(r, Reply("CLAIMED", "none", rows)) PROVE IInv'
    BY <2>2, <1>3 DEF Statuses, Reasons
  <2>3. CASE Answer(r, Reply("ALREADY_CLAIMED", "none", {}))
    BY <2>3, <1>0, <1>3 DEF Statuses, Reasons
  <2>4. ASSUME NEW l \in LeaseOf(call[r].job),
               IF l.owner = call[r].owner
               THEN Answer(r, Reply("CLAIMED", "none", {l}))
               ELSE Answer(r, Reply("ALREADY_CLAIMED", "none", {}))
        PROVE  IInv'
    <3>1. {l} \in SUBSET leases
      BY DEF LeaseOf
    <3> QED BY <3>1, <2>2, <2>3, <2>4
  <2> QED BY <1>9, <2>1, <2>4 DEF ClaimCurrent
<1> QED BY <1>4, <1>5, <1>6, <1>7, <1>8, <1>9

LEMMA AnswerExistingStep ==
    ASSUME IInv, NEW r \in Requests, pc[r] \in SubmitPCs,
           NEW p \in proposals, AnswerExisting(r, p)
    PROVE  IInv'
<1>1. p.reason \in Reasons /\ "CONFLICT" \in Reasons
  BY DEF IInv, TypeOK, ProposalRows, Reasons
<1>2. ExistingVerdict(p, call[r]) \in Replies /\ ExistingVerdict(p, call[r]).status # "ACCEPTED"
  <2>1. /\ Reply("IDEMPOTENT_REPLAY", "none", {p}) \in Replies
        /\ Reply("IDEMPOTENT_REPLAY", "none", {p}).status # "ACCEPTED"
    <3>1. {p} \in SUBSET (LeaseRows \cup ProposalRows \cup DeferralRows)
      BY DEF IInv, TypeOK
    <3>2. "IDEMPOTENT_REPLAY" \in Statuses /\ "none" \in Reasons
      BY DEF Statuses, Reasons
    <3> QED BY <3>1, <3>2, ReplyType
  <2> QED BY <1>1, <2>1, RejectedType DEF ExistingVerdict
<1>3. pc[r] # "idle" /\ "s_conflict" \in PCs \ {"idle"}
  BY Positions DEF SubmitPCs
<1>4. ControlAt(r, "s_conflict")
  BY HandlerControl
<1> QED BY <1>2, <1>3, <1>4, AnswerStep, DecideStep DEF AnswerExisting

LEMMA SubmitReads ==
    ASSUME IInv, NEW r \in Requests,
           \/ SubmitKey(r) \/ SubmitLease(r) \/ SubmitFormal(r) \/ SubmitVerify(r)
           \/ SubmitMatch(r) \/ SubmitRace(r) \/ SubmitTerminal(r)
    PROVE  IInv'
<1>1. pc[r] \in SubmitPCs /\ pc[r] # "idle"
  BY DEF SubmitKey, SubmitLease, SubmitFormal, SubmitVerify, SubmitMatch, SubmitRace,
         SubmitTerminal, SubmitPCs
<1>2. pc[r] # "s_key" /\ pc[r] # "s_conflict" => call[r].origin # "OTHER"
  BY <1>1 DEF IInv, Control, ControlOf, ControlAt
<1>3. ASSUME NEW where \in SubmitPCs \cup {"done"}, ControlAt(r, where),
             MoveOn(r, where) \/ Throws(r, where)
      PROVE  IInv'
  BY <1>1, <1>3, Positions, MoveOnStep, ThrowsStep
<1>4. ASSUME NEW where \in SubmitPCs \cup {"done"}, ControlAt(r, where),
             NEW reason \in Reasons, Decide(r, where, Rejected(reason))
      PROVE  IInv'
  BY <1>1, <1>4, Positions, RejectedType, DecideStep
<1>5. ASSUME NEW reason \in Reasons, Answer(r, Rejected(reason)) PROVE IInv'
  BY <1>1, <1>5, RejectStep
<1>6. {"VALIDATION_FAILED", "LEASE_INVALID", "SECOND_RESULT"} \subseteq Reasons
  BY DEF Reasons
<1>7. call[r].origin # "OTHER" =>
         \A where \in SubmitPCs \ {"s_formal", "s_accept", "s_synthetic"} : ControlAt(r, where)
  BY <1>1, HandlerControl
<1>8. \A k : \A p \in ProposalWithKey(k) : p \in proposals
  BY DEF ProposalWithKey
<1>10. CASE SubmitKey(r)
  <2>1. CASE \E p \in ProposalWithKey(call[r].key) : AnswerExisting(r, p)
    BY <2>1, <1>1, <1>8, AnswerExistingStep
  <2>2. CASE Answer(r, Rejected("VALIDATION_FAILED"))
    BY <2>2, <1>5, <1>6
  <2>3. CASE call[r].origin # "OTHER" /\ Decide(r, "s_reject", Rejected("VALIDATION_FAILED"))
    BY <2>3, <1>4, <1>6, <1>7 DEF SubmitPCs
  <2>4. CASE call[r].origin # "OTHER" /\ MoveOn(r, "s_lease")
    BY <2>4, <1>3, <1>7 DEF SubmitPCs
  <2> QED BY <1>10, <2>1, <2>2, <2>3, <2>4 DEF SubmitKey
<1>11. CASE SubmitLease(r)
  <2>1. call[r].origin # "OTHER"
    BY <1>11, <1>2 DEF SubmitLease
  <2>2. CASE Decide(r, "s_reject", Rejected("LEASE_INVALID"))
    BY <2>1, <2>2, <1>4, <1>6, <1>7 DEF SubmitPCs
  <2>3. CASE EffectiveOrigin(call[r]) = "CHATGPT" /\ MoveOn(r, "s_formal")
    <3>1. ControlAt(r, "s_formal")
      BY <2>1, <2>3, <1>1, HandlerControl
    <3> QED BY <3>1, <2>3, <1>3 DEF SubmitPCs
  <2>4. CASE EffectiveOrigin(call[r]) # "CHATGPT" /\ MoveOn(r, "s_synthetic")
    <3>1. ControlAt(r, "s_synthetic")
      BY <2>1, <2>4, <1>1, HandlerControl
    <3> QED BY <3>1, <2>4, <1>3 DEF SubmitPCs
  <2> QED BY <1>11, <2>2, <2>3, <2>4 DEF SubmitLease
<1>12. CASE SubmitFormal(r)
  <2>1. call[r].origin # "OTHER" /\ EffectiveOrigin(call[r]) = "CHATGPT"
    BY <1>12 DEF SubmitFormal, IInv, Control, ControlOf, ControlAt, SubmitPCs
  <2>2. CASE Decide(r, "s_reject", Rejected("SECOND_RESULT"))
    BY <2>1, <2>2, <1>4, <1>6, <1>7 DEF SubmitPCs
  <2>3. CASE MoveOn(r, "s_accept")
    <3>1. ControlAt(r, "s_accept")
      BY <2>1, <1>1, HandlerControl
    <3> QED BY <3>1, <2>3, <1>3 DEF SubmitPCs
  <2> QED BY <1>12, <2>2, <2>3 DEF SubmitFormal
<1>13. CASE SubmitVerify(r)
  <2>1. call[r].origin # "OTHER"
    BY <1>13, <1>2 DEF SubmitVerify
  <2>2. ControlAt(r, "s_match") /\ ControlAt(r, "s_race")
    BY <2>1, <1>7 DEF SubmitPCs
  <2> QED BY <1>13, <2>2, <1>3 DEF SubmitVerify, SubmitPCs
<1>14. CASE SubmitMatch(r)
  <2>1. call[r].origin # "OTHER"
    BY <1>14, <1>2 DEF SubmitMatch
  <2>2. CASE MoveOn(r, "s_race")
    BY <2>1, <2>2, <1>3, <1>7 DEF SubmitPCs
  <2>3. CASE [job |-> call[r].job, id |-> r] \in terminals /\ Answer(r, Reply("ACCEPTED", "none", {}))
    <3>1. {} \in SUBSET (LeaseRows \cup ProposalRows \cup DeferralRows)
      OBVIOUS
    <3>0. "ACCEPTED" \in Statuses /\ "none" \in Reasons
      BY DEF Statuses, Reasons
    <3>2. Reply("ACCEPTED", "none", {}) \in Replies
      BY <3>0, <3>1, ReplyType
    <3>3. "done" \in PCs \ {"idle"}
      BY Positions
    <3> QED BY <2>3, <3>2, <3>3, <1>1, EndControl, DecideStep DEF Answer
  <2> QED BY <1>14, <2>2, <2>3 DEF SubmitMatch
<1>15. CASE SubmitRace(r)
  <2>1. call[r].origin # "OTHER"
    BY <1>15, <1>2 DEF SubmitRace
  <2>2. CASE \E p \in ProposalWithKey(call[r].key) : AnswerExisting(r, p)
    BY <2>2, <1>1, <1>8, AnswerExistingStep
  <2>3. ASSUME NEW where \in {"s_terminal", "done"}, MoveOn(r, where) \/ Throws(r, where)
        PROVE  IInv'
    <3>1. ControlAt(r, where)
      BY <2>1, <1>1, <1>7, EndControl DEF SubmitPCs
    <3> QED BY <2>3, <3>1, <1>3 DEF SubmitPCs
  <2> QED BY <1>15, <2>2, <2>3 DEF SubmitRace
<1>16. CASE SubmitTerminal(r)
  BY <1>16, <1>5, <1>6 DEF SubmitTerminal
<1> QED BY <1>10, <1>11, <1>12, <1>13, <1>14, <1>15, <1>16

LEMMA ReplayDeferralStep ==
    ASSUME IInv, NEW r \in Requests, pc[r] \in DeferPCs, pc[r] # "idle",
           NEW d \in deferrals, ReplayDeferral(r, d)
    PROVE  IInv'
<1>1. CASE Answer(r, Rejected("CONFLICT"))
  <2>1. "CONFLICT" \in Reasons
    BY DEF Reasons
  <2> QED BY <1>1, <2>1, RejectStep
<1>2. CASE Decide(r, "d_status_terminal", Reply("IDEMPOTENT_REPLAY", "none", {d}))
  <2>1. {d} \in SUBSET (LeaseRows \cup ProposalRows \cup DeferralRows)
    BY DEF IInv, TypeOK
  <2>2. "IDEMPOTENT_REPLAY" \in Statuses /\ "none" \in Reasons
    BY DEF Statuses, Reasons
  <2>3. /\ Reply("IDEMPOTENT_REPLAY", "none", {d}) \in Replies
        /\ Reply("IDEMPOTENT_REPLAY", "none", {d}).status # "ACCEPTED"
    BY <2>1, <2>2, ReplyType
  <2>4. "d_status_terminal" \in DeferPCs /\ "d_status_terminal" \in PCs \ {"idle"}
    BY Positions DEF DeferPCs
  <2>5. ControlAt(r, "d_status_terminal")
    BY <2>4, HandlerControl
  <2> QED BY <1>2, <2>3, <2>4, <2>5, DecideStep
<1> QED BY <1>1, <1>2 DEF ReplayDeferral

LEMMA DeferReads ==
    ASSUME IInv, NEW r \in Requests,
           \/ DeferKey(r) \/ DeferJob(r) \/ DeferRace(r) \/ DeferKey2(r) \/ DeferJob2(r)
           \/ DeferTerminal(r) \/ DeferLease(r) \/ DeferStatusTerminal(r)
           \/ DeferStatusLease(r) \/ DeferStatusDeferral(r)
    PROVE  IInv'
<1>1. pc[r] \in DeferPCs /\ pc[r] # "idle"
  BY DEF DeferKey, DeferJob, DeferRace, DeferKey2, DeferJob2, DeferTerminal, DeferLease,
         DeferStatusTerminal, DeferStatusLease, DeferStatusDeferral, DeferPCs
<1>2. ASSUME NEW where \in DeferPCs \cup {"error"}, MoveOn(r, where) PROVE IInv'
  <2>1. where \in PCs \ {"idle"}
    BY Positions
  <2>2. ControlAt(r, where)
    BY <1>1, HandlerControl, EndControl
  <2> QED BY <1>1, <1>2, <2>1, <2>2, MoveOnStep
<1>3. ASSUME NEW reason \in {"CONFLICT", "VALIDATION_FAILED", "SECOND_RESULT", "LEASE_INVALID"},
             Answer(r, Rejected(reason))
      PROVE  IInv'
  <2>1. reason \in Reasons
    BY DEF Reasons
  <2> QED BY <2>1, <1>1, <1>3, RejectStep
<1>4. ASSUME NEW k, \E d \in DeferralWithKey(k) : ReplayDeferral(r, d) PROVE IInv'
  BY <1>1, <1>4, ReplayDeferralStep DEF DeferralWithKey
<1>5. ASSUME NEW status \in {"COMPLETED", "CLAIMED", "DEFERRED", "QUEUED"}, WithStatus(r, status)
      PROVE  IInv'
  <2> DEFINE answer == [reply[r] EXCEPT !.reason = status]
  <2>1. answer \in Replies /\ answer.status = reply[r].status
    BY DEF IInv, TypeOK, Replies, Reasons
  <2>2. answer.status = "ACCEPTED" => [job |-> call[r].job, id |-> r] \in terminals
    BY <2>1 DEF IInv, AcceptedRow
  <2>3. Decide(r, "done", answer)
    BY <1>5 DEF WithStatus, Answer
  <2>4. "done" \in PCs \ {"idle"} /\ ControlAt(r, "done")
    BY <1>1, Positions, EndControl
  <2> HIDE DEF answer
  <2> QED BY <1>1, <2>1, <2>2, <2>3, <2>4, DecideStep
<1>6. {"d_job", "d_batch", "d_job2", "d_terminal", "d_lease", "d_status_lease",
       "d_status_deferral"} \subseteq DeferPCs
  BY DEF DeferPCs
<1>7. CASE DeferKey(r)
  BY <1>7, <1>2, <1>3, <1>4, <1>6 DEF DeferKey
<1>8. CASE DeferJob(r)
  BY <1>8, <1>2, <1>3, <1>6 DEF DeferJob
<1>9. CASE DeferRace(r)
  BY <1>9, <1>2, <1>4 DEF DeferRace
<1>10. CASE DeferKey2(r)
  BY <1>10, <1>2, <1>4, <1>6 DEF DeferKey2
<1>11. CASE DeferJob2(r)
  BY <1>11, <1>2, <1>3, <1>6 DEF DeferJob2
<1>12. CASE DeferTerminal(r)
  BY <1>12, <1>2, <1>3, <1>6 DEF DeferTerminal
<1>13. CASE DeferLease(r)
  BY <1>13, <1>3 DEF DeferLease
<1>14. CASE DeferStatusTerminal(r)
  BY <1>14, <1>2, <1>5, <1>6 DEF DeferStatusTerminal
<1>15. CASE DeferStatusLease(r)
  BY <1>15, <1>2, <1>5, <1>6 DEF DeferStatusLease
<1>16. CASE DeferStatusDeferral(r)
  BY <1>16, <1>5 DEF DeferStatusDeferral
<1> QED BY <1>7, <1>8, <1>9, <1>10, <1>11, <1>12, <1>13, <1>14, <1>15, <1>16

----------------------------------------------------------------------------
(* Steps that write *)

\* A step of request r that may run a batch: the tables are the only obligation.
LEMMA WriteStep ==
    ASSUME IInv,
           NEW r \in Requests, NEW where \in PCs \ {"idle"},
           pc[r] # "idle",
           pc' = [pc EXCEPT ![r] = where],
           reply' \in [Requests -> Replies],
           \A s \in Requests \ {r} : reply'[s] = reply[s],
           reply'[r].status = "ACCEPTED" => reply[r].status = "ACCEPTED",
           UNCHANGED <<clock, call, at, tries>>,
           ControlAt(r, where),
           faults' \in Nat,
           events' \in Seq(EventRows),
           leases' \subseteq leases,
           UNCHANGED issued,
           terminals' \subseteq TerminalRows, terminals \subseteq terminals',
           proposals' \subseteq ProposalRows, deferrals' \subseteq DeferralRows,
           Tables'
    PROVE  IInv'
<1> USE DEF IInv
<1>1. ControlOf(r)'
  BY DEF TypeOK, ControlOf, ControlAt, EffectiveOrigin
<1>2. tries' \in [Requests -> 0..2] /\ \A s \in Requests \ {r} : tries'[s] = tries[s]
  BY DEF TypeOK
<1>0. reply'[r] \in Replies /\ reply' = [reply EXCEPT ![r] = reply'[r]]
  BY DEF TypeOK
<1>3. /\ pc' \in [Requests -> PCs]
      /\ reply' \in [Requests -> Replies]
      /\ Control' /\ AtPast'
      /\ \A s \in Requests : pc'[s] # "idle" <=> pc[s] # "idle"
  BY <1>0, <1>1, <1>2, OwnStep
<1>4. TypeOK'
  BY <1>2, <1>3 DEF TypeOK
<1>5. AcceptedRow'
  BY <1>3 DEF AcceptedRow, TypeOK
<1> QED BY <1>3, <1>4, <1>5

\* An event of a started request, appended.
LEMMA EventsType ==
    ASSUME IInv, NEW r \in Requests, call[r] \in Calls,
           NEW kind \in EventTypes, NEW actor \in Owners
    PROVE  /\ Event(r, kind, actor) \in EventRows
           /\ OwnEvent(r, kind) \in EventRows
<1>1. call[r].job \in Jobs /\ call[r].owner \in Owners
  BY ParameterAssumption DEF CallType, ClaimCalls, SubmitCalls, DeferCalls
<1> QED BY <1>1 DEF Event, OwnEvent, EventRows

\* ClaimDenied and SubmitConflict: one event, then the answer.
LEMMA AuditStep ==
    ASSUME IInv, NEW r \in Requests, ClaimDenied(r) \/ SubmitConflict(r)
    PROVE  IInv'
<1>1. pc[r] # "idle" /\ call[r] \in Calls
  BY DEF ClaimDenied, SubmitConflict, IInv, Control, ControlOf, ControlAt
<1>2. "done" \in PCs \ {"idle"} /\ ControlAt(r, "done")
  BY <1>1, Positions, EndControl
<1>3. /\ reply' \in [Requests -> Replies]
      /\ \A s \in Requests \ {r} : reply'[s] = reply[s]
      /\ reply'[r].status = "ACCEPTED" => reply[r].status = "ACCEPTED"
  <2>1. CASE ClaimDenied(r)
    <3>1. {} \in SUBSET (LeaseRows \cup ProposalRows \cup DeferralRows)
      OBVIOUS
    <3>2. "NOT_CLAIMABLE" \in Statuses /\ "TERMINAL" \in Reasons
      BY DEF Statuses, Reasons
    <3>3. /\ Reply("NOT_CLAIMABLE", "TERMINAL", {}) \in Replies
          /\ Reply("NOT_CLAIMABLE", "TERMINAL", {}).status # "ACCEPTED"
      BY <3>1, <3>2, ReplyType
    <3> QED BY <2>1, <3>3 DEF ClaimDenied, IInv, TypeOK
  <2>2. CASE SubmitConflict(r)
    BY <2>2 DEF SubmitConflict, IInv, TypeOK
  <2> QED BY <2>1, <2>2
<1>4. PICK kind \in EventTypes : events' = Append(events, OwnEvent(r, kind))
  BY DEF ClaimDenied, SubmitConflict, EventTypes
<1>5. events' \in Seq(EventRows)
  <2>1. OwnEvent(r, kind) \in EventRows
    <3>1. call[r].owner \in Owners
      BY <1>1, ParameterAssumption DEF CallType, ClaimCalls, SubmitCalls, DeferCalls
    <3> QED BY <1>1, <3>1, EventsType
  <2> QED BY <1>4, <2>1 DEF IInv, TypeOK
<1>6. /\ pc' = [pc EXCEPT ![r] = "done"]
      /\ UNCHANGED <<leases, terminals, proposals, deferrals, issued, clock, call, at, tries, faults>>
  BY DEF ClaimDenied, SubmitConflict, Goto
<1>7. Tables'
  <2>1. \A p \in proposals : call'[p.id] = call[p.id] /\ pc'[p.id] # "idle"
    BY <1>6 DEF IInv, Tables, ProposalKey, TypeOK, ProposalRows
  <2>2. clock' \in Nat /\ clock <= clock'
    BY <1>6 DEF IInv, TypeOK
  <2> QED BY <1>6, <2>1, <2>2, TablesStable DEF IInv
<1>8. /\ leases' \subseteq leases /\ faults' \in Nat
      /\ terminals' \subseteq TerminalRows /\ terminals \subseteq terminals'
      /\ proposals' \subseteq ProposalRows /\ deferrals' \subseteq DeferralRows
  BY <1>6 DEF IInv, TypeOK
<1>9. /\ pc' = [pc EXCEPT ![r] = "done"]
      /\ UNCHANGED <<clock, call, at, tries>> /\ UNCHANGED issued
  BY <1>6
<1> QED BY <1>1, <1>2, <1>3, <1>5, <1>7, <1>8, <1>9, WriteStep

\* Releasing leases, and storing a row that is not a formal result, disturbs
\* nothing the tables promise.
LEMMA ReleaseOrStore ==
    ASSUME TypeOK, Tables,
           leases' \subseteq leases,
           UNCHANGED <<terminals, deferrals, issued, clock, call>>,
           \A s \in Requests : pc[s] # "idle" => pc'[s] # "idle",
           \/ UNCHANGED proposals
           \/ \E row \in ProposalRows :
                 /\ ~ Formal(row) /\ ProposalWithKey(row.key) = {}
                 /\ proposals' = proposals \cup {row}
                 /\ pc[row.id] # "idle"
                 /\ row.key = call[row.id].key /\ row.job = call[row.id].job
    PROVE  Tables'
<1>1. LeaseKey' /\ TerminalKey'
  BY DEF Tables, LeaseKey, TerminalKey
<1>2. ProposalKey'
  BY DEF Tables, ProposalKey, ProposalWithKey, TypeOK, ProposalRows
<1>3. FormalIsTerminal'
  BY DEF Tables, FormalIsTerminal, Formal
<1>4. CompletedJobIsClosed'
  <2>1. proposals \subseteq proposals'
    OBVIOUS
  <2> QED BY <2>1 DEF Tables, CompletedJobIsClosed, LeaseOf, Formal
<1>5. DeferredJobIsFree'
  BY DEF Tables, DeferredJobIsFree, LeaseOf
<1> QED BY <1>1, <1>2, <1>3, <1>4, <1>5 DEF Tables

\* The row a submit past its structural checks would store.
LEMMA RowType ==
    ASSUME IInv, NEW r \in Requests, pc[r] \in SubmitPCs, call[r].origin # "OTHER",
           NEW status \in {"RECEIVED", "REJECTED"}, NEW reason \in Reasons
    PROVE  /\ ProposalRow(r, status, reason) \in ProposalRows
           /\ ProposalRow(r, status, reason).id = r
           /\ ProposalRow(r, status, reason).status = status
           /\ ProposalRow(r, status, reason).origin = EffectiveOrigin(call[r])
           /\ ProposalRow(r, status, reason).key = call[r].key
           /\ ProposalRow(r, status, reason).job = call[r].job
<1>1. call[r] \in SubmitCalls /\ call[r].key \in Keys
  BY DEF IInv, Control, ControlOf, ControlAt
<1>2. EffectiveOrigin(call[r]) \in {"CHATGPT", "SYNTHETIC", "REPLAY"}
  BY <1>1 DEF EffectiveOrigin, SubmitCalls, Origins
<1>3. PayloadSha(call[r].payload) \in Payloads \cup {EmptySha}
  BY <1>1 DEF PayloadSha, SubmitCalls
<1> QED BY <1>1, <1>2, <1>3 DEF ProposalRow, ProposalRows, SubmitCalls

LEMMA SubmitRejectStep ==
    ASSUME IInv, NEW r \in Requests, SubmitReject(r)
    PROVE  IInv'
<1> DEFINE row == ProposalRow(r, "REJECTED", reply[r].reason)
<1>1. /\ pc[r] \in SubmitPCs /\ pc[r] # "idle"
      /\ call[r] \in Calls /\ call[r].origin # "OTHER"
  BY DEF SubmitReject, SubmitPCs, IInv, Control, ControlOf, ControlAt
<1>2. ControlAt(r, "done") /\ ControlAt(r, "s_race")
  BY <1>1, HandlerControl, EndControl DEF SubmitPCs
<1>3. {"done", "s_race"} \subseteq PCs \ {"idle"}
  BY Positions DEF SubmitPCs
<1>4. CASE MoveOn(r, "s_race") \/ Throws(r, "s_race")
  BY <1>1, <1>2, <1>3, <1>4, MoveOnStep, ThrowsStep
<1>5. CASE /\ InsertProposal(row)
           /\ events' = Append(events, OwnEvent(r, "SUBMIT_REJECTED"))
           /\ CommitSeen(r, "done", "s_race")
           /\ UNCHANGED <<leases, terminals, deferrals, issued, clock, call, at, tries, reply>>
  <2>1. reply[r].reason \in Reasons
    BY DEF IInv, TypeOK, Replies
  <2>2. /\ row \in ProposalRows /\ row.id = r /\ row.status = "REJECTED"
        /\ row.key = call[r].key /\ row.job = call[r].job
    BY <1>1, <2>1, RowType
  <2> HIDE DEF row
  <2>3. PICK where \in {"done", "s_race"} : pc' = [pc EXCEPT ![r] = where] /\ faults' \in Nat
    BY <1>5 DEF CommitSeen, Goto, IInv, TypeOK
  <2>4. events' \in Seq(EventRows)
    <3>1. call[r].owner \in Owners
      BY <1>1, ParameterAssumption DEF CallType, ClaimCalls, SubmitCalls, DeferCalls
    <3>2. OwnEvent(r, "SUBMIT_REJECTED") \in EventRows
      BY <1>1, <3>1, EventsType DEF EventTypes
    <3> QED BY <3>2, <1>5 DEF IInv, TypeOK
  <2>5. Tables'
    <3>1. ~ Formal(row) /\ ProposalWithKey(row.key) = {} /\ proposals' = proposals \cup {row}
      BY <1>5, <2>2 DEF Formal, InsertProposal
    <3>2. \A s \in Requests : pc[s] # "idle" => pc'[s] # "idle"
      BY <2>3 DEF IInv, TypeOK
    <3> QED BY <1>1, <1>5, <2>2, <3>1, <3>2, ReleaseOrStore DEF IInv
  <2>6. /\ reply' \in [Requests -> Replies]
        /\ \A s \in Requests \ {r} : reply'[s] = reply[s]
        /\ reply'[r].status = "ACCEPTED" => reply[r].status = "ACCEPTED"
        /\ leases' \subseteq leases
        /\ terminals' \subseteq TerminalRows /\ terminals \subseteq terminals'
        /\ proposals' \subseteq ProposalRows /\ deferrals' \subseteq DeferralRows
        /\ UNCHANGED <<clock, call, at, tries>> /\ UNCHANGED issued
    BY <1>5, <2>2 DEF InsertProposal, IInv, TypeOK
  <2> QED BY <1>1, <1>2, <1>3, <2>3, <2>4, <2>5, <2>6, WriteStep
<1> QED BY <1>4, <1>5 DEF SubmitReject

LEMMA SubmitSyntheticStep ==
    ASSUME IInv, NEW r \in Requests, SubmitSynthetic(r)
    PROVE  IInv'
<1> DEFINE row == ProposalRow(r, "RECEIVED", "none")
           answer == Reply("ACCEPTED_SYNTHETIC", "none", {})
<1>1. /\ pc[r] \in SubmitPCs /\ pc[r] # "idle"
      /\ call[r] \in Calls /\ call[r].origin # "OTHER" /\ EffectiveOrigin(call[r]) # "CHATGPT"
  BY DEF SubmitSynthetic, SubmitPCs, IInv, Control, ControlOf, ControlAt
<1>0. faults \in Nat
  BY DEF IInv, TypeOK
<1>2. ControlAt(r, "done") /\ ControlAt(r, "s_race")
  BY <1>1, HandlerControl, EndControl DEF SubmitPCs
<1>3. {"done", "s_race"} \subseteq PCs \ {"idle"}
  BY Positions DEF SubmitPCs
<1>4. answer \in Replies /\ answer.status # "ACCEPTED"
  <2>1. {} \in SUBSET (LeaseRows \cup ProposalRows \cup DeferralRows)
    OBVIOUS
  <2>2. "ACCEPTED_SYNTHETIC" \in Statuses /\ "none" \in Reasons
    BY DEF Statuses, Reasons
  <2> QED BY <2>1, <2>2, ReplyType
<1>5. ASSUME Goto(r, "s_race"), reply' = [reply EXCEPT ![r] = answer], faults' \in Nat,
             UNCHANGED <<db, clock, call, at, tries>>
      PROVE  IInv'
  <2>1. ControlOf(r)'
    BY <1>2, <1>5 DEF Goto, IInv, TypeOK, ControlOf, ControlAt, EffectiveOrigin
  <2> HIDE DEF answer
  <2>2. pc' = [pc EXCEPT ![r] = "s_race"]
    BY <1>5 DEF Goto
  <2> QED BY <1>1, <1>3, <1>4, <1>5, <2>1, <2>2, QuietStep
<1>6. CASE /\ InsertProposal(row)
           /\ leases' = leases \ LeaseOf(call[r].job)
           /\ events' = Append(events, OwnEvent(r, "SUBMIT_RECEIVED"))
           /\ CommitSeen(r, "done", "s_race")
           /\ reply' = [reply EXCEPT ![r] = answer]
           /\ UNCHANGED <<terminals, deferrals, issued, clock, call, at, tries>>
  <2>1. "none" \in Reasons
    BY DEF Reasons
  <2> HIDE DEF answer
  <2>2. /\ row \in ProposalRows /\ row.id = r /\ row.origin # "CHATGPT"
        /\ row.key = call[r].key /\ row.job = call[r].job
    BY <1>1, <2>1, RowType
  <2> HIDE DEF row
  <2>3. PICK where \in {"done", "s_race"} : pc' = [pc EXCEPT ![r] = where] /\ faults' \in Nat
    BY <1>6 DEF CommitSeen, Goto, IInv, TypeOK
  <2>4. events' \in Seq(EventRows)
    <3>1. call[r].owner \in Owners
      BY <1>1, ParameterAssumption DEF CallType, ClaimCalls, SubmitCalls, DeferCalls
    <3>2. OwnEvent(r, "SUBMIT_RECEIVED") \in EventRows
      BY <1>1, <3>1, EventsType DEF EventTypes
    <3> QED BY <3>2, <1>6 DEF IInv, TypeOK
  <2>5. Tables'
    <3>1. ~ Formal(row) /\ ProposalWithKey(row.key) = {} /\ proposals' = proposals \cup {row}
      BY <1>6, <2>2 DEF Formal, InsertProposal
    <3>2. \A s \in Requests : pc[s] # "idle" => pc'[s] # "idle"
      BY <2>3 DEF IInv, TypeOK
    <3>3. leases' \subseteq leases
      BY <1>6
    <3> QED BY <1>1, <1>6, <2>2, <3>1, <3>2, <3>3, ReleaseOrStore DEF IInv
  <2>6. /\ reply' \in [Requests -> Replies]
        /\ \A s \in Requests \ {r} : reply'[s] = reply[s]
        /\ reply'[r].status = "ACCEPTED" => reply[r].status = "ACCEPTED"
    BY <1>4, <1>6 DEF IInv, TypeOK
  <2>7. /\ leases' \subseteq leases
        /\ terminals' \subseteq TerminalRows /\ terminals \subseteq terminals'
        /\ proposals' \subseteq ProposalRows /\ deferrals' \subseteq DeferralRows
        /\ UNCHANGED <<clock, call, at, tries>> /\ UNCHANGED issued
    BY <1>6, <2>2 DEF InsertProposal, IInv, TypeOK
  <2> QED BY <1>1, <1>2, <1>3, <2>3, <2>4, <2>5, <2>6, <2>7, WriteStep
<1>7. CASE Decide(r, "s_race", answer)
  <2>1. faults' \in Nat
    BY <1>7 DEF Decide, IInv, TypeOK
  <2> QED BY <1>5, <1>7, <2>1 DEF Decide
<1>8. CASE /\ faults < MaxFaults /\ faults' = faults + 1
           /\ Goto(r, "s_race") /\ reply' = [reply EXCEPT ![r] = answer]
           /\ UNCHANGED <<db, clock, call, at, tries>>
  <2>1. faults' \in Nat
    BY <1>0, <1>8
  <2> QED BY <1>5, <1>8, <2>1
<1>9. [reply EXCEPT ![r] = answer][r] = answer
  BY DEF IInv, TypeOK
<1> QED BY <1>6, <1>7, <1>8, <1>9 DEF SubmitSynthetic

\* The formal acceptance keeps the tables related: its row is the job's first
\* formal proposal, and the one lease the job had is the one it releases.
LEMMA AcceptTables ==
    ASSUME IInv, NEW r \in Requests, NEW row \in ProposalRows,
           pc[r] # "idle", row.id = r, row.key = call[r].key, row.job = call[r].job,
           row.owner = call[r].owner, Formal(row),
           HoldsLease(call[r], at[r]), ~ Completed(call[r].job),
           InsertProposal(row),
           terminals' = terminals \cup {[job |-> call[r].job, id |-> r]},
           leases' = leases \ HeldLease(call[r], at[r]),
           UNCHANGED <<deferrals, issued, clock, call>>,
           \A s \in Requests : pc[s] # "idle" => pc'[s] # "idle"
    PROVE  Tables'
<1> DEFINE t0 == [job |-> call[r].job, id |-> r]
<1> USE DEF IInv
<1>1. ProposalWithKey(row.key) = {} /\ proposals' = proposals \cup {row}
  BY DEF InsertProposal
<1>2. t0.job = row.job /\ t0.id = r /\ terminals' = terminals \cup {t0}
  OBVIOUS
<1>3. PICK l \in leases : l.job = row.job /\ l.owner = row.owner /\ l.count = call[r].gen
                         /\ l.expires > at[r]
  BY DEF HoldsLease
<1>4. l \notin leases' /\ leases' \subseteq leases /\ l \in issued
  BY <1>3 DEF HeldLease, Tables, LeaseKey
<1>5. \A m \in leases' : m.job # row.job
  BY <1>3, <1>4 DEF Tables, LeaseKey
<1>6. \A t \in terminals : t.job # row.job
  BY DEF Completed
<1>7. t0 = [job |-> row.job, id |-> row.id]
  OBVIOUS
<1> HIDE DEF t0
<1>8. LeaseKey'
  BY <1>4 DEF Tables, LeaseKey
<1>9. ProposalKey'
  BY <1>1 DEF Tables, ProposalKey, ProposalWithKey, TypeOK, ProposalRows
<1>10. FormalIsTerminal'
  BY <1>1, <1>2, <1>7 DEF Tables, FormalIsTerminal, Formal
<1>11. TerminalKey'
  BY <1>2, <1>6 DEF Tables, TerminalKey
<1>12. CompletedJobIsClosed'
  <2> SUFFICES ASSUME NEW t \in terminals'
               PROVE  /\ LeaseOf(t.job)' = {}
                      /\ \E p \in proposals' :
                            /\ p.id = t.id /\ p.job = t.job /\ Formal(p)
                            /\ \E m \in issued : m.job = t.job /\ m.owner = p.owner
                                                 /\ m.count = call[p.id].gen
    BY DEF CompletedJobIsClosed, Formal
  <2>1. CASE t \in terminals
    <3>1. LeaseOf(t.job)' = {}
      BY <2>1, <1>4 DEF Tables, CompletedJobIsClosed, LeaseOf
    <3>2. proposals \subseteq proposals'
      BY <1>1
    <3> QED BY <2>1, <3>1, <3>2 DEF Tables, CompletedJobIsClosed
  <2>2. CASE t = t0
    <3>1. LeaseOf(t.job)' = {}
      BY <2>2, <1>2, <1>5 DEF LeaseOf
    <3>2. row \in proposals' /\ row.id = t.id /\ row.job = t.job
      BY <2>2, <1>1, <1>2
    <3>3. l.job = t.job /\ l.owner = row.owner /\ l.count = call[row.id].gen
      BY <2>2, <1>2, <1>3
    <3> QED BY <3>1, <3>2, <3>3, <1>4
  <2> QED BY <2>1, <2>2, <1>2
<1>13. DeferredJobIsFree'
  BY <1>4 DEF Tables, DeferredJobIsFree, LeaseOf
<1> QED BY <1>8, <1>9, <1>10, <1>11, <1>12, <1>13 DEF Tables

LEMMA SubmitAcceptStep ==
    ASSUME IInv, NEW r \in Requests, SubmitAccept(r)
    PROVE  IInv'
<1> DEFINE c == call[r]
           row == ProposalRow(r, "RECEIVED", "none")
           done == [job |-> c.job, id |-> r]
<1>1. /\ pc[r] \in SubmitPCs /\ pc[r] # "idle"
      /\ c \in Calls /\ c \in SubmitCalls
      /\ c.origin # "OTHER" /\ EffectiveOrigin(c) = "CHATGPT"
  BY DEF SubmitAccept, SubmitPCs, IInv, Control, ControlOf, ControlAt
<1>2. ControlAt(r, "s_verify") /\ ControlAt(r, "s_race")
  BY <1>1, HandlerControl DEF SubmitPCs
<1>3. {"s_verify", "s_race"} \subseteq PCs \ {"idle"}
  BY Positions DEF SubmitPCs
<1>4. CASE MoveOn(r, "s_race") \/ Throws(r, "s_race")
  BY <1>1, <1>2, <1>3, <1>4, MoveOnStep, ThrowsStep
<1>5. ASSUME CommitSeen(r, "s_verify", "s_race")
      PROVE  \E where \in {"s_verify", "s_race"} :
                pc' = [pc EXCEPT ![r] = where] /\ faults' \in Nat
  BY <1>5 DEF CommitSeen, Goto, IInv, TypeOK
<1>6. CASE /\ HoldsLease(c, at[r]) /\ ~ Completed(c.job)
           /\ InsertProposal(row)
           /\ terminals' = terminals \cup {done}
           /\ leases' = leases \ HeldLease(c, at[r])
           /\ events' = events \o <<OwnEvent(r, "SUBMIT_RECEIVED"), OwnEvent(r, "COMPLETED")>>
           /\ CommitSeen(r, "s_verify", "s_race")
           /\ UNCHANGED <<deferrals, issued, clock, call, at, tries, reply>>
  <2>1. "none" \in Reasons
    BY DEF Reasons
  <2>2. /\ row \in ProposalRows /\ row.id = r /\ row.origin = "CHATGPT" /\ row.status = "RECEIVED"
        /\ row.key = c.key /\ row.job = c.job
    BY <1>1, <2>1, RowType
  <2>3. row.owner = c.owner
    BY DEF ProposalRow
  <2> HIDE DEF row
  <2>4. PICK where \in {"s_verify", "s_race"} : pc' = [pc EXCEPT ![r] = where] /\ faults' \in Nat
    BY <1>5, <1>6
  <2>5. events' \in Seq(EventRows)
    <3>1. c.owner \in Owners
      BY <1>1 DEF SubmitCalls
    <3>2. OwnEvent(r, "SUBMIT_RECEIVED") \in EventRows /\ OwnEvent(r, "COMPLETED") \in EventRows
      BY <1>1, <3>1, EventsType DEF EventTypes
    <3> QED BY <3>2, <1>6 DEF IInv, TypeOK
  <2>6. Tables'
    <3>1. Formal(row)
      BY <2>2 DEF Formal
    <3>2. \A s \in Requests : pc[s] # "idle" => pc'[s] # "idle"
      BY <2>4 DEF IInv, TypeOK
    <3>3. UNCHANGED <<deferrals, issued, clock, call>>
      BY <1>6
    <3> QED BY <1>1, <1>6, <2>2, <2>3, <3>1, <3>2, <3>3, AcceptTables
  <2>7. done \in TerminalRows
    BY <1>1 DEF TerminalRows, SubmitCalls
  <2>8. /\ leases' \subseteq leases
        /\ terminals' \subseteq TerminalRows /\ terminals \subseteq terminals'
        /\ proposals' \subseteq ProposalRows /\ deferrals' \subseteq DeferralRows
        /\ UNCHANGED <<clock, call, at, tries>> /\ UNCHANGED issued
    BY <1>6, <2>2, <2>7 DEF InsertProposal, IInv, TypeOK
  <2>9. /\ reply' \in [Requests -> Replies]
        /\ \A s \in Requests \ {r} : reply'[s] = reply[s]
        /\ reply'[r].status = "ACCEPTED" => reply[r].status = "ACCEPTED"
    BY <1>6 DEF IInv, TypeOK
  <2> QED BY <1>1, <1>2, <1>3, <2>4, <2>5, <2>6, <2>8, <2>9, WriteStep
<1>7. CASE /\ leases' = leases \ HeldLease(c, at[r])
           /\ CommitSeen(r, "s_verify", "s_race")
           /\ UNCHANGED <<terminals, proposals, deferrals, events, issued,
                          clock, call, at, tries, reply>>
  <2>1. PICK where \in {"s_verify", "s_race"} : pc' = [pc EXCEPT ![r] = where] /\ faults' \in Nat
    BY <1>5, <1>7
  <2>2. \A s \in Requests : pc[s] # "idle" => pc'[s] # "idle"
    BY <2>1 DEF IInv, TypeOK
  <2>3. leases' \subseteq leases
    BY <1>7
  <2>4. Tables'
    BY <1>7, <2>2, <2>3, ReleaseOrStore DEF IInv
  <2>5. /\ terminals' \subseteq TerminalRows /\ terminals \subseteq terminals'
        /\ proposals' \subseteq ProposalRows /\ deferrals' \subseteq DeferralRows
        /\ UNCHANGED <<clock, call, at, tries>> /\ UNCHANGED issued
        /\ events' \in Seq(EventRows)
    BY <1>7 DEF IInv, TypeOK
  <2>6. /\ reply' \in [Requests -> Replies]
        /\ \A s \in Requests \ {r} : reply'[s] = reply[s]
        /\ reply'[r].status = "ACCEPTED" => reply[r].status = "ACCEPTED"
    BY <1>7 DEF IInv, TypeOK
  <2> QED BY <1>1, <1>2, <1>3, <2>1, <2>3, <2>4, <2>5, <2>6, WriteStep
<1> QED BY <1>4, <1>6, <1>7 DEF SubmitAccept

\* Deferral and release of the one lease the job had.
LEMMA DeferTables ==
    ASSUME IInv, NEW r \in Requests, NEW d \in DeferralRows, d.job = call[r].job,
           HoldsLease(call[r], at[r]),
           deferrals' = deferrals \cup {d},
           leases' = leases \ HeldLease(call[r], at[r]),
           UNCHANGED <<terminals, proposals, issued, clock, call>>,
           \A s \in Requests : pc[s] # "idle" => pc'[s] # "idle"
    PROVE  Tables'
<1> USE DEF IInv
<1>1. PICK l \in leases : l.job = d.job /\ l \in HeldLease(call[r], at[r])
  BY DEF HoldsLease, HeldLease
<1>2. leases' \subseteq leases /\ \A m \in leases' : m.job # d.job
  BY <1>1 DEF Tables, LeaseKey
<1>3. LeaseKey' /\ TerminalKey' /\ FormalIsTerminal'
  BY <1>2 DEF Tables, LeaseKey, TerminalKey, FormalIsTerminal, Formal
<1>4. ProposalKey'
  BY DEF Tables, ProposalKey, TypeOK, ProposalRows
<1>5. CompletedJobIsClosed'
  BY <1>2 DEF Tables, CompletedJobIsClosed, LeaseOf, Formal
<1>6. DeferredJobIsFree'
  BY <1>2 DEF Tables, DeferredJobIsFree, LeaseOf
<1> QED BY <1>3, <1>4, <1>5, <1>6 DEF Tables

LEMMA DeferBatchStep ==
    ASSUME IInv, NEW r \in Requests, DeferBatch(r)
    PROVE  IInv'
<1> DEFINE c == call[r]
           row == DeferralRow(c)
           answer == Reply("DEFERRED", "none", {row})
<1>1. /\ pc[r] \in DeferPCs /\ pc[r] # "idle" /\ c \in DeferCalls /\ c.key \in Keys
  BY DEF DeferBatch, DeferPCs, IInv, Control, ControlOf, ControlAt
<1>2. ControlAt(r, "done") /\ ControlAt(r, "d_race") /\ ControlAt(r, "d_key2")
  BY <1>1, HandlerControl, EndControl DEF DeferPCs
<1>3. {"done", "d_race", "d_key2"} \subseteq PCs \ {"idle"}
  BY Positions DEF DeferPCs
<1>4. CASE MoveOn(r, "d_race") \/ Throws(r, "d_race")
  BY <1>1, <1>2, <1>3, <1>4, MoveOnStep, ThrowsStep
<1>5. row \in DeferralRows /\ row.job = c.job
  BY <1>1 DEF DeferralRow, DeferralRows, DeferCalls
<1>6. answer \in Replies /\ answer.status # "ACCEPTED"
  <2>1. {row} \in SUBSET (LeaseRows \cup ProposalRows \cup DeferralRows)
    BY <1>5
  <2>2. "DEFERRED" \in Statuses /\ "none" \in Reasons
    BY DEF Statuses, Reasons
  <2> QED BY <2>1, <2>2, ReplyType
<1>7. faults \in Nat
  BY DEF IInv, TypeOK
<1>8. CASE /\ HoldsLease(c, at[r])
           /\ deferrals' = deferrals \cup {row}
           /\ leases' = leases \ HeldLease(c, at[r])
           /\ \/ Goto(r, "done") /\ faults' = faults
                 /\ reply' = [reply EXCEPT ![r] = answer]
              \/ faults < MaxFaults /\ faults' = faults + 1
                 /\ Goto(r, "d_race") /\ reply' = reply
           /\ UNCHANGED <<terminals, proposals, events, issued, clock, call, at, tries>>
  <2> HIDE DEF row, answer
  <2>1. PICK where \in {"done", "d_race"} : pc' = [pc EXCEPT ![r] = where] /\ faults' \in Nat
    BY <1>7, <1>8 DEF Goto
  <2>2. \A s \in Requests : pc[s] # "idle" => pc'[s] # "idle"
    BY <2>1 DEF IInv, TypeOK
  <2>3. Tables'
    BY <1>5, <1>8, <2>2, DeferTables
  <2>4. /\ reply' \in [Requests -> Replies]
        /\ \A s \in Requests \ {r} : reply'[s] = reply[s]
        /\ reply'[r].status = "ACCEPTED" => reply[r].status = "ACCEPTED"
    BY <1>6, <1>8 DEF IInv, TypeOK
  <2>5. /\ leases' \subseteq leases
        /\ terminals' \subseteq TerminalRows /\ terminals \subseteq terminals'
        /\ proposals' \subseteq ProposalRows /\ deferrals' \subseteq DeferralRows
        /\ UNCHANGED <<clock, call, at, tries>> /\ UNCHANGED issued
        /\ events' \in Seq(EventRows)
    BY <1>5, <1>8 DEF IInv, TypeOK
  <2> QED BY <1>1, <1>2, <1>3, <2>1, <2>3, <2>4, <2>5, WriteStep
<1>9. CASE /\ leases' = leases \ HeldLease(c, at[r])
           /\ CommitSeen(r, "d_key2", "d_race")
           /\ UNCHANGED <<terminals, proposals, deferrals, events, issued,
                          clock, call, at, tries, reply>>
  <2>1. PICK where \in {"d_key2", "d_race"} : pc' = [pc EXCEPT ![r] = where] /\ faults' \in Nat
    BY <1>7, <1>9 DEF CommitSeen, Goto
  <2>2. \A s \in Requests : pc[s] # "idle" => pc'[s] # "idle"
    BY <2>1 DEF IInv, TypeOK
  <2>3. leases' \subseteq leases
    BY <1>9
  <2>4. Tables'
    BY <1>9, <2>2, <2>3, ReleaseOrStore DEF IInv
  <2>5. /\ terminals' \subseteq TerminalRows /\ terminals \subseteq terminals'
        /\ proposals' \subseteq ProposalRows /\ deferrals' \subseteq DeferralRows
        /\ UNCHANGED <<clock, call, at, tries>> /\ UNCHANGED issued
        /\ events' \in Seq(EventRows)
    BY <1>9 DEF IInv, TypeOK
  <2>6. /\ reply' \in [Requests -> Replies]
        /\ \A s \in Requests \ {r} : reply'[s] = reply[s]
        /\ reply'[r].status = "ACCEPTED" => reply[r].status = "ACCEPTED"
    BY <1>9 DEF IInv, TypeOK
  <2> QED BY <1>1, <1>2, <1>3, <2>1, <2>3, <2>4, <2>5, <2>6, WriteStep
<1> QED BY <1>4, <1>8, <1>9 DEF DeferBatch

\* The row a claim attempt writes.
LEMMA PreemptingType ==
    ASSUME IInv, NEW r \in Requests, call[r] \in ClaimCalls, tries[r] < 2
    PROVE  /\ PreemptingLease(r) \in LeaseRows
           /\ PreemptingLease(r).job = call[r].job
           /\ \A l \in LeaseOf(call[r].job) : l.owner \in Owners
<1> DEFINE l0 == CHOOSE l \in LeaseOf(call[r].job) : TRUE
           count == IF LeaseOf(call[r].job) = {} THEN 1 ELSE l0.count + 1
<1>1. count \in Nat \ {0}
  <2>1. CASE LeaseOf(call[r].job) = {}
    BY <2>1
  <2>2. CASE LeaseOf(call[r].job) # {}
    <3>1. l0 \in LeaseOf(call[r].job)
      BY <2>2
    <3> HIDE DEF l0
    <3>2. l0.count \in Nat
      BY <3>1 DEF LeaseOf, IInv, TypeOK, LeaseRows
    <3> QED BY <2>2, <3>2
  <2> QED BY <2>1, <2>2
<1>2. at[r] + TTL \in Nat
  BY ParameterAssumption DEF IInv, TypeOK
<1>3. <<r, tries[r] + 1>> \in Tokens
  <2>1. tries[r] \in 0..2
    BY DEF IInv, TypeOK
  <2>2. tries[r] + 1 \in 1..2
    BY <2>1
  <2> QED BY <2>2 DEF Tokens
<1>4. call[r].job \in Jobs /\ call[r].owner \in Owners
  BY DEF ClaimCalls
<1>5. PreemptingLease(r) = [job |-> call[r].job, owner |-> call[r].owner,
                           token |-> <<r, tries[r] + 1>>, expires |-> at[r] + TTL,
                           count |-> count]
  BY DEF PreemptingLease
<1> HIDE DEF count
<1>6. PreemptingLease(r) \in LeaseRows
  BY <1>1, <1>2, <1>3, <1>4, <1>5 DEF LeaseRows
<1>7. PreemptingLease(r).job = call[r].job
  BY <1>5
<1>8. \A l \in LeaseOf(call[r].job) : l.owner \in Owners
  BY DEF IInv, TypeOK, LeaseOf, LeaseRows
<1> QED BY <1>6, <1>7, <1>8

LEMMA ClaimBatchStep ==
    ASSUME IInv, NEW r \in Requests, ClaimBatch(r)
    PROVE  IInv'
<1> DEFINE row == PreemptingLease(r)
           j == call[r].job
<1>1. /\ pc[r] \in ClaimPCs /\ pc[r] # "idle" /\ call[r] \in ClaimCalls /\ call[r] \in Calls
      /\ tries[r] < 2
  BY DEF ClaimBatch, ClaimPCs, IInv, Control, ControlOf, ControlAt
<1>2. row \in LeaseRows /\ row.job = j /\ \A l \in LeaseOf(j) : l.owner \in Owners
  BY <1>1, PreemptingType
<1>3. PreemptEvents(r) \in Seq(EventRows)
  <2>1. call[r].owner \in Owners
    BY <1>1 DEF ClaimCalls
  <2>2. OwnEvent(r, "CLAIMED") \in EventRows
    BY <1>1, <2>1, EventsType DEF EventTypes
  <2>3. CASE LeaseOf(j) = {}
    BY <2>2, <2>3 DEF PreemptEvents
  <2>4. CASE LeaseOf(j) # {}
    <3> DEFINE l0 == CHOOSE l \in LeaseOf(j) : TRUE
    <3>1. l0 \in LeaseOf(j)
      BY <2>4
    <3>2. l0.owner \in Owners
      BY <1>2, <3>1
    <3>3. Event(r, "LEASE_EXPIRED", l0.owner) \in EventRows
      BY <1>1, <3>2, EventsType DEF EventTypes
    <3>4. PreemptEvents(r) = <<Event(r, "LEASE_EXPIRED", l0.owner), OwnEvent(r, "CLAIMED")>>
      BY <2>4 DEF PreemptEvents
    <3> QED BY <2>2, <3>3, <3>4
  <2> QED BY <2>3, <2>4
<1> HIDE DEF row
<1>4. /\ pc' = [pc EXCEPT ![r] = "c_confirm"] /\ UNCHANGED <<clock, call, at>>
      /\ UNCHANGED <<terminals, proposals, deferrals, reply, faults>>
      /\ tries' = [tries EXCEPT ![r] = @ + 1]
  BY DEF ClaimBatch, Goto
<1>5. /\ tries' \in [Requests -> 0..2]
      /\ \A s \in Requests \ {r} : tries'[s] = tries[s]
  BY <1>1, <1>4 DEF IInv, TypeOK
<1>6. "c_confirm" \in PCs \ {"idle"}
  BY Positions DEF ClaimPCs
<1>7. ControlOf(r)'
  <2>1. pc'[r] = "c_confirm" /\ call'[r] = call[r]
    BY <1>4 DEF IInv, TypeOK
  <2> QED BY <2>1, <1>1 DEF ControlOf, ControlAt, ClaimPCs, SubmitPCs, DeferPCs
<1>8. /\ pc' \in [Requests -> PCs]
      /\ reply' \in [Requests -> Replies]
      /\ Control' /\ AtPast'
      /\ \A s \in Requests : pc'[s] # "idle" <=> pc[s] # "idle"
  <2>1. reply[r] \in Replies /\ reply' = [reply EXCEPT ![r] = reply[r]]
    BY <1>4 DEF IInv, TypeOK
  <2> QED BY <1>1, <1>4, <1>5, <1>6, <1>7, <2>1, OwnStep DEF IInv
<1>9. CASE UNCHANGED <<leases, issued, events>>
  <2>1. TypeOK'
    BY <1>4, <1>5, <1>8, <1>9 DEF IInv, TypeOK
  <2>2. Tables'
    <3>1. \A p \in proposals : call'[p.id] = call[p.id] /\ pc'[p.id] # "idle"
      BY <1>4, <1>8 DEF IInv, Tables, ProposalKey, TypeOK, ProposalRows
    <3>2. clock' \in Nat /\ clock <= clock'
      BY <1>4 DEF IInv, TypeOK
    <3> QED BY <1>4, <1>9, <3>1, <3>2, TablesStable DEF IInv
  <2>3. AcceptedRow'
    BY <1>4, <1>8 DEF IInv, AcceptedRow
  <2> QED BY <1>8, <2>1, <2>2, <2>3 DEF IInv
<1>10. CASE /\ MayPreempt(r)
            /\ leases' = (leases \ LeaseOf(j)) \cup {row}
            /\ issued' = issued \cup {row}
            /\ events' = events \o PreemptEvents(r)
  <2>1. TypeOK'
    <3>1. events' \in Seq(EventRows)
      BY <1>3, <1>10 DEF IInv, TypeOK
    <3> QED BY <1>2, <1>4, <1>5, <1>8, <1>10, <3>1 DEF IInv, TypeOK
  <2>2. Tables'
    <3> USE DEF IInv
    <3>1. LeaseKey'
      BY <1>2, <1>10 DEF Tables, LeaseKey, LeaseOf
    <3>2. ProposalKey' /\ FormalIsTerminal' /\ TerminalKey'
      BY <1>4, <1>8 DEF Tables, ProposalKey, FormalIsTerminal, TerminalKey, Formal,
                        TypeOK, ProposalRows
    <3>3. CompletedJobIsClosed'
      <4>1. \A t \in terminals : t.job # j
        BY <1>10 DEF MayPreempt, Completed
      <4> QED BY <1>2, <1>4, <1>10, <4>1 DEF Tables, CompletedJobIsClosed, LeaseOf, Formal
    <3>4. DeferredJobIsFree'
      <4>1. \A d \in deferrals : d.recheck > clock => d.job # j
        <5> SUFFICES ASSUME NEW d \in deferrals, d.recheck > clock, d.job = j PROVE FALSE
          OBVIOUS
        <5>1. at[r] <= clock /\ at[r] \in Nat /\ clock \in Nat /\ d.recheck \in Nat
          BY DEF AtPast, TypeOK, DeferralRows
        <5>2. d.recheck > at[r]
          BY <5>1
        <5> QED BY <5>2, <1>10 DEF MayPreempt, DeferredAt
      <4> QED BY <1>2, <1>4, <1>10, <4>1 DEF Tables, DeferredJobIsFree, LeaseOf
    <3> QED BY <3>1, <3>2, <3>3, <3>4 DEF Tables
  <2>3. AcceptedRow'
    BY <1>4, <1>8 DEF IInv, AcceptedRow
  <2> QED BY <1>8, <2>1, <2>2, <2>3 DEF IInv
<1> QED BY <1>9, <1>10 DEF ClaimBatch, row

----------------------------------------------------------------------------
(* The invariant *)

LEMMA InitIInv == Init => IInv
<1> SUFFICES ASSUME Init PROVE IInv
  OBVIOUS
<1> USE DEF Init
<1>1. TypeOK
  <2>1. NoReply \in Replies
    BY DEF NoReply, Reply, Replies, Statuses, Reasons
  <2>2. events \in Seq(EventRows)
    OBVIOUS
  <2> HIDE DEF NoReply
  <2> QED BY <2>1, <2>2 DEF TypeOK, PCs
<1>2. Control /\ AtPast /\ AcceptedRow
  BY DEF Control, ControlOf, ControlAt, ClaimPCs, SubmitPCs, DeferPCs, AtPast, AcceptedRow,
         NoReply, Reply
<1>3. Tables
  BY DEF Tables, LeaseKey, ProposalKey, FormalIsTerminal, TerminalKey, CompletedJobIsClosed,
         DeferredJobIsFree
<1> QED BY <1>1, <1>2, <1>3 DEF IInv

LEMMA StutterStep == ASSUME IInv, UNCHANGED vars PROVE IInv'
<1> USE DEF IInv, vars
<1>1. TypeOK' /\ Control' /\ AtPast' /\ AcceptedRow'
  BY DEF TypeOK, Control, ControlOf, ControlAt, AtPast, AcceptedRow, EffectiveOrigin
<1>2. Tables'
  <2>1. \A p \in proposals : call'[p.id] = call[p.id] /\ pc'[p.id] # "idle"
    BY DEF Tables, ProposalKey
  <2>2. clock' \in Nat /\ clock <= clock'
    BY DEF TypeOK
  <2> QED BY <2>1, <2>2, TablesStable
<1> QED BY <1>1, <1>2

LEMMA NextIInv == IInv /\ [Next]_vars => IInv'
<1> SUFFICES ASSUME IInv, [Next]_vars PROVE IInv'
  OBVIOUS
<1>1. CASE UNCHANGED vars
  BY <1>1, StutterStep
<1>2. CASE Tick
  BY <1>2, TickStep
<1>3. ASSUME NEW r \in Requests, NEW c \in Calls, Start(r, c) PROVE IInv'
  BY <1>3, StartStep
<1>4. ASSUME NEW r \in Requests, Claim(r) PROVE IInv'
  BY <1>4, ClaimReads, AuditStep, ClaimBatchStep DEF Claim
<1>5. ASSUME NEW r \in Requests, Submit(r) PROVE IInv'
  BY <1>5, SubmitReads, AuditStep, SubmitRejectStep, SubmitAcceptStep, SubmitSyntheticStep
     DEF Submit
<1>6. ASSUME NEW r \in Requests, Defer(r) PROVE IInv'
  BY <1>6, DeferReads, DeferBatchStep DEF Defer
<1>7. ASSUME NEW r \in Requests, Fail(r) PROVE IInv'
  BY <1>7, FailStep
<1> QED BY <1>1, <1>2, <1>3, <1>4, <1>5, <1>6, <1>7 DEF Next

LEMMA SpecIInv == Spec => []IInv
BY InitIInv, NextIInv, PTL DEF Spec

----------------------------------------------------------------------------
(* Results *)

\* Every table keeps its shape under every interleaving of handlers: the steps
\* of claimResearchJob, submitResearchResultProposal and deferResearchJob.
THEOREM TypeCorrect == Spec => []TypeOK
<1>1. IInv => TypeOK
  BY DEF IInv
<1> QED BY <1>1, SpecIInv, PTL

\* At most one formal result per job (the one-formal-result rule of
\* submitResearchResultProposal and its partial unique index).
THEOREM AtMostOneFormalResult == Spec => []OneFormalResult
<1>1. IInv => OneFormalResult
  <2> SUFFICES ASSUME IInv, NEW p \in proposals, NEW q \in proposals,
                      Formal(p), Formal(q), p.job = q.job
               PROVE  p = q
    BY DEF OneFormalResult
  <2>1. /\ [job |-> p.job, id |-> p.id] \in terminals
        /\ [job |-> q.job, id |-> q.id] \in terminals
    BY DEF IInv, Tables, FormalIsTerminal
  <2>2. p.id = q.id
    BY <2>1 DEF IInv, Tables, TerminalKey
  <2>3. p.key = q.key
    BY <2>2 DEF IInv, Tables, ProposalKey
  <2> QED BY <2>3 DEF IInv, Tables, ProposalKey
<1> QED BY <1>1, SpecIInv, PTL

\* A completed job has its accepted proposal, filed by an owner who held the
\* generation it quoted, and no lease: neither the formal batch nor a claim
\* that started before it can leave one behind.
THEOREM CompletedJobStaysClosed == Spec => []CompletedJobIsClosed
<1>1. IInv => CompletedJobIsClosed
  BY DEF IInv, Tables
<1> QED BY <1>1, SpecIInv, PTL

\* An ACCEPTED verdict is never withdrawn: the terminal row and the proposal it
\* names are the answering request's.
THEOREM AcceptedStaysDurable == Spec => []AcceptedIsDurable
<1>1. IInv => AcceptedIsDurable
  <2> SUFFICES ASSUME IInv, NEW r \in Requests, pc[r] = "done", reply[r].status = "ACCEPTED"
               PROVE  /\ [job |-> call[r].job, id |-> r] \in terminals
                      /\ \E p \in proposals : p.id = r /\ p.key = call[r].key /\ Formal(p)
    BY DEF AcceptedIsDurable
  <2>1. [job |-> call[r].job, id |-> r] \in terminals
    BY DEF IInv, AcceptedRow
  <2>2. PICK p \in proposals : p.id = r /\ Formal(p)
    BY <2>1 DEF IInv, Tables, CompletedJobIsClosed
  <2>3. p.key = call[r].key
    BY <2>2 DEF IInv, Tables, ProposalKey
  <2> QED BY <2>1, <2>2, <2>3
<1> QED BY <1>1, SpecIInv, PTL

\* While a deferral is active its job has no lease: the claim batch repeats the
\* deferral predicate, at a time the claim captured no later than now.
THEOREM DeferredJobStaysFree == Spec => []DeferredJobIsFree
<1>1. IInv => DeferredJobIsFree
  BY DEF IInv, Tables
<1> QED BY <1>1, SpecIInv, PTL

----------------------------------------------------------------------------
(* Fencing, when every caller is a formal owner *)

\* With formal owners only, a submit that passes its structural checks files a
\* formal result, so the unfenced release of a synthetic one is never reached.
FormalOnly == \A r \in Requests : /\ pc[r] # "s_synthetic"
                                  /\ pc[r] = "s_lease" => ~ StructureFailed(call[r])

FormalCalls == \A r \in Requests : pc[r] # "idle" => call[r].owner \in FormalOwners

LEMMA FormalOnlyStep ==
    ASSUME FormalCalls, IInv, FormalOnly, [Next]_vars
    PROVE  FormalOnly'
<1>1. ASSUME NEW r \in Requests, NEW where \in PCs \ {"s_synthetic", "s_lease"},
             pc' = [pc EXCEPT ![r] = where],
             \A s \in Requests \ {r} : call'[s] = call[s]
      PROVE  FormalOnly'
  BY <1>1 DEF FormalOnly, IInv, TypeOK, StructureFailed
<1>2. CASE UNCHANGED vars \/ Tick
  BY <1>2 DEF vars, Tick, FormalOnly, StructureFailed
<1>3. ASSUME NEW r \in Requests, NEW c \in Calls, Start(r, c) PROVE FormalOnly'
  <2>1. FirstAwait(c) \in {"c_terminal", "s_key", "d_key"}
    BY CallShapes DEF FirstAwait
  <2>2. {"c_terminal", "s_key", "d_key", "done"} \subseteq PCs \ {"s_synthetic", "s_lease"}
    BY DEF PCs
  <2>3. PICK where \in {FirstAwait(c), "done"} : /\ pc' = [pc EXCEPT ![r] = where]
                                                 /\ call' = [call EXCEPT ![r] = c]
    BY <1>3 DEF Start, Enter, Goto
  <2>4. where \in PCs \ {"s_synthetic", "s_lease"}
    BY <2>1, <2>2
  <2>5. \A s \in Requests \ {r} : call'[s] = call[s]
    BY <2>3 DEF IInv, TypeOK
  <2> QED BY <1>1, <2>3, <2>4, <2>5
<1>4. ASSUME NEW r \in Requests, NEW where \in PCs \ {"s_synthetic", "s_lease"},
             Goto(r, where), UNCHANGED call
      PROVE  FormalOnly'
  BY <1>1, <1>4 DEF Goto
<1>5. (ClaimPCs \cup SubmitPCs \cup DeferPCs \cup {"done", "error"}) \ {"s_synthetic", "s_lease"}
          \subseteq PCs \ {"s_synthetic", "s_lease"}
  BY Positions
<1>6. ASSUME NEW r \in Requests, Claim(r) PROVE FormalOnly'
  <2>1. \E where \in ClaimPCs \cup {"done", "error"} : Goto(r, where) /\ UNCHANGED call
    BY <1>6 DEF Claim, ClaimTerminal, ClaimDenied, ClaimDeferral, ClaimBatch, ClaimConfirm,
                ClaimTerminal2, ClaimDeferral2, ClaimCurrent, MoveOn, Answer, Decide, ClaimPCs
  <2> QED BY <2>1, <1>4, <1>5 DEF ClaimPCs
<1>7. ASSUME NEW r \in Requests, Defer(r) PROVE FormalOnly'
  <2>1. \E where \in DeferPCs \cup {"done", "error"} : Goto(r, where) /\ UNCHANGED call
    <3>1. ASSUME DeferKey(r) \/ DeferJob(r) \/ DeferRace(r) \/ DeferKey2(r) \/ DeferJob2(r)
                 \/ DeferTerminal(r) \/ DeferLease(r) PROVE \E where \in DeferPCs \cup {"done", "error"} : Goto(r, where) /\ UNCHANGED call
      BY <3>1 DEF DeferKey, DeferJob, DeferRace, DeferKey2, DeferJob2, DeferTerminal, DeferLease,
                  ReplayDeferral, MoveOn, Answer, Decide, DeferPCs
    <3>2. ASSUME DeferBatch(r) PROVE \E where \in DeferPCs \cup {"done", "error"} : Goto(r, where) /\ UNCHANGED call
      BY <3>2 DEF DeferBatch, CommitSeen, Throws, MoveOn, DeferPCs
    <3>3. ASSUME DeferStatusTerminal(r) \/ DeferStatusLease(r) \/ DeferStatusDeferral(r)
          PROVE  \E where \in DeferPCs \cup {"done", "error"} : Goto(r, where) /\ UNCHANGED call
      BY <3>3 DEF DeferStatusTerminal, DeferStatusLease, DeferStatusDeferral, WithStatus,
                  MoveOn, Answer, Decide, DeferPCs
    <3> QED BY <1>7, <3>1, <3>2, <3>3 DEF Defer
  <2> QED BY <2>1, <1>4, <1>5 DEF DeferPCs
<1>8. ASSUME NEW r \in Requests, Fail(r) PROVE FormalOnly'
  <2>1. Goto(r, "error") /\ UNCHANGED call
    BY <1>8 DEF Fail, Throws
  <2> QED BY <2>1, <1>4, <1>5
<1>9. ASSUME NEW r \in Requests, Submit(r) PROVE FormalOnly'
  <2> DEFINE Away == \E where \in (SubmitPCs \cup {"done", "error"}) \ {"s_synthetic", "s_lease"} :
                        Goto(r, where) /\ UNCHANGED call
  <2>1. ASSUME Away PROVE FormalOnly'
    BY <2>1, <1>4, <1>5
  <2>2. ASSUME NEW p, AnswerExisting(r, p) PROVE Away
    BY <2>2 DEF AnswerExisting, Answer, Decide, SubmitPCs
  <2>3. CASE SubmitKey(r)
    <3>1. CASE ~ StructureFailed(call[r]) /\ MoveOn(r, "s_lease")
      <4>1. pc' = [pc EXCEPT ![r] = "s_lease"] /\ call' = call
        BY <3>1 DEF MoveOn, Goto
      <4>2. \A s \in Requests : pc'[s] = IF s = r THEN "s_lease" ELSE pc[s]
        BY <4>1 DEF IInv, TypeOK
      <4>3. ASSUME NEW s \in Requests PROVE pc'[s] # "s_synthetic"
        BY <4>2 DEF FormalOnly
      <4>4. ASSUME NEW s \in Requests, pc'[s] = "s_lease" PROVE ~ StructureFailed(call[s])
        <5>1. CASE s = r
          BY <5>1, <3>1
        <5>2. CASE s # r
          BY <4>2, <4>4, <5>2 DEF FormalOnly
        <5> QED BY <5>1, <5>2
      <4>5. \A s \in Requests : StructureFailed(call[s])' = StructureFailed(call[s])
        BY <4>1 DEF StructureFailed
      <4> QED BY <4>3, <4>4, <4>5 DEF FormalOnly
    <3>2. CASE \/ Answer(r, Rejected("VALIDATION_FAILED"))
               \/ Decide(r, "s_reject", Rejected("VALIDATION_FAILED"))
      BY <2>1, <3>2 DEF Answer, Decide, SubmitPCs
    <3> QED BY <2>1, <2>2, <2>3, <3>1, <3>2 DEF SubmitKey
  <2>4. CASE SubmitLease(r)
    <3>1. call[r] \in SubmitCalls /\ ~ StructureFailed(call[r])
      BY <2>4 DEF SubmitLease, FormalOnly, IInv, Control, ControlOf, ControlAt, SubmitPCs
    <3>2. call[r].owner \in FormalOwners
      BY <2>4 DEF SubmitLease, FormalCalls
    <3>3. EffectiveOrigin(call[r]) = "CHATGPT"
      BY <3>1, <3>2 DEF EffectiveOrigin, StructureFailed, SubmitCalls
    <3> QED BY <2>1, <2>4, <3>3 DEF SubmitLease, Decide, MoveOn, SubmitPCs
  <2>5. CASE SubmitSynthetic(r)
    <3>1. pc[r] = "s_synthetic"
      BY <2>5 DEF SubmitSynthetic
    <3> QED BY <3>1 DEF FormalOnly
  <2>6. CASE SubmitConflict(r) \/ SubmitFormal(r) \/ SubmitVerify(r) \/ SubmitMatch(r)
             \/ SubmitTerminal(r)
    BY <2>1, <2>6 DEF SubmitConflict, SubmitFormal, SubmitVerify, SubmitMatch, SubmitTerminal,
                      Answer, Decide, MoveOn, SubmitPCs
  <2>7. CASE SubmitReject(r)
    BY <2>1, <2>7 DEF SubmitReject, CommitSeen, MoveOn, Throws, SubmitPCs
  <2>8. CASE SubmitAccept(r)
    BY <2>1, <2>8 DEF SubmitAccept, CommitSeen, MoveOn, Throws, SubmitPCs
  <2>9. CASE SubmitRace(r)
    BY <2>1, <2>2, <2>9 DEF SubmitRace, MoveOn, Throws, SubmitPCs
  <2> QED BY <1>9, <2>3, <2>4, <2>5, <2>6, <2>7, <2>8, <2>9 DEF Submit
<1> QED BY <1>2, <1>3, <1>6, <1>7, <1>8, <1>9 DEF Next

\* The step form of the property: which requests may end a live lease.
HolderReleases ==
    \A l \in leases :
        l.expires > clock /\ l \notin leases' =>
            \E r \in Requests : pc'[r] # pc[r] /\ call[r].owner = l.owner

LEMMA HolderReleasesStep ==
    ASSUME IInv, FormalOnly, [Next]_vars
    PROVE  HolderReleases
<1>1. ASSUME leases \subseteq leases' PROVE HolderReleases
  BY <1>1 DEF HolderReleases
<1>2. ASSUME NEW r \in Requests, leases \ HeldLease(call[r], at[r]) \subseteq leases', pc'[r] # pc[r]
      PROVE  HolderReleases
  BY <1>2 DEF HolderReleases, HeldLease
<1>3. CASE UNCHANGED vars \/ Tick
  BY <1>1, <1>3 DEF vars, Tick, db
<1>4. ASSUME NEW r \in Requests, NEW c \in Calls, Start(r, c) PROVE HolderReleases
  BY <1>1, <1>4 DEF Start, Enter, db
<1>5. ASSUME NEW r \in Requests, Fail(r) PROVE HolderReleases
  BY <1>1, <1>5 DEF Fail, Throws, db
<1>6. ASSUME NEW r \in Requests, ClaimBatch(r) PROVE HolderReleases
  <2>1. CASE UNCHANGED leases
    BY <1>1, <2>1
  <2>2. CASE MayPreempt(r) /\ leases' = (leases \ LeaseOf(call[r].job)) \cup {PreemptingLease(r)}
    <3> SUFFICES ASSUME NEW l \in leases, l.expires > clock, l \notin leases' PROVE FALSE
      BY DEF HolderReleases
    <3>1. l.expires <= at[r]
      BY <2>2 DEF MayPreempt
    <3>2. at[r] <= clock /\ at[r] \in Nat /\ clock \in Nat /\ l.expires \in Nat
      BY DEF IInv, AtPast, TypeOK, LeaseRows
    <3> QED BY <3>1, <3>2
  <2> QED BY <1>6, <2>1, <2>2 DEF ClaimBatch
<1>7. ASSUME NEW r \in Requests, Claim(r) PROVE HolderReleases
  <2>1. CASE \/ ClaimTerminal(r) \/ ClaimDenied(r) \/ ClaimDeferral(r) \/ ClaimConfirm(r)
             \/ ClaimTerminal2(r) \/ ClaimDeferral2(r) \/ ClaimCurrent(r)
    BY <1>1, <2>1 DEF ClaimTerminal, ClaimDenied, ClaimDeferral, ClaimConfirm, ClaimTerminal2,
                      ClaimDeferral2, ClaimCurrent, MoveOn, Answer, Decide, db
  <2> QED BY <1>6, <1>7, <2>1 DEF Claim
<1>8. ASSUME NEW r \in Requests, Submit(r) PROVE HolderReleases
  <2>1. CASE \/ SubmitKey(r) \/ SubmitConflict(r) \/ SubmitLease(r) \/ SubmitFormal(r)
             \/ SubmitVerify(r) \/ SubmitMatch(r) \/ SubmitRace(r) \/ SubmitTerminal(r)
    BY <1>1, <2>1 DEF SubmitKey, SubmitConflict, SubmitLease, SubmitFormal, SubmitVerify,
                      SubmitMatch, SubmitRace, SubmitTerminal, AnswerExisting, MoveOn, Answer,
                      Decide, Throws, db
  <2>2. CASE SubmitReject(r)
    BY <1>1, <2>2 DEF SubmitReject, MoveOn, Throws, db
  <2>3. CASE SubmitAccept(r)
    <3>1. CASE MoveOn(r, "s_race") \/ Throws(r, "s_race")
      BY <1>1, <3>1 DEF MoveOn, Throws, db
    <3>2. CASE leases' = leases \ HeldLease(call[r], at[r]) /\ CommitSeen(r, "s_verify", "s_race")
      <4>1. pc[r] = "s_accept" /\ pc'[r] \in {"s_verify", "s_race"}
        BY <2>3, <3>2 DEF SubmitAccept, CommitSeen, Goto, IInv, TypeOK
      <4> QED BY <1>2, <3>2, <4>1
    <3> QED BY <2>3, <3>1, <3>2 DEF SubmitAccept
  <2>4. CASE SubmitSynthetic(r)
    <3>1. pc[r] = "s_synthetic"
      BY <2>4 DEF SubmitSynthetic
    <3> QED BY <3>1 DEF FormalOnly
  <2> QED BY <1>8, <2>1, <2>2, <2>3, <2>4 DEF Submit
<1>9. ASSUME NEW r \in Requests, Defer(r) PROVE HolderReleases
  <2>1. CASE \/ DeferKey(r) \/ DeferJob(r) \/ DeferRace(r) \/ DeferKey2(r) \/ DeferJob2(r)
             \/ DeferTerminal(r) \/ DeferLease(r) \/ DeferStatusTerminal(r)
             \/ DeferStatusLease(r) \/ DeferStatusDeferral(r)
    BY <1>1, <2>1 DEF DeferKey, DeferJob, DeferRace, DeferKey2, DeferJob2, DeferTerminal,
                      DeferLease, DeferStatusTerminal, DeferStatusLease, DeferStatusDeferral,
                      ReplayDeferral, WithStatus, MoveOn, Answer, Decide, db
  <2>2. CASE DeferBatch(r)
    <3>1. CASE MoveOn(r, "d_race") \/ Throws(r, "d_race")
      BY <1>1, <3>1 DEF MoveOn, Throws, db
    <3>2. CASE /\ leases' = leases \ HeldLease(call[r], at[r])
               /\ Goto(r, "done") \/ Goto(r, "d_race") \/ Goto(r, "d_key2")
      <4>1. pc[r] = "d_batch" /\ pc'[r] \in {"done", "d_race", "d_key2"}
        BY <2>2, <3>2 DEF DeferBatch, Goto, IInv, TypeOK
      <4> QED BY <1>2, <3>2, <4>1
    <3> QED BY <2>2, <3>1, <3>2 DEF DeferBatch, CommitSeen
  <2> QED BY <1>9, <2>1, <2>2 DEF Defer
<1> QED BY <1>3, <1>4, <1>5, <1>7, <1>8, <1>9 DEF Next

\* When every principal is a formal owner, a lease that is still live ends only
\* by a step of its own holder's submit or defer (the owner and generation
\* predicates of the release statements, and the expiry predicate of the claim).
THEOREM LiveLeaseIsFenced ==
    FormalOwners = Owners => (Spec => LiveLeaseOnlyReleasedByHolder)
<1> SUFFICES ASSUME FormalOwners = Owners PROVE Spec => LiveLeaseOnlyReleasedByHolder
  OBVIOUS
<1>1. Init => FormalOnly
  BY DEF Init, FormalOnly
<1>2. IInv /\ FormalOnly /\ [Next]_vars => FormalOnly'
  <2>1. ASSUME IInv PROVE FormalCalls
    BY <2>1, ParameterAssumption DEF FormalCalls, IInv, Control, ControlOf, ControlAt,
                                     CallType, ClaimCalls, SubmitCalls, DeferCalls
  <2> QED BY <2>1, FormalOnlyStep
<1>3. IInv /\ FormalOnly /\ [Next]_vars =>
        [\A l \in leases :
            l.expires > clock /\ l \notin leases' =>
                \E r \in Requests : pc'[r] # pc[r] /\ call[r].owner = l.owner]_vars
  BY HolderReleasesStep DEF HolderReleases
<1> QED BY <1>1, <1>2, <1>3, SpecIInv, PTL DEF Spec, LiveLeaseOnlyReleasedByHolder
----------------------------------------------------------------------------
(* Replays *)

\* A step of request r is its own: it leaves every other request's answer, every
\* call and every stored proposal alone.
OwnStepOf(r) ==
    /\ \E where \in PCs \ {"idle"} : Goto(r, where)
    /\ UNCHANGED call
    /\ proposals \subseteq proposals'
    /\ \A s \in Requests \ {r} : reply'[s] = reply[s]

LEMMA ClaimIsOwn == ASSUME TypeOK, NEW r \in Requests, Claim(r) PROVE OwnStepOf(r)
<1>1. \E where \in ClaimPCs \cup {"done", "error"} : Goto(r, where) /\ UNCHANGED call
  BY DEF Claim, ClaimTerminal, ClaimDenied, ClaimDeferral, ClaimBatch, ClaimConfirm,
         ClaimTerminal2, ClaimDeferral2, ClaimCurrent, MoveOn, Answer, Decide, ClaimPCs
<1>2. proposals' = proposals /\ \A s \in Requests \ {r} : reply'[s] = reply[s]
  BY DEF Claim, ClaimTerminal, ClaimDenied, ClaimDeferral, ClaimBatch, ClaimConfirm,
         ClaimTerminal2, ClaimDeferral2, ClaimCurrent, MoveOn, Answer, Decide, db, TypeOK
<1> QED BY <1>1, <1>2, Positions DEF OwnStepOf

LEMMA FailIsOwn == ASSUME NEW r \in Requests, Fail(r) PROVE OwnStepOf(r)
<1>1. Goto(r, "error") /\ UNCHANGED <<call, reply, proposals>>
  BY DEF Fail, Throws, db
<1> QED BY <1>1, Positions DEF OwnStepOf

LEMMA DeferIsOwn == ASSUME TypeOK, NEW r \in Requests, Defer(r) PROVE OwnStepOf(r)
<1>0. ASSUME \E where \in DeferPCs \cup {"done", "error"} : Goto(r, where),
             UNCHANGED <<call, proposals>>, \A s \in Requests \ {r} : reply'[s] = reply[s]
      PROVE  OwnStepOf(r)
  BY <1>0, Positions DEF OwnStepOf
<1>1. CASE \/ DeferKey(r) \/ DeferJob(r) \/ DeferRace(r) \/ DeferKey2(r) \/ DeferJob2(r)
           \/ DeferTerminal(r) \/ DeferLease(r)
  <2>1. \E where \in DeferPCs \cup {"done", "error"} : Goto(r, where)
    BY <1>1 DEF DeferKey, DeferJob, DeferRace, DeferKey2, DeferJob2, DeferTerminal, DeferLease,
                ReplayDeferral, MoveOn, Answer, Decide, DeferPCs
  <2>2. UNCHANGED <<call, proposals>> /\ \A s \in Requests \ {r} : reply'[s] = reply[s]
    BY <1>1 DEF DeferKey, DeferJob, DeferRace, DeferKey2, DeferJob2, DeferTerminal, DeferLease,
                ReplayDeferral, MoveOn, Answer, Decide, db, TypeOK
  <2> QED BY <1>0, <2>1, <2>2
<1>2. CASE DeferStatusTerminal(r) \/ DeferStatusLease(r) \/ DeferStatusDeferral(r)
  <2>1. \E where \in DeferPCs \cup {"done", "error"} : Goto(r, where)
    BY <1>2 DEF DeferStatusTerminal, DeferStatusLease, DeferStatusDeferral, WithStatus,
                MoveOn, Answer, Decide, DeferPCs
  <2>2. UNCHANGED <<call, proposals>> /\ \A s \in Requests \ {r} : reply'[s] = reply[s]
    BY <1>2 DEF DeferStatusTerminal, DeferStatusLease, DeferStatusDeferral, WithStatus,
                MoveOn, Answer, Decide, db, TypeOK
  <2> QED BY <1>0, <2>1, <2>2
<1>3. CASE DeferBatch(r)
  <2>1. \E where \in DeferPCs \cup {"done", "error"} : Goto(r, where)
    BY <1>3 DEF DeferBatch, CommitSeen, Throws, MoveOn, DeferPCs
  <2>2. UNCHANGED <<call, proposals>> /\ \A s \in Requests \ {r} : reply'[s] = reply[s]
    BY <1>3 DEF DeferBatch, CommitSeen, Throws, MoveOn, db, TypeOK
  <2> QED BY <1>0, <2>1, <2>2
<1> QED BY <1>1, <1>2, <1>3 DEF Defer

\* A submit either leaves its answer, or answers with what is no replay, or with
\* the stored row of its key.
NoReplay(r) == reply'[r] = reply[r] \/ reply'[r].status # "IDEMPOTENT_REPLAY"

LEMMA SubmitIsOwn ==
    ASSUME TypeOK, NEW r \in Requests, Submit(r)
    PROVE  /\ OwnStepOf(r)
           /\ NoReplay(r) \/ \E p \in ProposalWithKey(call[r].key) : AnswerExisting(r, p)
<1>0. ASSUME \E where \in SubmitPCs \cup {"done", "error"} : Goto(r, where),
             UNCHANGED call, proposals \subseteq proposals',
             \A s \in Requests \ {r} : reply'[s] = reply[s]
      PROVE  OwnStepOf(r)
  BY <1>0, Positions DEF OwnStepOf
<1>1. ASSUME NEW where \in SubmitPCs \cup {"done", "error"}, MoveOn(r, where) \/ Throws(r, where)
      PROVE  OwnStepOf(r) /\ NoReplay(r)
  BY <1>0, <1>1 DEF MoveOn, Throws, db, NoReplay
<1>2. ASSUME NEW where \in SubmitPCs \cup {"done", "error"}, NEW status,
             status # "IDEMPOTENT_REPLAY", NEW reason, Decide(r, where, Reply(status, reason, {}))
      PROVE  OwnStepOf(r) /\ NoReplay(r)
  <2>1. Reply(status, reason, {}).status # "IDEMPOTENT_REPLAY"
    BY <1>2 DEF Reply
  <2>2. reply'[r] = Reply(status, reason, {}) /\ \A s \in Requests \ {r} : reply'[s] = reply[s]
    BY <1>2 DEF Decide, TypeOK
  <2>3. Goto(r, where) /\ UNCHANGED <<call, proposals>>
    BY <1>2 DEF Decide, db
  <2> QED BY <1>0, <2>1, <2>2, <2>3 DEF NoReplay
<1>3. ASSUME NEW p, AnswerExisting(r, p)
      PROVE  OwnStepOf(r)
  <2>1. \E where \in SubmitPCs \cup {"done", "error"} : Goto(r, where)
    BY <1>3 DEF AnswerExisting, Answer, Decide, SubmitPCs
  <2>2. UNCHANGED <<call, proposals>> /\ \A s \in Requests \ {r} : reply'[s] = reply[s]
    BY <1>3 DEF AnswerExisting, Answer, Decide, db, TypeOK
  <2> QED BY <1>0, <2>1, <2>2
<1>4. CASE SubmitKey(r)
  BY <1>1, <1>2, <1>3, <1>4 DEF SubmitKey, Answer, Rejected, SubmitPCs
<1>5. CASE SubmitLease(r) \/ SubmitFormal(r)
  BY <1>1, <1>2, <1>5 DEF SubmitLease, SubmitFormal, Rejected, SubmitPCs
<1>6. CASE SubmitVerify(r) \/ SubmitMatch(r) \/ SubmitTerminal(r)
  BY <1>1, <1>2, <1>6 DEF SubmitVerify, SubmitMatch, SubmitTerminal, Answer, Rejected, SubmitPCs
<1>7. CASE SubmitConflict(r)
  BY <1>0, <1>7 DEF SubmitConflict, NoReplay
<1>8. CASE SubmitRace(r)
  BY <1>1, <1>3, <1>8 DEF SubmitRace, SubmitPCs
<1>9. CASE SubmitReject(r)
  <2>1. CASE InsertProposal(ProposalRow(r, "REJECTED", reply[r].reason))
             /\ CommitSeen(r, "done", "s_race") /\ UNCHANGED <<call, reply>>
    BY <1>0, <2>1 DEF InsertProposal, CommitSeen, SubmitPCs, NoReplay
  <2> QED BY <1>1, <1>9, <2>1 DEF SubmitReject, SubmitPCs
<1>10. CASE SubmitAccept(r)
  <2>1. CASE proposals \subseteq proposals'
             /\ CommitSeen(r, "s_verify", "s_race") /\ UNCHANGED <<call, reply>>
    BY <1>0, <2>1 DEF CommitSeen, SubmitPCs, NoReplay
  <2> QED BY <1>1, <1>10, <2>1 DEF SubmitAccept, InsertProposal, SubmitPCs
<1>11. CASE SubmitSynthetic(r)
  <2> DEFINE answer == Reply("ACCEPTED_SYNTHETIC", "none", {})
  <2>1. answer.status # "IDEMPOTENT_REPLAY"
    BY DEF Reply
  <2> HIDE DEF answer
  <2>2. CASE Decide(r, "s_race", answer)
    BY <1>2, <2>2 DEF answer, SubmitPCs
  <2>3. CASE /\ \E where \in {"done", "s_race"} : Goto(r, where)
             /\ UNCHANGED call /\ proposals \subseteq proposals'
             /\ reply' = [reply EXCEPT ![r] = answer]
    <3>1. reply'[r] = answer /\ \A s \in Requests \ {r} : reply'[s] = reply[s]
      BY <2>3 DEF TypeOK
    <3> QED BY <1>0, <2>1, <2>3, <3>1 DEF SubmitPCs, NoReplay
  <2>4. \/ Decide(r, "s_race", answer)
        \/ /\ Goto(r, "done") \/ Goto(r, "s_race")
           /\ UNCHANGED call /\ proposals \subseteq proposals'
           /\ reply' = [reply EXCEPT ![r] = answer]
    <3>1. [reply EXCEPT ![r] = answer][r] = answer
      BY DEF TypeOK
    <3> QED BY <1>11, <3>1 DEF answer, SubmitSynthetic, CommitSeen, InsertProposal, db
  <2> QED BY <2>2, <2>3, <2>4
<1> QED BY <1>4, <1>5, <1>6, <1>7, <1>8, <1>9, <1>10, <1>11 DEF Submit

\* The row a replayed submit answers with, from the moment it is read.
ReplayedRow(r) ==
    reply[r].status = "IDEMPOTENT_REPLAY" =>
        /\ pc[r] # "idle"
        /\ call[r].op = "submit" =>
              \E p \in proposals :
                  /\ reply[r].rows = {p}
                  /\ p.key = call[r].key /\ p.sha = PayloadSha(call[r].payload)
                  /\ p.status = "RECEIVED"
Replayed == \A r \in Requests : ReplayedRow(r)

LEMMA OthersKeepReplays ==
    ASSUME IInv, Replayed, NEW r \in Requests, OwnStepOf(r),
           \/ NoReplay(r)
           \/ call[r].op # "submit"
           \/ \E p \in ProposalWithKey(call[r].key) : AnswerExisting(r, p)
    PROVE  Replayed'
<1>1. /\ call' = call /\ proposals \subseteq proposals'
      /\ pc'[r] # "idle" /\ \A s \in Requests \ {r} : pc'[s] = pc[s] /\ reply'[s] = reply[s]
  BY DEF OwnStepOf, Goto, IInv, TypeOK
<1>2. ASSUME NEW s \in Requests, reply'[s] = reply[s] PROVE ReplayedRow(s)'
  BY <1>1, <1>2 DEF Replayed, ReplayedRow
<1>3. ASSUME NEW p \in ProposalWithKey(call[r].key), AnswerExisting(r, p)
      PROVE  ReplayedRow(r)'
  <2> DEFINE verdict == ExistingVerdict(p, call[r])
  <2>1. p \in proposals' /\ p.key = call[r].key
    BY <1>1 DEF ProposalWithKey
  <2>2. reply' = [reply EXCEPT ![r] = verdict]
    BY <1>3 DEF AnswerExisting, Answer, Decide
  <2>3. \/ verdict.status # "IDEMPOTENT_REPLAY"
        \/ /\ verdict.rows = {p} /\ p.sha = PayloadSha(call[r].payload)
           /\ p.status = "RECEIVED"
    BY DEF ExistingVerdict, Rejected, Reply
  <2> HIDE DEF verdict
  <2>4. reply'[r] = verdict
    BY <2>2 DEF IInv, TypeOK
  <2> QED BY <1>1, <2>1, <2>3, <2>4 DEF ReplayedRow
<1>4. ReplayedRow(r)'
  BY <1>1, <1>2, <1>3 DEF NoReplay, ReplayedRow
<1> QED BY <1>1, <1>2, <1>4 DEF Replayed

LEMMA StartKeepsReplays ==
    ASSUME IInv, Replayed, NEW r \in Requests, NEW c \in Calls, Start(r, c)
    PROVE  Replayed'
<1>1. PICK answer \in {NoReply, Rejected("VALIDATION_FAILED"),
                       Reply("NOT_CLAIMABLE", "NOT_FOUND", {})} :
        /\ reply' = [reply EXCEPT ![r] = answer] /\ UNCHANGED proposals
        /\ \A s \in Requests \ {r} : pc'[s] = pc[s] /\ call'[s] = call[s]
  BY DEF Start, Enter, Goto, db, IInv, TypeOK
<1>2. answer.status # "IDEMPOTENT_REPLAY"
  BY DEF NoReply, Rejected, Reply
<1>3. reply'[r] = answer /\ \A s \in Requests \ {r} : reply'[s] = reply[s]
  BY <1>1 DEF IInv, TypeOK
<1> QED BY <1>1, <1>2, <1>3 DEF Replayed, ReplayedRow

LEMMA ReplaysStep ==
    ASSUME IInv, Replayed, [Next]_vars
    PROVE  Replayed'
<1>1. CASE UNCHANGED vars \/ Tick
  BY <1>1 DEF vars, Tick, db, Replayed, ReplayedRow
<1>2. ASSUME NEW r \in Requests, Claim(r) \/ Defer(r) PROVE Replayed'
  <2>1. pc[r] \in ClaimPCs \cup DeferPCs
    BY <1>2 DEF Claim, ClaimTerminal, ClaimDenied, ClaimDeferral, ClaimBatch, ClaimConfirm,
                ClaimTerminal2, ClaimDeferral2, ClaimCurrent, ClaimPCs, Defer, DeferKey,
                DeferJob, DeferBatch, DeferRace, DeferKey2, DeferJob2, DeferTerminal,
                DeferLease, DeferStatusTerminal, DeferStatusLease, DeferStatusDeferral, DeferPCs
  <2>2. call[r].op # "submit"
    BY <2>1 DEF IInv, Control, ControlOf, ControlAt, ClaimCalls, DeferCalls
  <2>3. OwnStepOf(r)
    BY <1>2, ClaimIsOwn, DeferIsOwn DEF IInv
  <2> QED BY <2>2, <2>3, OthersKeepReplays
<1>3. ASSUME NEW r \in Requests, Submit(r) PROVE Replayed'
  BY <1>3, SubmitIsOwn, OthersKeepReplays DEF IInv
<1>4. ASSUME NEW r \in Requests, Fail(r) PROVE Replayed'
  <2>1. OwnStepOf(r) /\ NoReplay(r)
    BY <1>4, FailIsOwn DEF Fail, Throws, NoReplay
  <2> QED BY <2>1, OthersKeepReplays
<1>5. ASSUME NEW r \in Requests, NEW c \in Calls, Start(r, c) PROVE Replayed'
  BY <1>5, StartKeepsReplays
<1> QED BY <1>1, <1>2, <1>3, <1>4, <1>5 DEF Next

\* A submit that answers IDEMPOTENT_REPLAY hands out the stored row of its key and
\* payload, which no handler ever removes: a retry sees the first outcome for ever.
THEOREM ReplaysAreFaithful == Spec => []ReplayIsFaithful
<1>1. Init => Replayed
  BY DEF Init, Replayed, ReplayedRow, NoReply, Reply
<1>2. IInv /\ Replayed /\ [Next]_vars => Replayed'
  BY ReplaysStep
<1>3. Replayed => ReplayIsFaithful
  BY DEF Replayed, ReplayedRow, ReplayIsFaithful
<1> QED BY <1>1, <1>2, <1>3, SpecIInv, PTL DEF Spec
----------------------------------------------------------------------------
(* The history of leases *)

\* The receipts of one type of one job, and how many a sequence of events holds.
Receipts(s, type, j) == {i \in DOMAIN s : s[i].type = type /\ s[i].job = j}
CountIn(s, type, j) == Cardinality(Receipts(s, type, j))

LEMMA CountInType ==
    ASSUME NEW s \in Seq(EventRows), NEW type, NEW j
    PROVE  IsFiniteSet(Receipts(s, type, j)) /\ CountIn(s, type, j) \in Nat
<1>1. IsFiniteSet(1..Len(s)) /\ DOMAIN s = 1..Len(s)
  BY FS_Interval
<1>2. Receipts(s, type, j) \in SUBSET (1..Len(s))
  BY <1>1 DEF Receipts
<1>3. IsFiniteSet(Receipts(s, type, j))
  BY <1>1, <1>2, FS_Subset
<1> QED BY <1>3, FS_CardinalityType DEF CountIn

\* An event that is appended counts once for its type and job.
LEMMA CountAppended ==
    ASSUME NEW s \in Seq(EventRows), NEW e \in EventRows, NEW type, NEW j
    PROVE  CountIn(Append(s, e), type, j) =
               CountIn(s, type, j) + (IF e.type = type /\ e.job = j THEN 1 ELSE 0)
<1> DEFINE n == Len(s) + 1
           new == Append(s, e)
<1>1. /\ DOMAIN s = 1..Len(s) /\ DOMAIN new = 1..n /\ Len(s) \in Nat /\ new[n] = e
      /\ \A i \in 1..Len(s) : new[i] = s[i]
  OBVIOUS
<1>2. CASE e.type = type /\ e.job = j
  <2>1. Receipts(new, type, j) = Receipts(s, type, j) \cup {n}
    BY <1>1, <1>2 DEF Receipts
  <2>2. n \notin Receipts(s, type, j)
    BY <1>1 DEF Receipts
  <2> DEFINE old == Receipts(s, type, j)
  <2>3. IsFiniteSet(old) /\ Cardinality(old) = CountIn(s, type, j)
    BY CountInType DEF CountIn
  <2> HIDE DEF old
  <2>4. Cardinality(old \cup {n}) = Cardinality(old) + 1
    BY <2>2, <2>3, FS_AddElement DEF old
  <2>5. CountIn(new, type, j) = Cardinality(old \cup {n})
    BY <2>1 DEF CountIn, old
  <2> QED BY <1>2, <2>3, <2>4, <2>5
<1>3. CASE ~ (e.type = type /\ e.job = j)
  <2>1. Receipts(new, type, j) = Receipts(s, type, j)
    BY <1>1, <1>3 DEF Receipts
  <2> QED BY <1>3, <2>1, CountInType DEF CountIn
<1> QED BY <1>2, <1>3

\* A batch that writes one or two receipts.
LEMMA OneReceipt ==
    ASSUME IInv, NEW e \in EventRows, events' = Append(events, e), NEW type, NEW j
    PROVE  Count(type, j)' = Count(type, j) + (IF e.type = type /\ e.job = j THEN 1 ELSE 0)
<1>1. events \in Seq(EventRows)
  BY DEF IInv, TypeOK
<1>2. CountIn(events', type, j) =
          CountIn(events, type, j) + (IF e.type = type /\ e.job = j THEN 1 ELSE 0)
  BY <1>1, CountAppended
<1>3. CountIn(events, type, j) = Count(type, j) /\ CountIn(events', type, j) = Count(type, j)'
  BY DEF CountIn, Receipts, Count
<1> QED BY <1>2, <1>3

LEMMA TwoReceipts ==
    ASSUME IInv, NEW e \in EventRows, NEW f \in EventRows, events' = events \o <<e, f>>,
           NEW type, NEW j
    PROVE  Count(type, j)' = Count(type, j) + (IF e.type = type /\ e.job = j THEN 1 ELSE 0)
                                            + (IF f.type = type /\ f.job = j THEN 1 ELSE 0)
<1> DEFINE half == Append(events, e)
<1>1. events \in Seq(EventRows) /\ half \in Seq(EventRows)
  BY DEF IInv, TypeOK
<1>2. events' = Append(half, f)
  BY <1>1
<1>3. CountIn(half, type, j) =
          CountIn(events, type, j) + (IF e.type = type /\ e.job = j THEN 1 ELSE 0)
  BY <1>1, CountAppended
<1> HIDE DEF half
<1>4. CountIn(Append(half, f), type, j) =
          CountIn(half, type, j) + (IF f.type = type /\ f.job = j THEN 1 ELSE 0)
  BY <1>1, CountAppended
<1>5. CountIn(events, type, j) = Count(type, j) /\ CountIn(events', type, j) = Count(type, j)'
  BY DEF CountIn, Receipts, Count
<1> QED BY <1>2, <1>3, <1>4, <1>5

IssuedFor(j) == {l \in issued : l.job = j}

\* Every claim attempt generates its own token, so the row it writes is new.
TokensAreSpent == \A l \in issued : l.token[2] <= tries[l.token[1]]

ClaimsAddUp(j) == Count("CLAIMED", j) = Cardinality(IssuedFor(j))
LeasesAddUp(j) ==
    Count("CLAIMED", j) = Cardinality(LeaseOf(j)) + Count("LEASE_EXPIRED", j)
                          + Count("COMPLETED", j) + Cardinality(DeferralOf(j))

History ==
    /\ IsFiniteSet(issued) /\ IsFiniteSet(deferrals)
    /\ TokensAreSpent
    /\ \A j \in Jobs : ClaimsAddUp(j)
    /\ FormalCalls => FormalOnly /\ \A j \in Jobs : LeasesAddUp(j)

LEMMA HistoryTypes ==
    ASSUME IInv, History, NEW j
    PROVE  /\ IsFiniteSet(IssuedFor(j)) /\ Cardinality(IssuedFor(j)) \in Nat
           /\ IsFiniteSet(LeaseOf(j)) /\ Cardinality(LeaseOf(j)) \in Nat
           /\ IsFiniteSet(DeferralOf(j)) /\ Cardinality(DeferralOf(j)) \in Nat
           /\ \A type : Count(type, j) \in Nat
<1>1. IssuedFor(j) \in SUBSET issued /\ DeferralOf(j) \in SUBSET deferrals
  BY DEF IssuedFor, DeferralOf
<1>2. LeaseOf(j) \in SUBSET issued
  BY DEF LeaseOf, IInv, Tables, LeaseKey
<1>3. \A type : Count(type, j) = CountIn(events, type, j)
  BY DEF Count, CountIn, Receipts
<1>4. events \in Seq(EventRows)
  BY DEF IInv, TypeOK
<1>5. IsFiniteSet(IssuedFor(j)) /\ IsFiniteSet(LeaseOf(j)) /\ IsFiniteSet(DeferralOf(j))
  BY <1>1, <1>2, FS_Subset DEF History
<1> QED BY <1>3, <1>4, <1>5, CountInType, FS_CardinalityType

\* The one lease of a job that is released or taken over.
LEMMA HeldIsTheLease ==
    ASSUME IInv, NEW r \in Requests, NEW job \in Jobs, job = call[r].job,
           HoldsLease(call[r], at[r]), leases' = leases \ HeldLease(call[r], at[r])
    PROVE  /\ LeaseOf(job)' = {} /\ Cardinality(LeaseOf(job)) = 1
           /\ \A j \in Jobs \ {job} : LeaseOf(j)' = LeaseOf(j)
<1>1. PICK l \in leases : l.job = job /\ l \in HeldLease(call[r], at[r])
  BY DEF HoldsLease, HeldLease
<1>2. LeaseOf(job) = {l}
  BY <1>1 DEF LeaseOf, IInv, Tables, LeaseKey
<1>3. LeaseOf(job)' = {}
  BY <1>1, <1>2 DEF LeaseOf
<1>4. \A j \in Jobs \ {job} : LeaseOf(j)' = LeaseOf(j)
  BY DEF LeaseOf, HeldLease
<1> QED BY <1>2, <1>3, <1>4, FS_Singleton

\* Who holds nothing, or whose job is completed, releases nothing.
LEMMA NothingHeld ==
    ASSUME IInv, NEW r \in Requests,
           ~ HoldsLease(call[r], at[r]) \/ Completed(call[r].job)
    PROVE  HeldLease(call[r], at[r]) = {}
BY DEF HoldsLease, HeldLease, Completed, IInv, Tables, CompletedJobIsClosed, LeaseOf
\* What a step does to the history of leases.  A step may write nothing of it, ...
Silent ==
    /\ UNCHANGED <<leases, issued, deferrals, events>>
    /\ \A s \in Requests : tries[s] <= tries'[s]
\* ... receipt an answer, ...
Audits(r) ==
    /\ \E kind \in {"CLAIM_DENIED", "SUBMIT_CONFLICT", "SUBMIT_REJECTED"} :
          events' = Append(events, OwnEvent(r, kind))
    /\ UNCHANGED <<leases, issued, deferrals, tries>>
\* ... store a synthetic result, ...
Synthesizes(r) ==
    /\ pc[r] = "s_synthetic"
    /\ events' = Append(events, OwnEvent(r, "SUBMIT_RECEIVED"))
    /\ UNCHANGED <<issued, deferrals, tries>>
\* ... complete the job, ...
Completes(r) ==
    /\ HoldsLease(call[r], at[r])
    /\ leases' = leases \ HeldLease(call[r], at[r])
    /\ events' = events \o <<OwnEvent(r, "SUBMIT_RECEIVED"), OwnEvent(r, "COMPLETED")>>
    /\ UNCHANGED <<issued, deferrals, tries>>
\* ... defer it, ...
Defers(r) ==
    /\ HoldsLease(call[r], at[r]) /\ DeferralOf(call[r].job) = {}
    /\ leases' = leases \ HeldLease(call[r], at[r])
    /\ deferrals' = deferrals \cup {DeferralRow(call[r])}
    /\ UNCHANGED <<issued, events, tries>>
\* ... or write a lease.
Preempts(r) ==
    /\ pc[r] = "c_batch"
    /\ leases' = (leases \ LeaseOf(call[r].job)) \cup {PreemptingLease(r)}
    /\ issued' = issued \cup {PreemptingLease(r)}
    /\ events' = events \o PreemptEvents(r)
    /\ tries' = [tries EXCEPT ![r] = @ + 1]
    /\ UNCHANGED deferrals

\* Whoever writes has a call.
Writes(r) ==
    /\ call' = call /\ pc[r] # "idle"
    /\ Audits(r) \/ Synthesizes(r) \/ Completes(r) \/ Defers(r) \/ Preempts(r)

LEMMA SilentStep ==
    ASSUME IInv, UNCHANGED <<leases, issued, deferrals, events, tries>>
    PROVE  Silent
BY DEF Silent, IInv, TypeOK

LEMMA ClaimKinds ==
    ASSUME IInv, NEW r \in Requests, Claim(r)
    PROVE  Silent \/ Writes(r)
<1>1. CASE \/ ClaimTerminal(r) \/ ClaimDeferral(r) \/ ClaimConfirm(r)
           \/ ClaimTerminal2(r) \/ ClaimDeferral2(r) \/ ClaimCurrent(r)
  <2>1. UNCHANGED <<leases, issued, deferrals, events, tries>>
    BY <1>1 DEF ClaimTerminal, ClaimDeferral, ClaimConfirm, ClaimTerminal2, ClaimDeferral2,
                ClaimCurrent, MoveOn, Answer, Decide, db
  <2> QED BY <2>1, SilentStep
<1>2. CASE ClaimDenied(r)
  BY <1>2 DEF ClaimDenied, Writes, Audits
<1>3. CASE ClaimBatch(r)
  <2>1. /\ pc[r] = "c_batch" /\ tries' = [tries EXCEPT ![r] = @ + 1] /\ call' = call
        /\ UNCHANGED deferrals
    BY <1>3 DEF ClaimBatch
  <2>2. CASE UNCHANGED <<leases, issued, events>>
    <3>1. ASSUME NEW s \in Requests PROVE tries[s] <= tries'[s]
      <4>1. tries[s] \in 0..2 /\ tries'[s] = IF s = r THEN tries[s] + 1 ELSE tries[s]
        BY <2>1 DEF IInv, TypeOK
      <4> QED BY <4>1
    <3> QED BY <2>1, <2>2, <3>1 DEF Silent
  <2> QED BY <1>3, <2>1, <2>2 DEF ClaimBatch, Writes, Preempts
<1> QED BY <1>1, <1>2, <1>3 DEF Claim

LEMMA SubmitKinds ==
    ASSUME IInv, NEW r \in Requests, Submit(r)
    PROVE  Silent \/ Writes(r)
<1>0. ASSUME NEW where, MoveOn(r, where) \/ Throws(r, where) PROVE Silent
  BY <1>0, SilentStep DEF MoveOn, Throws, db
<1>1. CASE \/ SubmitKey(r) \/ SubmitLease(r) \/ SubmitFormal(r) \/ SubmitVerify(r)
           \/ SubmitMatch(r) \/ SubmitRace(r) \/ SubmitTerminal(r)
  <2>1. UNCHANGED <<leases, issued, deferrals, events, tries>>
    BY <1>1 DEF SubmitKey, SubmitLease, SubmitFormal, SubmitVerify, SubmitMatch, SubmitRace,
                SubmitTerminal, AnswerExisting, MoveOn, Answer, Decide, Throws, db
  <2> QED BY <2>1, SilentStep
<1>2. CASE SubmitConflict(r)
  BY <1>2 DEF SubmitConflict, Writes, Audits
<1>3. CASE SubmitReject(r)
  BY <1>0, <1>3 DEF SubmitReject, Writes, Audits
<1>4. CASE SubmitAccept(r)
  <2>1. CASE /\ HoldsLease(call[r], at[r])
             /\ leases' = leases \ HeldLease(call[r], at[r])
             /\ events' = events \o <<OwnEvent(r, "SUBMIT_RECEIVED"), OwnEvent(r, "COMPLETED")>>
             /\ UNCHANGED <<deferrals, issued, call, tries>>
    BY <1>4, <2>1 DEF SubmitAccept, Writes, Completes
  <2>2. CASE /\ ~ HoldsLease(call[r], at[r]) \/ Completed(call[r].job)
             /\ leases' = leases \ HeldLease(call[r], at[r])
             /\ UNCHANGED <<deferrals, events, issued, tries>>
    <3>1. leases' = leases
      BY <2>2, NothingHeld
    <3> QED BY <2>2, <3>1, SilentStep
  <2> QED BY <1>0, <1>4, <2>1, <2>2 DEF SubmitAccept
<1>5. CASE SubmitSynthetic(r)
  <2>1. CASE /\ events' = Append(events, OwnEvent(r, "SUBMIT_RECEIVED"))
             /\ UNCHANGED <<deferrals, issued, call, tries>>
    BY <1>5, <2>1 DEF SubmitSynthetic, Writes, Synthesizes
  <2>2. CASE UNCHANGED db /\ UNCHANGED tries
    BY <2>2, SilentStep DEF db
  <2> QED BY <1>5, <2>1, <2>2 DEF SubmitSynthetic, Decide
<1> QED BY <1>1, <1>2, <1>3, <1>4, <1>5 DEF Submit

LEMMA DeferKinds ==
    ASSUME IInv, NEW r \in Requests, Defer(r)
    PROVE  Silent \/ Writes(r)
<1>1. CASE ~ DeferBatch(r)
  <2>1. UNCHANGED <<leases, issued, deferrals, events, tries>>
    BY <1>1 DEF Defer, DeferKey, DeferJob, DeferRace, DeferKey2, DeferJob2, DeferTerminal,
                DeferLease, DeferStatusTerminal, DeferStatusLease, DeferStatusDeferral,
                ReplayDeferral, WithStatus, MoveOn, Answer, Decide, db
  <2> QED BY <2>1, SilentStep
<1>2. CASE DeferBatch(r)
  <2>1. CASE MoveOn(r, "d_race") \/ Throws(r, "d_race")
    BY <2>1, SilentStep DEF MoveOn, Throws, db
  <2>2. CASE /\ ~ Completed(call[r].job) /\ HoldsLease(call[r], at[r])
             /\ ~ DeferralTaken(call[r])
             /\ deferrals' = deferrals \cup {DeferralRow(call[r])}
             /\ leases' = leases \ HeldLease(call[r], at[r])
             /\ UNCHANGED <<events, issued, call, tries>>
    BY <1>2, <2>2 DEF DeferBatch, DeferralTaken, Writes, Defers
  <2>3. CASE /\ ~ (~ Completed(call[r].job) /\ HoldsLease(call[r], at[r]))
             /\ leases' = leases \ HeldLease(call[r], at[r])
             /\ UNCHANGED <<deferrals, events, issued, tries>>
    <3>1. leases' = leases
      BY <2>3, NothingHeld
    <3> QED BY <2>3, <3>1, SilentStep
  <2> QED BY <1>2, <2>1, <2>2, <2>3 DEF DeferBatch
<1> QED BY <1>1, <1>2

LEMMA Kinds ==
    ASSUME IInv, [Next]_vars
    PROVE  Silent \/ \E r \in Requests : Writes(r)
<1>1. CASE UNCHANGED vars \/ Tick
  BY <1>1, SilentStep DEF vars, Tick, db
<1>2. ASSUME NEW r \in Requests, NEW c \in Calls, Start(r, c) PROVE Silent
  BY <1>2, SilentStep DEF Start, Enter, db
<1>3. ASSUME NEW r \in Requests, Fail(r) PROVE Silent
  BY <1>3, SilentStep DEF Fail, Throws, db
<1> QED BY <1>1, <1>2, <1>3, ClaimKinds, SubmitKinds, DeferKinds DEF Next

\* A request keeps its call once it has begun.
LEMMA CallersStay ==
    ASSUME IInv, [Next]_vars, FormalCalls'
    PROVE  FormalCalls
<1>1. ASSUME NEW r \in Requests, OwnStepOf(r) PROVE FormalCalls
  <2>1. call' = call /\ pc'[r] # "idle" /\ \A s \in Requests \ {r} : pc'[s] = pc[s]
    BY <1>1 DEF OwnStepOf, Goto, IInv, TypeOK
  <2> QED BY <2>1 DEF FormalCalls
<1>2. ASSUME NEW r \in Requests, NEW c \in Calls, Start(r, c) PROVE FormalCalls
  <2>1. pc[r] = "idle" /\ \A s \in Requests \ {r} : pc'[s] = pc[s] /\ call'[s] = call[s]
    BY <1>2 DEF Start, Enter, Goto, IInv, TypeOK
  <2> QED BY <2>1 DEF FormalCalls
<1>3. CASE UNCHANGED vars \/ Tick
  BY <1>3 DEF vars, Tick, FormalCalls
<1> QED BY <1>1, <1>2, <1>3, ClaimIsOwn, SubmitIsOwn, DeferIsOwn, FailIsOwn DEF Next, IInv

----------------------------------------------------------------------------
(* Each kind of step keeps the books. *)

\* The counts that the books are about.
Counted == {"CLAIMED", "LEASE_EXPIRED", "COMPLETED"}

\* Nothing of job j's books changes.
SameBooks(j) ==
    /\ IssuedFor(j)' = IssuedFor(j) /\ LeaseOf(j)' = LeaseOf(j) /\ DeferralOf(j)' = DeferralOf(j)
    /\ \A type \in Counted : Count(type, j)' = Count(type, j)

LEMMA SameBooksAddUp ==
    ASSUME NEW j \in Jobs, SameBooks(j)
    PROVE  /\ ClaimsAddUp(j) => ClaimsAddUp(j)'
           /\ LeasesAddUp(j) => LeasesAddUp(j)'
BY DEF SameBooks, Counted, ClaimsAddUp, LeasesAddUp

\* A step that issues nothing leaves the claims of every job as they add up.
LEMMA SpentStays ==
    ASSUME IInv, TokensAreSpent, issued' = issued, \A s \in Requests : tries[s] <= tries'[s],
           tries' \in [Requests -> 0..2]
    PROVE  TokensAreSpent'
<1> SUFFICES ASSUME NEW l \in issued PROVE l.token[2] <= tries'[l.token[1]]
  BY DEF TokensAreSpent
<1>1. l.token[1] \in Requests /\ l.token[2] \in 1..2
  BY DEF IInv, TypeOK, LeaseRows, Tokens
<1>2. l.token[2] <= tries[l.token[1]] /\ tries[l.token[1]] \in 0..2
  BY <1>1 DEF TokensAreSpent, IInv, TypeOK
<1>3. tries'[l.token[1]] \in 0..2 /\ tries[l.token[1]] <= tries'[l.token[1]]
  BY <1>1
<1> QED BY <1>1, <1>2, <1>3

LEMMA SilentBooks ==
    ASSUME Silent, NEW j \in Jobs
    PROVE  SameBooks(j)
BY DEF Silent, SameBooks, IssuedFor, LeaseOf, DeferralOf, Count

LEMMA AuditBooks ==
    ASSUME IInv, History, NEW r \in Requests, call[r] \in Calls, Audits(r), NEW j \in Jobs
    PROVE  SameBooks(j)
<1>1. PICK kind \in {"CLAIM_DENIED", "SUBMIT_CONFLICT", "SUBMIT_REJECTED"} :
        events' = Append(events, OwnEvent(r, kind))
  BY DEF Audits
<1>2. call[r].owner \in Owners
  BY ParameterAssumption DEF CallType, ClaimCalls, SubmitCalls, DeferCalls
<1>3. OwnEvent(r, kind) \in EventRows /\ OwnEvent(r, kind).type = kind
  BY <1>2, EventsType DEF EventTypes, OwnEvent, Event
<1>4. ASSUME NEW type \in Counted PROVE Count(type, j)' = Count(type, j)
  <2>1. Count(type, j) \in Nat
    BY HistoryTypes
  <2> QED BY <1>1, <1>3, <2>1, OneReceipt DEF Counted
<1> QED BY <1>4 DEF Audits, SameBooks, IssuedFor, LeaseOf, DeferralOf
\* A synthetic result is no part of the claims' books.
LEMMA SyntheticBooks ==
    ASSUME IInv, History, NEW r \in Requests, call[r] \in Calls, Synthesizes(r), NEW j \in Jobs
    PROVE  ClaimsAddUp(j)'
<1>1. call[r].owner \in Owners
  BY ParameterAssumption DEF CallType, ClaimCalls, SubmitCalls, DeferCalls
<1>2. /\ OwnEvent(r, "SUBMIT_RECEIVED") \in EventRows
      /\ OwnEvent(r, "SUBMIT_RECEIVED").type = "SUBMIT_RECEIVED"
  BY <1>1, EventsType DEF EventTypes, OwnEvent, Event
<1>3. Count("CLAIMED", j) \in Nat
  BY HistoryTypes
<1>4. Count("CLAIMED", j)' = Count("CLAIMED", j)
  BY <1>2, <1>3, OneReceipt DEF Synthesizes
<1>5. IssuedFor(j)' = IssuedFor(j)
  BY DEF Synthesizes, IssuedFor
<1> QED BY <1>4, <1>5 DEF ClaimsAddUp, History

\* A completion writes one COMPLETED for the lease it ends.
LEMMA CompletionBooks ==
    ASSUME IInv, History, NEW r \in Requests, call[r] \in Calls, Completes(r), NEW j \in Jobs
    PROVE  ClaimsAddUp(j)' /\ (LeasesAddUp(j) => LeasesAddUp(j)')
<1> DEFINE received == OwnEvent(r, "SUBMIT_RECEIVED")
           completed == OwnEvent(r, "COMPLETED")
<1>1. call[r].owner \in Owners /\ call[r].job \in Jobs
  BY ParameterAssumption DEF CallType, ClaimCalls, SubmitCalls, DeferCalls
<1>2. /\ received \in EventRows /\ received.type = "SUBMIT_RECEIVED"
      /\ completed \in EventRows /\ completed.type = "COMPLETED" /\ completed.job = call[r].job
  BY <1>1, EventsType DEF EventTypes, OwnEvent, Event
<1>3. events' = events \o <<received, completed>>
  BY DEF Completes
<1> HIDE DEF received, completed
<1>4. \A type : Count(type, j) \in Nat
  BY HistoryTypes
<1>5. /\ Count("CLAIMED", j)' = Count("CLAIMED", j)
      /\ Count("LEASE_EXPIRED", j)' = Count("LEASE_EXPIRED", j)
      /\ Count("COMPLETED", j)' = Count("COMPLETED", j) + (IF call[r].job = j THEN 1 ELSE 0)
  <2>1. ASSUME NEW type \in Counted
        PROVE  Count(type, j)' = Count(type, j) + 0
                                 + (IF completed.type = type /\ completed.job = j THEN 1 ELSE 0)
    <3>1. Count(type, j)' = Count(type, j)
                            + (IF received.type = type /\ received.job = j THEN 1 ELSE 0)
                            + (IF completed.type = type /\ completed.job = j THEN 1 ELSE 0)
      BY <1>2, <1>3, TwoReceipts
    <3> QED BY <1>2, <3>1 DEF Counted
  <2>2. /\ Count("CLAIMED", j)' = Count("CLAIMED", j) + 0 + 0
        /\ Count("LEASE_EXPIRED", j)' = Count("LEASE_EXPIRED", j) + 0 + 0
        /\ Count("COMPLETED", j)' = Count("COMPLETED", j) + 0 + (IF call[r].job = j THEN 1 ELSE 0)
    BY <1>2, <2>1 DEF Counted
  <2> QED BY <1>4, <2>2
<1>6. IssuedFor(j)' = IssuedFor(j) /\ DeferralOf(j)' = DeferralOf(j)
  BY DEF Completes, IssuedFor, DeferralOf
<1>7. PICK job \in Jobs : job = call[r].job
  BY <1>1
<1>8. /\ LeaseOf(job)' = {} /\ Cardinality(LeaseOf(job)) = 1
      /\ \A i \in Jobs \ {job} : LeaseOf(i)' = LeaseOf(i)
  BY <1>7, HeldIsTheLease DEF Completes
<1>9. Cardinality(LeaseOf(j)) = Cardinality(LeaseOf(j)') + (IF job = j THEN 1 ELSE 0)
  <2>1. CASE job = j
    BY <1>8, <2>1, FS_EmptySet
  <2>2. CASE job # j
    <3>1. Cardinality(LeaseOf(j)) \in Nat /\ LeaseOf(j)' = LeaseOf(j)
      BY <1>8, <2>2, HistoryTypes
    <3> QED BY <2>2, <3>1
  <2> QED BY <2>1, <2>2
<1>10. /\ Cardinality(LeaseOf(j)) \in Nat /\ Cardinality(DeferralOf(j)) \in Nat
       /\ Cardinality(LeaseOf(j)') \in Nat
  <2>1. IsFiniteSet(LeaseOf(j)) /\ LeaseOf(j)' \in SUBSET LeaseOf(j)
    BY HistoryTypes DEF LeaseOf, Completes
  <2> QED BY <2>1, HistoryTypes, FS_Subset, FS_CardinalityType
<1>11. ClaimsAddUp(j)'
  BY <1>5, <1>6 DEF History, ClaimsAddUp
<1>12. LeasesAddUp(j) => LeasesAddUp(j)'
  BY <1>4, <1>5, <1>6, <1>7, <1>9, <1>10 DEF LeasesAddUp
<1> QED BY <1>11, <1>12

\* A deferral is the one row of its job and ends the job's one lease.
LEMMA DeferralBooks ==
    ASSUME IInv, History, NEW r \in Requests, call[r] \in Calls, Defers(r), NEW j \in Jobs
    PROVE  ClaimsAddUp(j)' /\ (LeasesAddUp(j) => LeasesAddUp(j)')
<1>1. call[r].job \in Jobs
  BY ParameterAssumption DEF CallType, ClaimCalls, SubmitCalls, DeferCalls
<1>2. PICK job \in Jobs : job = call[r].job
  BY <1>1
<1>3. /\ LeaseOf(job)' = {} /\ Cardinality(LeaseOf(job)) = 1
      /\ \A i \in Jobs \ {job} : LeaseOf(i)' = LeaseOf(i)
  BY <1>2, HeldIsTheLease DEF Defers
<1>4. \A type : Count(type, j)' = Count(type, j) /\ Count(type, j) \in Nat
  BY HistoryTypes DEF Defers, Count
<1>5. IssuedFor(j)' = IssuedFor(j)
  BY DEF Defers, IssuedFor
<1> DEFINE row == DeferralRow(call[r])
<1>6. row.job = job /\ deferrals' = deferrals \cup {row} /\ DeferralOf(job) = {}
  BY <1>2 DEF DeferralRow, Defers
<1> HIDE DEF row
<1>7. DeferralOf(job)' = {row} /\ \A i \in Jobs \ {job} : DeferralOf(i)' = DeferralOf(i)
  BY <1>6 DEF DeferralOf
<1>8. ClaimsAddUp(j)'
  BY <1>4, <1>5 DEF History, ClaimsAddUp
<1>9. LeasesAddUp(j) => LeasesAddUp(j)'
  <2>1. CASE j = job
    <3>1. Cardinality(LeaseOf(j)') = 0 /\ Cardinality(LeaseOf(j)) = 1
      BY <1>3, <2>1, FS_EmptySet
    <3>2. Cardinality(DeferralOf(j)') = 1 /\ Cardinality(DeferralOf(j)) = 0
      BY <1>6, <1>7, <2>1, FS_EmptySet, FS_Singleton
    <3> QED BY <1>4, <3>1, <3>2 DEF LeasesAddUp
  <2>2. CASE j # job
    BY <1>3, <1>4, <1>7, <2>2 DEF LeasesAddUp
  <2> QED BY <2>1, <2>2
<1> QED BY <1>8, <1>9
\* The row a claim attempt writes carries a token that no row carries yet.
LEMMA PreemptIsFresh ==
    ASSUME IInv, History, NEW r \in Requests, Preempts(r)
    PROVE  /\ PreemptingLease(r) \in LeaseRows /\ PreemptingLease(r).job = call[r].job
           /\ PreemptingLease(r) \notin issued
           /\ TokensAreSpent'
<1> DEFINE row == PreemptingLease(r)
<1>1. call[r] \in ClaimCalls /\ tries[r] < 2 /\ tries[r] \in 0..2
  BY DEF Preempts, IInv, TypeOK, Control, ControlOf, ControlAt, ClaimPCs
<1>2. row \in LeaseRows /\ row.job = call[r].job
  BY <1>1, PreemptingType
<1>3. row.token = <<r, tries[r] + 1>>
  BY DEF PreemptingLease
<1>4. issued' = issued \cup {row} /\ tries' = [tries EXCEPT ![r] = @ + 1]
  BY DEF Preempts
<1> HIDE DEF row
<1>5. row.token[1] = r /\ row.token[2] = tries[r] + 1
  BY <1>3
<1>6. row \notin issued
  <2> SUFFICES ASSUME row \in issued PROVE FALSE
    OBVIOUS
  <2>1. tries[r] + 1 <= tries[r]
    BY <1>5 DEF History, TokensAreSpent
  <2> QED BY <1>1, <2>1
<1>7. ASSUME NEW l \in issued' PROVE l.token[2] <= tries'[l.token[1]]
  <2>1. CASE l = row
    BY <1>1, <1>4, <1>5, <2>1 DEF IInv, TypeOK
  <2>2. CASE l # row
    <3>1. l \in issued
      BY <1>4, <2>2
    <3>2. l.token[1] \in Requests /\ l.token[2] \in 1..2
      BY <3>1 DEF IInv, TypeOK, LeaseRows, Tokens
    <3>3. l.token[2] <= tries[l.token[1]] /\ tries[l.token[1]] \in 0..2
      BY <3>1, <3>2 DEF History, TokensAreSpent, IInv, TypeOK
    <3>4. tries'[l.token[1]] \in {tries[l.token[1]], tries[l.token[1]] + 1}
      BY <1>4, <3>2 DEF IInv, TypeOK
    <3> QED BY <3>2, <3>3, <3>4
  <2> QED BY <2>1, <2>2
<1> QED BY <1>2, <1>6, <1>7 DEF row, TokensAreSpent

\* A first lease is receipted by CLAIMED, a takeover by LEASE_EXPIRED as well.
LEMMA PreemptCounts ==
    ASSUME IInv, History, NEW r \in Requests, Preempts(r), NEW job \in Jobs, job = call[r].job,
           NEW j \in Jobs
    PROVE  /\ Count("CLAIMED", j)' = Count("CLAIMED", j) + (IF j = job THEN 1 ELSE 0)
           /\ Count("COMPLETED", j)' = Count("COMPLETED", j)
           /\ Count("LEASE_EXPIRED", j)' =
                 Count("LEASE_EXPIRED", j) + (IF j = job /\ LeaseOf(job) # {} THEN 1 ELSE 0)
<1> DEFINE claimed == OwnEvent(r, "CLAIMED")
           l0 == CHOOSE l \in LeaseOf(job) : TRUE
           expired == Event(r, "LEASE_EXPIRED", l0.owner)
<1>1. call[r] \in Calls /\ call[r].owner \in Owners
  BY DEF Preempts, IInv, Control, ControlOf, ControlAt, ClaimPCs, ClaimCalls
<1>2. claimed \in EventRows /\ claimed.type = "CLAIMED" /\ claimed.job = job
  BY <1>1, EventsType DEF EventTypes, OwnEvent, Event
<1>3. \A type : Count(type, j) \in Nat
  BY HistoryTypes
<1>4. CASE LeaseOf(job) = {}
  <2>1. events' = events \o <<claimed>>
    BY <1>4 DEF Preempts, PreemptEvents
  <2> HIDE DEF claimed
  <2>2. events' = Append(events, claimed)
    BY <1>2, <2>1 DEF IInv, TypeOK
  <2> QED BY <1>2, <1>3, <1>4, <2>2, OneReceipt
<1>5. CASE LeaseOf(job) # {}
  <2>1. l0 \in LeaseOf(job)
    BY <1>5
  <2> HIDE DEF l0
  <2>2. l0.owner \in Owners
    BY <2>1 DEF LeaseOf, IInv, TypeOK, LeaseRows
  <2>3. expired \in EventRows /\ expired.type = "LEASE_EXPIRED" /\ expired.job = job
    BY <1>1, <2>2, EventsType DEF EventTypes, Event
  <2>4. events' = events \o <<expired, claimed>>
    BY <1>5 DEF Preempts, PreemptEvents, l0
  <2> HIDE DEF claimed, expired
  <2>5. ASSUME NEW type \in Counted
        PROVE  Count(type, j)' = Count(type, j)
                                 + (IF expired.type = type /\ job = j THEN 1 ELSE 0)
                                 + (IF claimed.type = type /\ job = j THEN 1 ELSE 0)
    BY <1>2, <2>3, <2>4, TwoReceipts
  <2>6. /\ Count("CLAIMED", j)' = Count("CLAIMED", j) + 0 + (IF job = j THEN 1 ELSE 0)
        /\ Count("COMPLETED", j)' = Count("COMPLETED", j) + 0 + 0
        /\ Count("LEASE_EXPIRED", j)' = Count("LEASE_EXPIRED", j) + (IF job = j THEN 1 ELSE 0) + 0
    BY <1>2, <2>3, <2>5 DEF Counted
  <2> QED BY <1>3, <1>5, <2>6
<1> QED BY <1>4, <1>5

LEMMA PreemptBooks ==
    ASSUME IInv, History, NEW r \in Requests, Preempts(r), NEW j \in Jobs
    PROVE  ClaimsAddUp(j)' /\ (LeasesAddUp(j) => LeasesAddUp(j)')
<1> DEFINE row == PreemptingLease(r)
<1>1. call[r].job \in Jobs
  BY DEF Preempts, IInv, Control, ControlOf, ControlAt, ClaimPCs, ClaimCalls
<1>2. PICK job \in Jobs : job = call[r].job
  BY <1>1
<1>3. row.job = job /\ row \notin issued
  BY <1>2, PreemptIsFresh
<1>4. issued' = issued \cup {row} /\ leases' = (leases \ LeaseOf(job)) \cup {row}
  BY <1>2 DEF Preempts
<1> HIDE DEF row
<1>5. DeferralOf(j)' = DeferralOf(j)
  BY DEF Preempts, DeferralOf
<1>6. CASE j = job
  <2>1. IssuedFor(j)' = IssuedFor(j) \cup {row} /\ row \notin IssuedFor(j)
    BY <1>3, <1>4, <1>6 DEF IssuedFor
  <2>2. Cardinality(IssuedFor(j)') = Cardinality(IssuedFor(j)) + 1
    BY <2>1, HistoryTypes, FS_AddElement
  <2>3. LeaseOf(j)' = {row}
    BY <1>3, <1>4, <1>6 DEF LeaseOf
  <2>4. Cardinality(LeaseOf(j)') = 1
    BY <2>3, FS_Singleton
  <2>5. Cardinality(LeaseOf(j)) = IF LeaseOf(job) # {} THEN 1 ELSE 0
    <3>1. CASE LeaseOf(j) = {}
      BY <1>6, <3>1, FS_EmptySet
    <3>2. CASE LeaseOf(j) # {}
      <4>1. PICK l : LeaseOf(j) = {l}
        BY <3>2 DEF LeaseOf, IInv, Tables, LeaseKey
      <4> QED BY <1>6, <4>1, FS_Singleton
    <3> QED BY <3>1, <3>2
  <2>6. /\ Count("CLAIMED", j)' = Count("CLAIMED", j) + 1
        /\ Count("COMPLETED", j)' = Count("COMPLETED", j)
        /\ Count("LEASE_EXPIRED", j)' =
              Count("LEASE_EXPIRED", j) + (IF LeaseOf(job) # {} THEN 1 ELSE 0)
    BY <1>2, <1>6, PreemptCounts
  <2>7. ClaimsAddUp(j)'
    BY <2>2, <2>6 DEF History, ClaimsAddUp
  <2>8. /\ Cardinality(DeferralOf(j)) \in Nat /\ Count("CLAIMED", j) \in Nat
        /\ Count("COMPLETED", j) \in Nat /\ Count("LEASE_EXPIRED", j) \in Nat
    BY HistoryTypes
  <2>9. LeasesAddUp(j) => LeasesAddUp(j)'
    BY <1>5, <2>4, <2>5, <2>6, <2>8 DEF LeasesAddUp
  <2> QED BY <2>7, <2>9
<1>7. CASE j # job
  <2>1. IssuedFor(j)' = IssuedFor(j) /\ LeaseOf(j)' = LeaseOf(j)
    BY <1>3, <1>4, <1>7 DEF IssuedFor, LeaseOf
  <2>2. \A type \in Counted : Count(type, j) \in Nat
    BY HistoryTypes
  <2>3. \A type \in Counted : Count(type, j)' = Count(type, j)
    BY <1>2, <1>7, <2>2, PreemptCounts DEF Counted
  <2>4. SameBooks(j)
    BY <1>5, <2>1, <2>3 DEF SameBooks
  <2> QED BY <2>4, SameBooksAddUp DEF History
<1> QED BY <1>6, <1>7

\* The books of every job add up in every state.
LEMMA InitHistory == Init => History
<1> SUFFICES ASSUME Init PROVE History
  OBVIOUS
<1>1. issued = {} /\ deferrals = {} /\ leases = {} /\ events = <<>>
  BY DEF Init
<1>2. ASSUME NEW j \in Jobs PROVE ClaimsAddUp(j) /\ LeasesAddUp(j)
  <2>1. IssuedFor(j) = {} /\ LeaseOf(j) = {} /\ DeferralOf(j) = {}
    BY <1>1 DEF IssuedFor, LeaseOf, DeferralOf
  <2>2. ASSUME NEW type PROVE Count(type, j) = 0
    <3>1. {i \in DOMAIN events : events[i].type = type /\ events[i].job = j} = {}
      BY <1>1
    <3> QED BY <3>1, FS_EmptySet DEF Count
  <2> QED BY <2>1, <2>2, FS_EmptySet DEF ClaimsAddUp, LeasesAddUp
<1>3. IsFiniteSet(issued) /\ IsFiniteSet(deferrals) /\ TokensAreSpent
  BY <1>1, FS_EmptySet DEF TokensAreSpent
<1>4. FormalOnly
  BY DEF Init, FormalOnly
<1> QED BY <1>2, <1>3, <1>4 DEF History

LEMMA HistoryStep ==
    ASSUME IInv, History, [Next]_vars
    PROVE  History'
<1>0. tries' \in [Requests -> 0..2]
  BY NextIInv DEF IInv, TypeOK
<1>1. FormalCalls' => FormalCalls /\ FormalOnly'
  BY CallersStay, FormalOnlyStep DEF History
<1>2. CASE Silent
  <2>1. TokensAreSpent'
    BY <1>0, <1>2, SpentStays DEF Silent, History
  <2>2. \A j \in Jobs : SameBooks(j)
    BY <1>2, SilentBooks
  <2>3. \A j \in Jobs : ClaimsAddUp(j)' /\ (LeasesAddUp(j) => LeasesAddUp(j)')
    BY <2>2, SameBooksAddUp DEF History
  <2> QED BY <1>1, <1>2, <2>1, <2>3 DEF Silent, History
<1>3. ASSUME NEW r \in Requests, Writes(r) PROVE History'
  <2>0. call[r] \in Calls
    BY <1>3 DEF Writes, IInv, Control, ControlOf, ControlAt
  <2>1. ASSUME issued' = issued, tries' = tries PROVE TokensAreSpent' /\ IsFiniteSet(issued)'
    BY <2>1 DEF History, TokensAreSpent
  <2>2. CASE Audits(r)
    <3>1. \A j \in Jobs : SameBooks(j)
      BY <2>0, <2>2, AuditBooks
    <3>2. \A j \in Jobs : ClaimsAddUp(j)' /\ (LeasesAddUp(j) => LeasesAddUp(j)')
      BY <3>1, SameBooksAddUp DEF History
    <3> QED BY <1>1, <2>1, <2>2, <3>2 DEF Audits, History
  <2>3. CASE Synthesizes(r)
    <3>1. \A j \in Jobs : ClaimsAddUp(j)'
      BY <2>0, <2>3, SyntheticBooks
    <3>2. ~ FormalOnly
      BY <2>3 DEF Synthesizes, FormalOnly
    <3> QED BY <1>1, <2>1, <2>3, <3>1, <3>2 DEF Synthesizes, History
  <2>4. CASE Completes(r)
    <3>1. \A j \in Jobs : ClaimsAddUp(j)' /\ (LeasesAddUp(j) => LeasesAddUp(j)')
      BY <2>0, <2>4, CompletionBooks
    <3> QED BY <1>1, <2>1, <2>4, <3>1 DEF Completes, History
  <2>5. CASE Defers(r)
    <3>1. \A j \in Jobs : ClaimsAddUp(j)' /\ (LeasesAddUp(j) => LeasesAddUp(j)')
      BY <2>0, <2>5, DeferralBooks
    <3>2. IsFiniteSet(deferrals')
      BY <2>5, FS_AddElement DEF Defers, History
    <3> QED BY <1>1, <2>1, <2>5, <3>1, <3>2 DEF Defers, History
  <2>6. CASE Preempts(r)
    <3>1. \A j \in Jobs : ClaimsAddUp(j)' /\ (LeasesAddUp(j) => LeasesAddUp(j)')
      BY <2>6, PreemptBooks
    <3>2. IsFiniteSet(issued') /\ deferrals' = deferrals
      BY <2>6, FS_AddElement DEF Preempts, History
    <3>3. TokensAreSpent'
      BY <2>6, PreemptIsFresh
    <3> QED BY <1>1, <3>1, <3>2, <3>3 DEF History
  <2> QED BY <1>3, <2>2, <2>3, <2>4, <2>5, <2>6 DEF Writes
<1> QED BY <1>2, <1>3, Kinds

\* Every lease a claim wrote is receipted by one CLAIMED event and, among formal
\* owners, is the current lease or ended in exactly one of a takeover's
\* LEASE_EXPIRED, the job's COMPLETED or its deferral: claimResearchJob's batch
\* and the releases of submit and defer write row and receipt together.
THEOREM LeaseHistoriesAddUp == Spec => []LeaseHistoryAddsUp
<1>1. IInv /\ History => LeaseHistoryAddsUp
  <2> SUFFICES ASSUME IInv, History, NEW j \in Jobs
               PROVE  /\ Count("CLAIMED", j) = Cardinality({l \in issued : l.job = j})
                      /\ (\A r \in Requests : call[r] # NoCall => call[r].owner \in FormalOwners)
                            => LeasesAddUp(j)
    BY DEF LeaseHistoryAddsUp, LeasesAddUp
  <2>1. Count("CLAIMED", j) = Cardinality({l \in issued : l.job = j})
    BY DEF History, ClaimsAddUp, IssuedFor
  <2>2. ASSUME \A r \in Requests : call[r] # NoCall => call[r].owner \in FormalOwners
        PROVE  FormalCalls
    BY <2>2, ParameterAssumption DEF FormalCalls, IInv, Control, ControlOf, ControlAt
  <2> QED BY <2>1, <2>2 DEF History
<1>2. IInv /\ History /\ [Next]_vars => History'
  BY HistoryStep
<1> QED BY <1>1, <1>2, InitHistory, SpecIInv, PTL DEF Spec
=============================================================================
