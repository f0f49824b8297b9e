-------------------------- MODULE ResearchWorkflow --------------------------
(***************************************************************************)
(* The Collector's research work queue (src/src/research-workflow.ts):     *)
(* claim, submit and defer of a research job by concurrent requests over   *)
(* one D1 database.                                                        *)
(*                                                                         *)
(* A request is one invocation of a handler.  It reads the clock once and  *)
(* then awaits database calls; every await is one step, so the steps of    *)
(* other requests may fall between any two of its own.  A db.batch is one  *)
(* transaction, hence one step.  Tables are sets of rows: INSERT is union, *)
(* DELETE is difference, EXISTS is \E, and the primary keys and UNIQUE     *)
(* constraints of migrations 0003 and 0005 make a batch throw.             *)
(*                                                                         *)
(* Generated identifiers (proposal ids, claim tokens) are the request that *)
(* generates them, with the claim attempt for a token: they are fresh.     *)
(***************************************************************************)
EXTENDS Integers, Sequences, FiniteSets

CONSTANTS
    Jobs,          \* job ids
    Owners,        \* authenticated stable principals (opaque owner ids)
    FormalOwners,  \* those isFormalResearchOwner accepts
    Keys,          \* well-formed idempotency keys
    BadKey,        \* any key outside RESEARCH_IDEMPOTENCY_KEY_PATTERN
    Payloads,      \* submitted proposals, see PayloadType
    EmptySha,      \* SHA-256 of "{}"
    Calls,         \* the calls clients may issue, see CallType
    Requests,      \* request ids: one handler invocation each
    NoCall,        \* a request that has not started
    TTL,           \* RESEARCH_LEASE_TTL_SECONDS, in clock ticks
    MaxTime,       \* bound on the clock
    MaxFaults      \* bound on storage failures and crashed requests

PayloadKinds == {"ok", "malformed", "oversize", "unsafe"}

\* A proposal: the job it names, whether it passes the structural, size and
\* outbound-safety checks, and its content.
PayloadType == [job : Jobs, kind : PayloadKinds, content : STRING]

\* `origin` is client input; a value outside the closed set is "OTHER".
Origins == {"CHATGPT", "SYNTHETIC", "REPLAY", "OTHER"}

ClaimCalls == [op : {"claim"}, job : Jobs, owner : Owners]
SubmitCalls == [op : {"submit"}, job : Jobs, owner : Owners, gen : Nat,
                key : Keys \cup {BadKey}, payload : Payloads, origin : Origins]
DeferCalls == [op : {"defer"}, job : Jobs, owner : Owners, gen : Nat,
               key : Keys \cup {BadKey}, recheck : Nat]
CallType == ClaimCalls \cup SubmitCalls \cup DeferCalls

ASSUME ParameterAssumption ==
    /\ FormalOwners \subseteq Owners
    /\ Payloads \subseteq PayloadType
    /\ Calls \subseteq CallType
    /\ NoCall \notin Calls
    /\ BadKey \notin Keys
    /\ EmptySha \notin Payloads
    /\ TTL \in Nat \ {0}
    /\ MaxTime \in Nat
    /\ MaxFaults \in Nat

VARIABLES
    leases,     \* research_job_leases: the current leases
    terminals,  \* research_job_terminal: completed jobs
    proposals,  \* research_proposals
    deferrals,  \* research_job_deferrals
    events,     \* research_job_events, in receipt_sequence order
    clock,      \* wall clock
    pc,         \* the await each request is at
    call,       \* its input
    at,         \* the `now` it captured when it started
    tries,      \* claim attempts it has used
    reply,      \* its answer (provisional until pc is "done")
    faults,     \* failures so far
    issued      \* history: every lease row a claim ever wrote

db == <<leases, terminals, proposals, deferrals, events, issued>>
vars == <<leases, terminals, proposals, deferrals, events, clock,
          pc, call, at, tries, reply, faults, issued>>

----------------------------------------------------------------------------
(* Rows *)

Tokens == Requests \X (1..2)
LeaseRows == [job : Jobs, owner : Owners, token : Tokens,
              expires : Nat, count : Nat \ {0}]
TerminalRows == [job : Jobs, id : Requests]
Reasons == {"none", "NOT_FOUND", "TERMINAL", "DEFERRED", "CONFLICT", "SECOND_RESULT",
            "LEASE_INVALID", "VALIDATION_FAILED", "COMPLETED", "CLAIMED", "QUEUED"}
ProposalRows == [id : Requests, job : Jobs, key : Keys, owner : Owners,
                 origin : {"CHATGPT", "SYNTHETIC", "REPLAY"},
                 status : {"RECEIVED", "REJECTED"}, reason : Reasons,
                 sha : Payloads \cup {EmptySha}]
DeferralRows == [job : Jobs, key : Keys, owner : Owners, gen : Nat, recheck : Nat]
EventTypes == {"CLAIMED", "CLAIM_DENIED", "LEASE_EXPIRED", "SUBMIT_RECEIVED",
               "SUBMIT_REJECTED", "SUBMIT_CONFLICT", "COMPLETED"}
EventRows == [type : EventTypes, job : Jobs, actor : Owners, req : Requests]

Statuses == {"none", "CLAIMED", "ALREADY_CLAIMED", "NOT_CLAIMABLE", "ACCEPTED",
             "ACCEPTED_SYNTHETIC", "IDEMPOTENT_REPLAY", "REJECTED", "DEFERRED"}
\* `rows` is what the answer carries: the lease of a CLAIMED, the row replayed.
Replies == [status : Statuses, reason : Reasons,
            rows : SUBSET (LeaseRows \cup ProposalRows \cup DeferralRows)]
Reply(status, reason, rows) == [status |-> status, reason |-> reason, rows |-> rows]
NoReply == Reply("none", "none", {})
Rejected(reason) == Reply("REJECTED", reason, {})

PCs == {"idle", "done", "error",
        "c_terminal", "c_denied", "c_deferral", "c_batch",
        "c_confirm", "c_terminal2", "c_deferral2", "c_current",
        "s_key", "s_conflict", "s_reject", "s_lease", "s_formal", "s_accept",
        "s_verify", "s_match", "s_race", "s_terminal", "s_synthetic",
        "d_key", "d_job", "d_batch", "d_race", "d_key2", "d_job2",
        "d_terminal", "d_lease", "d_status_terminal", "d_status_lease",
        "d_status_deferral"}

----------------------------------------------------------------------------
(* Queries *)

LeaseOf(j) == {l \in leases : l.job = j}
DeferralOf(j) == {d \in deferrals : d.job = j}
ProposalWithKey(k) == {p \in proposals : p.key = k}
DeferralWithKey(k) == {d \in deferrals : d.key = k}
Completed(j) == \E t \in terminals : t.job = j
Formal(p) == p.origin = "CHATGPT" /\ p.status = "RECEIVED"

\* `NOT EXISTS deferral WHERE recheck_at > now`, negated
DeferredAt(j, now) == \E d \in deferrals : d.job = j /\ d.recheck > now

\* The exact live lease: owner, fenced generation and liveness at `now`.
HoldsLease(c, now) ==
    \E l \in leases : /\ l.job = c.job
                      /\ l.owner = c.owner
                      /\ l.count = c.gen
                      /\ l.expires > now

\* Mutant: a release by job id alone.
AnyLeaseOfJob(c, now) == LeaseOf(c.job)

\* Rows `DELETE ... WHERE job_id AND lease_owner AND claim_count AND live` removes
HeldLease(c, now) ==
    {l \in leases : l.job = c.job /\ l.owner = c.owner /\ l.count = c.gen /\ l.expires > now}

Event(r, type, actor) == [type |-> type, job |-> call[r].job, actor |-> actor, req |-> r]
OwnEvent(r, type) == Event(r, type, call[r].owner)

----------------------------------------------------------------------------
(* Control *)

Goto(r, where) == pc' = [pc EXCEPT ![r] = where]

\* The request moves on after a read: nothing but its position changes.
MoveOn(r, where) == Goto(r, where) /\ UNCHANGED <<db, clock, call, at, tries, reply, faults>>

\* It moves on with its answer decided but one more write to await.
Decide(r, where, answer) ==
    /\ Goto(r, where)
    /\ reply' = [reply EXCEPT ![r] = answer]
    /\ UNCHANGED <<db, clock, call, at, tries, faults>>

Answer(r, answer) == Decide(r, "done", answer)

\* A storage call of r throws without having committed anything.
Throws(r, where) ==
    /\ faults < MaxFaults
    /\ faults' = faults + 1
    /\ Goto(r, where)
    /\ UNCHANGED <<db, clock, call, at, tries, reply>>

\* A committed batch whose response is lost also throws.
CommitSeen(r, seen, thrown) ==
    \/ Goto(r, seen) /\ faults' = faults
    \/ faults < MaxFaults /\ faults' = faults + 1 /\ Goto(r, thrown)

WellFormed(c) == c.op # "claim" => (c.gen >= 1 /\ c.key # BadKey)

FirstAwait(c) == CASE c.op = "claim"  -> "c_terminal"
                   [] c.op = "submit" -> "s_key"
                   [] c.op = "defer"  -> "d_key"

Enter(r, c, where, answer) ==
    /\ pc[r] = "idle"
    /\ call' = [call EXCEPT ![r] = c]
    /\ at' = [at EXCEPT ![r] = clock]
    /\ reply' = [reply EXCEPT ![r] = answer]
    /\ Goto(r, where)
    /\ UNCHANGED <<db, clock, tries, faults>>

\* A request enters its handler: the checks before the first await.  A claim's
\* visibility gate is among them: the replica may publish or withdraw the job
\* record at any time, so either outcome of that read is possible.
Start(r, c) ==
    \/ WellFormed(c) /\ Enter(r, c, FirstAwait(c), NoReply)
    \/ ~ WellFormed(c) /\ Enter(r, c, "done", Rejected("VALIDATION_FAILED"))
    \/ c.op = "claim" /\ Enter(r, c, "done", Reply("NOT_CLAIMABLE", "NOT_FOUND", {}))

\* An uncaught storage failure, or the isolate dies: the client gets no verdict.
Fail(r) == pc[r] \notin {"idle", "done", "error"} /\ Throws(r, "error")

Tick == clock < MaxTime /\ clock' = clock + 1
        /\ UNCHANGED <<db, pc, call, at, tries, reply, faults>>

----------------------------------------------------------------------------
(* claimResearchJob *)

ClaimTerminal(r) ==
    /\ pc[r] = "c_terminal"
    /\ MoveOn(r, IF Completed(call[r].job) THEN "c_denied" ELSE "c_deferral")

ClaimDenied(r) ==
    /\ pc[r] = "c_denied"
    /\ Goto(r, "done")
    /\ reply' = [reply EXCEPT ![r] = Reply("NOT_CLAIMABLE", "TERMINAL", {})]
    /\ events' = Append(events, OwnEvent(r, "CLAIM_DENIED"))
    /\ UNCHANGED <<leases, terminals, proposals, deferrals, issued,
                   clock, call, at, tries, faults>>

ClaimDeferral(r) ==
    /\ pc[r] = "c_deferral"
    /\ IF DeferredAt(call[r].job, at[r])
       THEN Answer(r, Reply("NOT_CLAIMABLE", "DEFERRED", {}))
       ELSE MoveOn(r, "c_batch")

\* Mutants: the preempt statement trusts the reads that preceded it.
PreemptUnlessDeferred(r) ==
    ~ DeferredAt(call[r].job, at[r]) /\ \A l \in LeaseOf(call[r].job) : l.expires <= at[r]
PreemptUnlessCompleted(r) ==
    ~ Completed(call[r].job) /\ \A l \in LeaseOf(call[r].job) : l.expires <= at[r]

\* The preempt statement applies: no terminal row, no active deferral, and the
\* lease row, if any, has expired.
MayPreempt(r) ==
    LET j == call[r].job IN
    /\ ~ Completed(j)
    /\ ~ DeferredAt(j, at[r])
    /\ \A l \in LeaseOf(j) : l.expires <= at[r]

\* The row it writes: a new lease has generation 1, a takeover one more than
\* the row it overwrites.
PreemptingLease(r) ==
    [job |-> call[r].job, owner |-> call[r].owner, token |-> <<r, tries[r] + 1>>,
     expires |-> at[r] + TTL,
     count |-> IF LeaseOf(call[r].job) = {} THEN 1
               ELSE (CHOOSE l \in LeaseOf(call[r].job) : TRUE).count + 1]

\* Mutant: a takeover is not receipted.
ClaimedOnly(r) == <<OwnEvent(r, "CLAIMED")>>

\* LEASE_EXPIRED for the row taken over, then CLAIMED.
PreemptEvents(r) ==
    IF LeaseOf(call[r].job) = {} THEN <<OwnEvent(r, "CLAIMED")>>
    ELSE <<Event(r, "LEASE_EXPIRED", (CHOOSE l \in LeaseOf(call[r].job) : TRUE).owner),
           OwnEvent(r, "CLAIMED")>>

ClaimBatch(r) ==
    /\ pc[r] = "c_batch"
    /\ Goto(r, "c_confirm")
    /\ tries' = [tries EXCEPT ![r] = @ + 1]
    /\ IF MayPreempt(r)
       THEN /\ leases' = (leases \ LeaseOf(call[r].job)) \cup {PreemptingLease(r)}
            /\ issued' = issued \cup {PreemptingLease(r)}
            /\ events' = events \o PreemptEvents(r)
       ELSE UNCHANGED <<leases, issued, events>>
    /\ UNCHANGED <<terminals, proposals, deferrals, clock, call, at, reply, faults>>

\* The lease is read back by the token this attempt generated.
ClaimConfirm(r) ==
    /\ pc[r] = "c_confirm"
    /\ LET own == {l \in LeaseOf(call[r].job) :
                      l.owner = call[r].owner /\ l.token = <<r, tries[r]>>} IN
       IF own # {} THEN Answer(r, Reply("CLAIMED", "none", own))
       ELSE MoveOn(r, "c_terminal2")

ClaimTerminal2(r) ==
    /\ pc[r] = "c_terminal2"
    /\ MoveOn(r, IF Completed(call[r].job) THEN "c_denied" ELSE "c_deferral2")

ClaimDeferral2(r) ==
    /\ pc[r] = "c_deferral2"
    /\ IF DeferredAt(call[r].job, at[r])
       THEN Answer(r, Reply("NOT_CLAIMABLE", "DEFERRED", {}))
       ELSE MoveOn(r, "c_current")

\* Whoever holds the job now decides; a lease that vanished is retried once.
ClaimCurrent(r) ==
    LET live == {l \in LeaseOf(call[r].job) : l.expires > at[r]} IN
    /\ pc[r] = "c_current"
    /\ \/ live = {} /\ MoveOn(r, IF tries[r] < 2 THEN "c_batch" ELSE "error")
       \/ \E l \in live :
            IF l.owner = call[r].owner
            THEN Answer(r, Reply("CLAIMED", "none", {l}))
            ELSE Answer(r, Reply("ALREADY_CLAIMED", "none", {}))

Claim(r) == \/ ClaimTerminal(r) \/ ClaimDenied(r)    \/ ClaimDeferral(r)
            \/ ClaimBatch(r)    \/ ClaimConfirm(r)   \/ ClaimTerminal2(r)
            \/ ClaimDeferral2(r) \/ ClaimCurrent(r)

----------------------------------------------------------------------------
(* submitResearchResultProposal *)

\* An unsafe or oversized body is stored, and hashed, as "{}".
PayloadSha(p) == IF p.kind \in {"oversize", "unsafe"} THEN EmptySha ELSE p

\* Only a formal owner may file a formal result.
EffectiveOrigin(c) ==
    IF c.owner \notin FormalOwners /\ c.origin = "CHATGPT" THEN "SYNTHETIC" ELSE c.origin

StructureFailed(c) ==
    \/ c.owner \in FormalOwners /\ c.origin # "CHATGPT"
    \/ c.payload.kind # "ok"
    \/ c.payload.job # c.job

ProposalRow(r, status, reason) ==
    [id |-> r, job |-> call[r].job, key |-> call[r].key, owner |-> call[r].owner,
     origin |-> EffectiveOrigin(call[r]), status |-> status, reason |-> reason,
     sha |-> PayloadSha(call[r].payload)]

\* Mutant: the stored payload is not compared.
VerdictByKey(p, c) ==
    IF p.status = "RECEIVED" THEN Reply("IDEMPOTENT_REPLAY", "none", {p}) ELSE Rejected(p.reason)

\* The verdict for a key that is already taken.
ExistingVerdict(p, c) ==
    IF p.sha # PayloadSha(c.payload) THEN Rejected("CONFLICT")
    ELSE IF p.status = "RECEIVED" THEN Reply("IDEMPOTENT_REPLAY", "none", {p})
    ELSE Rejected(p.reason)

\* A conflict is audited before it is answered; a replay writes nothing.
AnswerExisting(r, p) ==
    LET verdict == ExistingVerdict(p, call[r]) IN
    IF verdict = Rejected("CONFLICT") THEN Decide(r, "s_conflict", verdict)
    ELSE Answer(r, verdict)

\* Step 1: idempotency first; then, without an await, steps 2 and 3.
SubmitKey(r) ==
    LET c == call[r] IN
    /\ pc[r] = "s_key"
    /\ \/ \E p \in ProposalWithKey(c.key) : AnswerExisting(r, p)
       \/ /\ ProposalWithKey(c.key) = {}
          /\ IF c.origin = "OTHER" THEN Answer(r, Rejected("VALIDATION_FAILED"))
             ELSE IF StructureFailed(c)
             THEN Decide(r, "s_reject", Rejected("VALIDATION_FAILED"))
             ELSE MoveOn(r, "s_lease")

\* writeConflictEvent
SubmitConflict(r) ==
    /\ pc[r] = "s_conflict"
    /\ Goto(r, "done")
    /\ events' = Append(events, OwnEvent(r, "SUBMIT_CONFLICT"))
    /\ UNCHANGED <<leases, terminals, proposals, deferrals, issued,
                   clock, call, at, tries, reply, faults>>

\* Step 4: existence, expiry, owner, generation, in one read.
SubmitLease(r) ==
    /\ pc[r] = "s_lease"
    /\ IF ~ HoldsLease(call[r], at[r])
       THEN Decide(r, "s_reject", Rejected("LEASE_INVALID"))
       ELSE MoveOn(r, IF EffectiveOrigin(call[r]) = "CHATGPT" THEN "s_formal" ELSE "s_synthetic")

\* Step 5: the application's one-formal-result check.
SubmitFormal(r) ==
    /\ pc[r] = "s_formal"
    /\ IF \E p \in proposals : p.job = call[r].job /\ Formal(p)
       THEN Decide(r, "s_reject", Rejected("SECOND_RESULT"))
       ELSE MoveOn(r, "s_accept")

\* An INSERT whose key is taken violates UNIQUE(idempotency_key) and the whole
\* batch throws; so does a second formal result (research_proposals_one_formal).
InsertProposal(row) ==
    /\ ProposalWithKey(row.key) = {}
    /\ Formal(row) => ~ \E p \in proposals : p.job = row.job /\ Formal(p)
    /\ proposals' = proposals \cup {row}

UniqueViolation(row) ==
    \/ ProposalWithKey(row.key) # {}
    \/ Formal(row) /\ \E p \in proposals : p.job = row.job /\ Formal(p)

\* The rejected row and its event, through runProposalBatch.
SubmitReject(r) ==
    LET row == ProposalRow(r, "REJECTED", reply[r].reason) IN
    /\ pc[r] = "s_reject"
    /\ \/ /\ InsertProposal(row)
          /\ events' = Append(events, OwnEvent(r, "SUBMIT_REJECTED"))
          /\ CommitSeen(r, "done", "s_race")
          /\ UNCHANGED <<leases, terminals, deferrals, issued, clock, call, at, tries, reply>>
       \/ UniqueViolation(row) /\ MoveOn(r, "s_race")
       \/ Throws(r, "s_race")

\* Mutant: the batch trusts the checks of steps 4 and 5 and a table without its
\* partial unique index.
AcceptByEarlierReads(r) ==
    /\ pc[r] = "s_accept"
    /\ proposals' = proposals \cup {ProposalRow(r, "RECEIVED", "none")}
    /\ terminals' = terminals \cup {[job |-> call[r].job, id |-> r]}
    /\ leases' = leases \ HeldLease(call[r], at[r])
    /\ events' = events \o <<OwnEvent(r, "SUBMIT_RECEIVED"), OwnEvent(r, "COMPLETED")>>
    /\ Goto(r, "s_verify")
    /\ UNCHANGED <<deferrals, issued, clock, call, at, tries, reply, faults>>

\* Step 6, formal: every statement repeats the lease predicate, so the batch
\* writes everything or, its lease lost, nothing.
SubmitAccept(r) ==
    LET c == call[r]
        row == ProposalRow(r, "RECEIVED", "none") IN
    /\ pc[r] = "s_accept"
    /\ \/ /\ HoldsLease(c, at[r]) /\ ~ Completed(c.job)
          /\ InsertProposal(row)
          /\ terminals' = terminals \cup {[job |-> c.job, id |-> r]}
          /\ leases' = leases \ HeldLease(c, at[r])
          /\ events' = events \o <<OwnEvent(r, "SUBMIT_RECEIVED"), OwnEvent(r, "COMPLETED")>>
          /\ CommitSeen(r, "s_verify", "s_race")
          /\ UNCHANGED <<deferrals, issued, clock, call, at, tries, reply>>
       \/ /\ HoldsLease(c, at[r]) /\ ~ Completed(c.job) /\ UniqueViolation(row)
          /\ MoveOn(r, "s_race")
       \/ /\ ~ HoldsLease(c, at[r]) \/ Completed(c.job)
          /\ leases' = leases \ HeldLease(c, at[r])
          /\ CommitSeen(r, "s_verify", "s_race")
          /\ UNCHANGED <<terminals, proposals, deferrals, events, issued,
                         clock, call, at, tries, reply>>
       \/ Throws(r, "s_race")

\* Mutant: a batch that committed is taken for an acceptance.
TrustCommit(r) == pc[r] = "s_verify" /\ Answer(r, Reply("ACCEPTED", "none", {}))

\* The committed proposal is read back by key, then the terminal row by id.
SubmitVerify(r) ==
    /\ pc[r] = "s_verify"
    /\ MoveOn(r, IF \E p \in ProposalWithKey(call[r].key) : p.id = r /\ p.status = "RECEIVED"
                 THEN "s_match" ELSE "s_race")

SubmitMatch(r) ==
    /\ pc[r] = "s_match"
    /\ IF [job |-> call[r].job, id |-> r] \in terminals
       THEN Answer(r, Reply("ACCEPTED", "none", {}))
       ELSE MoveOn(r, "s_race")

\* Step 6, synthetic: proposal, release of whatever lease the job has, event.
SubmitSynthetic(r) ==
    LET row == ProposalRow(r, "RECEIVED", "none")
        accepted == [reply EXCEPT ![r] = Reply("ACCEPTED_SYNTHETIC", "none", {})] IN
    /\ pc[r] = "s_synthetic"
    /\ \/ /\ InsertProposal(row)
          /\ leases' = leases \ LeaseOf(call[r].job)
          /\ events' = Append(events, OwnEvent(r, "SUBMIT_RECEIVED"))
          /\ CommitSeen(r, "done", "s_race")
          /\ reply' = accepted
          /\ UNCHANGED <<terminals, deferrals, issued, clock, call, at, tries>>
       \/ /\ UniqueViolation(row)
          /\ Decide(r, "s_race", accepted[r])
       \/ /\ faults < MaxFaults /\ faults' = faults + 1
          /\ Goto(r, "s_race") /\ reply' = accepted
          /\ UNCHANGED <<db, clock, call, at, tries>>

\* resolveProposalRace: the key's row decides.  Without one (or when this read
\* fails too) a formal submit looks at the terminal row, and runProposalBatch
\* lets its caller answer as if the batch had committed.
SubmitRace(r) ==
    LET nothing == IF reply[r].status = "none" THEN "s_terminal" ELSE "done" IN
    /\ pc[r] = "s_race"
    /\ \/ \E p \in ProposalWithKey(call[r].key) : AnswerExisting(r, p)
       \/ ProposalWithKey(call[r].key) = {} /\ MoveOn(r, nothing)
       \/ Throws(r, nothing)

SubmitTerminal(r) ==
    /\ pc[r] = "s_terminal"
    /\ Answer(r, Rejected(IF Completed(call[r].job) THEN "SECOND_RESULT" ELSE "LEASE_INVALID"))

Submit(r) == \/ SubmitKey(r)    \/ SubmitConflict(r) \/ SubmitLease(r)
             \/ SubmitFormal(r) \/ SubmitReject(r)   \/ SubmitAccept(r)
             \/ SubmitVerify(r) \/ SubmitMatch(r)    \/ SubmitSynthetic(r)
             \/ SubmitRace(r)   \/ SubmitTerminal(r)

----------------------------------------------------------------------------
(* deferResearchJob *)

DeferralRow(c) == [job |-> c.job, key |-> c.key, owner |-> c.owner,
                   gen |-> c.gen, recheck |-> c.recheck]

\* replayOutcome: the payload hash covers everything but the key.  The current
\* status it reports is read afterwards, table by table.
ReplayDeferral(r, d) ==
    IF d # DeferralRow(call[r]) THEN Answer(r, Rejected("CONFLICT"))
    ELSE Decide(r, "d_status_terminal", Reply("IDEMPOTENT_REPLAY", "none", {d}))

DeferKey(r) ==
    LET c == call[r] IN
    /\ pc[r] = "d_key"
    /\ \/ \E d \in DeferralWithKey(c.key) : ReplayDeferral(r, d)
       \/ /\ DeferralWithKey(c.key) = {}
          /\ IF c.recheck <= at[r] THEN Answer(r, Rejected("VALIDATION_FAILED"))
             ELSE MoveOn(r, "d_job")

DeferJob(r) ==
    /\ pc[r] = "d_job"
    /\ IF DeferralOf(call[r].job) # {} THEN Answer(r, Rejected("CONFLICT"))
       ELSE MoveOn(r, "d_batch")

\* A job is deferred at most once and a key used at most once: either primary
\* key makes the batch throw.
DeferralTaken(c) == DeferralOf(c.job) # {} \/ DeferralWithKey(c.key) # {}

\* Deferral row and release of exactly the caller's live lease.
DeferBatch(r) ==
    LET c == call[r]
        applies == ~ Completed(c.job) /\ HoldsLease(c, at[r]) IN
    /\ pc[r] = "d_batch"
    /\ \/ /\ applies /\ ~ DeferralTaken(c)
          /\ deferrals' = deferrals \cup {DeferralRow(c)}
          /\ leases' = leases \ HeldLease(c, at[r])
          /\ \/ Goto(r, "done") /\ faults' = faults
                /\ reply' = [reply EXCEPT ![r] = Reply("DEFERRED", "none", {DeferralRow(c)})]
             \/ faults < MaxFaults /\ faults' = faults + 1
                /\ Goto(r, "d_race") /\ reply' = reply
          /\ UNCHANGED <<terminals, proposals, events, issued, clock, call, at, tries>>
       \/ applies /\ DeferralTaken(c) /\ MoveOn(r, "d_race")
       \/ /\ ~ applies
          /\ leases' = leases \ HeldLease(c, at[r])
          /\ CommitSeen(r, "d_key2", "d_race")
          /\ UNCHANGED <<terminals, proposals, deferrals, events, issued,
                         clock, call, at, tries, reply>>
       \/ Throws(r, "d_race")

\* The batch threw: only a row with this key can explain it.
DeferRace(r) ==
    /\ pc[r] = "d_race"
    /\ \/ \E d \in DeferralWithKey(call[r].key) : ReplayDeferral(r, d)
       \/ DeferralWithKey(call[r].key) = {} /\ MoveOn(r, "error")

\* The batch committed but inserted nothing: find out why, read by read.
DeferKey2(r) ==
    /\ pc[r] = "d_key2"
    /\ \/ \E d \in DeferralWithKey(call[r].key) : ReplayDeferral(r, d)
       \/ DeferralWithKey(call[r].key) = {} /\ MoveOn(r, "d_job2")

DeferJob2(r) ==
    /\ pc[r] = "d_job2"
    /\ IF DeferralOf(call[r].job) # {} THEN Answer(r, Rejected("CONFLICT"))
       ELSE MoveOn(r, "d_terminal")

DeferTerminal(r) ==
    /\ pc[r] = "d_terminal"
    /\ IF Completed(call[r].job) THEN Answer(r, Rejected("SECOND_RESULT"))
       ELSE MoveOn(r, "d_lease")

DeferLease(r) == pc[r] = "d_lease" /\ Answer(r, Rejected("LEASE_INVALID"))

\* deferredCurrentStatus: the status goes into the answer's `reason`.
WithStatus(r, status) == Answer(r, [reply[r] EXCEPT !.reason = status])

DeferStatusTerminal(r) ==
    /\ pc[r] = "d_status_terminal"
    /\ IF Completed(call[r].job) THEN WithStatus(r, "COMPLETED")
       ELSE MoveOn(r, "d_status_lease")

DeferStatusLease(r) ==
    /\ pc[r] = "d_status_lease"
    /\ IF \E l \in LeaseOf(call[r].job) : l.expires > at[r] THEN WithStatus(r, "CLAIMED")
       ELSE MoveOn(r, "d_status_deferral")

DeferStatusDeferral(r) ==
    /\ pc[r] = "d_status_deferral"
    /\ WithStatus(r, IF DeferredAt(call[r].job, at[r]) THEN "DEFERRED" ELSE "QUEUED")

Defer(r) == \/ DeferKey(r)      \/ DeferJob(r)    \/ DeferBatch(r)
            \/ DeferRace(r)     \/ DeferKey2(r)   \/ DeferJob2(r)
            \/ DeferTerminal(r) \/ DeferLease(r)  \/ DeferStatusTerminal(r)
            \/ DeferStatusLease(r) \/ DeferStatusDeferral(r)

----------------------------------------------------------------------------

Init ==
    /\ leases = {} /\ terminals = {} /\ proposals = {} /\ deferrals = {}
    /\ events = <<>> /\ issued = {}
    /\ clock = 0 /\ faults = 0
    /\ pc = [r \in Requests |-> "idle"]
    /\ call = [r \in Requests |-> NoCall]
    /\ at = [r \in Requests |-> 0]
    /\ tries = [r \in Requests |-> 0]
    /\ reply = [r \in Requests |-> NoReply]

Next ==
    \/ Tick
    \/ \E r \in Requests :
          \/ \E c \in Calls : Start(r, c)
          \/ Claim(r) \/ Submit(r) \/ Defer(r) \/ Fail(r)

Spec == Init /\ [][Next]_vars

----------------------------------------------------------------------------
(* Properties *)

\* Every table holds rows of its shape and every request is somewhere in its handler.
TypeOK ==
    /\ leases \subseteq LeaseRows
    /\ terminals \subseteq TerminalRows
    /\ proposals \subseteq ProposalRows
    /\ deferrals \subseteq DeferralRows
    /\ events \in Seq(EventRows)
    /\ issued \subseteq LeaseRows
    /\ clock \in Nat
    /\ faults \in Nat
    /\ pc \in [Requests -> PCs]
    /\ call \in [Requests -> Calls \cup {NoCall}]
    /\ at \in [Requests -> Nat]
    /\ tries \in [Requests -> 0..2]
    /\ reply \in [Requests -> Replies]

\* One formal result per job: whatever submits race, retry or are repeated under
\* other keys and by other owners, no two formal proposals of a job are stored
\* as RECEIVED.
OneFormalResult ==
    \A p, q \in proposals : Formal(p) /\ Formal(q) /\ p.job = q.job => p = q

\* A completed job is closed: its terminal row names the job's stored formal
\* proposal, that proposal came from an owner who had been granted the very
\* generation it quoted, and no lease survives (or reappears after) completion,
\* even from a claim that read the job as open before.
CompletedJobIsClosed ==
    \A t \in terminals :
        /\ LeaseOf(t.job) = {}
        /\ \E p \in proposals :
              /\ p.id = t.id /\ p.job = t.job /\ Formal(p)
              /\ \E l \in issued : l.job = t.job /\ l.owner = p.owner
                                   /\ l.count = call[p.id].gen

\* An ACCEPTED answer is durable and exclusive: the answering request's own
\* proposal is the one that completed the job.
AcceptedIsDurable ==
    \A r \in Requests :
        pc[r] = "done" /\ reply[r].status = "ACCEPTED" =>
            /\ [job |-> call[r].job, id |-> r] \in terminals
            /\ \E p \in proposals : p.id = r /\ p.key = call[r].key /\ Formal(p)

\* A replay answers with the stored row of the caller's key and payload, and
\* that row is still there: retries under a key see the first outcome for ever.
ReplayIsFaithful ==
    \A r \in Requests :
        pc[r] = "done" /\ reply[r].status = "IDEMPOTENT_REPLAY" /\ call[r].op = "submit" =>
            \E p \in proposals :
                /\ reply[r].rows = {p}
                /\ p.key = call[r].key /\ p.sha = PayloadSha(call[r].payload)
                /\ p.status = "RECEIVED"

\* While a deferral is active nobody holds the job: a claim that passed the
\* deferral check before the defer committed cannot take the lease after it.
DeferredJobIsFree ==
    \A d \in deferrals : d.recheck > clock => LeaseOf(d.job) = {}

Count(type, j) == Cardinality({i \in DOMAIN events : events[i].type = type /\ events[i].job = j})

\* The lease history adds up, job by job: every lease a claim wrote is receipted
\* by one CLAIMED event, and is either the current lease, or was taken over with
\* one LEASE_EXPIRED event, or ended in the job's completion or its deferral.
\* Exact among formal owners (a synthetic submit may release more than it held).
LeaseHistoryAddsUp ==
    \A j \in Jobs :
        /\ Count("CLAIMED", j) = Cardinality({l \in issued : l.job = j})
        /\ (\A r \in Requests : call[r] # NoCall => call[r].owner \in FormalOwners) =>
              Count("CLAIMED", j) = Cardinality(LeaseOf(j)) + Count("LEASE_EXPIRED", j)
                                    + Count("COMPLETED", j) + Cardinality(DeferralOf(j))

\* A lease that is still live is only ended by a request of its own holder:
\* takeover waits for expiry, and a submit or defer releases its own lease only.
LiveLeaseOnlyReleasedByHolder ==
    [][\A l \in leases :
          l.expires > clock /\ l \notin leases' =>
              \E r \in Requests : pc'[r] # pc[r] /\ call[r].owner = l.owner]_vars

=============================================================================
