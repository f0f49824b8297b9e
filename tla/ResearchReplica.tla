--------------------------- MODULE ResearchReplica ---------------------------
(***************************************************************************)
(* The Collector's copy of the research machine's PUBLIC documents: rows   *)
(* in D1, bytes in R2.  The research machine sends one message per record, *)
(* a version of a document or the bytes of a content object, and sends it  *)
(* again until it is answered.  A delivery reserves quota, writes the      *)
(* journal and the bytes to R2, and stores the rows in one D1 batch; it    *)
(* may fail between any two of these steps.                                *)
(*                                                                         *)
(* A message is a record:                                                  *)
(*   id        the message id                                              *)
(*   doc       the document, NoDoc for the bytes of an object              *)
(*   number    version_number, which with doc stands for the version id    *)
(*   hash      content_sha256                                              *)
(*   servable  isVersionServable: not withdrawn, with a readable body      *)
(*   ingested  the month of version.ingested_at                            *)
(* Records of other types (evidence, accumulators) take the same path and  *)
(* touch nothing else; PRIVATE records have no part in retention or in the *)
(* semantic index.  Neither is modelled.  The clock counts months: the     *)
(* write quota is monthly and the retention window is three of them.       *)
(***************************************************************************)
EXTENDS Integers, FiniteSets, FiniteSetsExt

CONSTANTS
    Messages,        \* what the research machine has to send
    Stored,          \* object messages stored before the first step
    Deliveries,      \* ingest calls that may be served at once
    Resend,          \* a message may be sent again while it is being served
    MaxBytes,        \* RESEARCH_REPLICA_MAX_STORED_BYTES; a put is one unit
    MaxWrites,       \* RESEARCH_REPLICA_MAX_MONTHLY_R2_WRITES
    LastMonth,       \* bound on the clock
    MaxFaults        \* bound on failed calls

MessageType ==
    [id : STRING, doc : Nat, number : Nat, hash : STRING, servable : BOOLEAN,
     ingested : Nat]

ASSUME ReplicaAssumption ==
    /\ Messages \subseteq MessageType /\ IsFiniteSet(Messages)
    /\ Stored \subseteq {m \in Messages : m.doc = 0}
    /\ IsFiniteSet(Deliveries)
    /\ MaxBytes \in Nat /\ MaxWrites \in Nat /\ MaxFaults \in Nat
    /\ LastMonth \in Nat \ {0}
    /\ 2 * Cardinality(Stored) <= MaxBytes

VARIABLES
    now,             \* the current month
    usage,           \* research_replica_usage, its only row
    received,        \* research_ingest_messages
    records,         \* research_records: the message each row was last set by
    objects,         \* research_objects in state READY
    links,           \* research_record_objects
    journals,        \* R2: research-replica-journal/
    bodies,          \* R2: research-objects/sha256/
    index,           \* research_semantic_index_state, by version
    delivery,        \* ingest calls
    faults

tables == <<usage, received, records, objects, links, index>>
buckets == <<journals, bodies>>
replicaVars == <<now, tables, buckets, delivery, faults>>

NoDoc == 0
IsObject(m) == m.doc = NoDoc
VersionMessages == {m \in Messages : ~IsObject(m)}
Version(m) == <<m.doc, m.number>>
Versions == {Version(m) : m \in VersionMessages}
Docs == {m.doc : m \in VersionMessages}
Hashes == {m.hash : m \in Messages}
SameRecord(m, r) ==
    Version(m) = Version(r) /\ (IsObject(m) => m.hash = r.hash)

Title == "title"             \* stands for a body where only the title is indexed
Bodies == Hashes \cup {Title, "none"}

NoRow == [state |-> "NONE", retired |-> FALSE, body |-> "none"]
Idle == [step |-> "idle"]

ReplicaInit ==
    /\ now = 1
    /\ usage = [period |-> 0, bytes |-> 2 * Cardinality(Stored), writes |-> 0]
    /\ received = Stored /\ records = Stored /\ links = {}
    /\ objects = {m.hash : m \in Stored}
    /\ journals = Stored /\ bodies = {m.hash : m \in Stored}
    /\ index = [v \in Versions |-> NoRow]
    /\ delivery = [d \in Deliveries |-> Idle]
    /\ faults = 0

------------------------------------------------------------------------------
(* The rows of one message *)

(* A later message of the same record takes over its row. *)
Upsert(m) == {r \in records : ~SameRecord(m, r)} \cup {m}

(***************************************************************************)
(* A version is registered for embedding, unless the row is READY for the  *)
(* same content.  When it can be served, it retires the other versions of  *)
(* its document, in the order of arrival, not of version numbers.          *)
(***************************************************************************)
Registered(m) ==
    [index EXCEPT ![Version(m)] =
        [state |-> IF @.state = "READY" /\ @.body = m.hash
                     THEN "READY" ELSE "PENDING",
         retired |-> FALSE, body |-> m.hash]]

RetiredAsExpired(row) ==     \* a mutant: a state that the table does not have
    [row EXCEPT !.state = "EXPIRED", !.retired = TRUE]
Retired(row) == [row EXCEPT !.state = "FAILED", !.retired = TRUE]

IndexAfter(m) ==
    [v \in Versions |->
        IF /\ m.servable /\ v[1] = m.doc /\ v # Version(m)
           /\ index[v] # NoRow /\ ~index[v].retired
          THEN Retired(index[v]) ELSE Registered(m)[v]]

------------------------------------------------------------------------------
(* One delivery *)

(* A mutant: what was purged is forgotten, and taken for a new message. *)
ReceiveForgotten(d, m) ==
    /\ delivery[d] = Idle
    /\ m \notin records
    /\ delivery' = [delivery EXCEPT
           ![d] = [step |-> "period", message |-> m, month |-> now]]
    /\ UNCHANGED <<now, tables, buckets, faults>>

(* isReplay: a message that is already stored is answered REPLAY at once. *)
Receive(d, m) ==
    /\ delivery[d] = Idle
    /\ m \notin received
    /\ Resend \/ \A e \in Deliveries \ {d} :
                    delivery[e] # Idle => delivery[e].message # m
    /\ delivery' = [delivery EXCEPT
           ![d] = [step |-> "period", message |-> m, month |-> now]]
    /\ UNCHANGED <<now, tables, buckets, faults>>

At(d, step) == delivery[d].step = step
Step(d, step) == delivery' = [delivery EXCEPT ![d].step = step]
Answer(d) == delivery' = [delivery EXCEPT ![d] = Idle]

(* The month is the one in which the call began. *)
ResetPeriod(d) ==
    /\ At(d, "period")
    /\ Step(d, "reserve")
    /\ usage' = IF usage.period = delivery[d].month THEN usage
                ELSE [usage EXCEPT !.period = delivery[d].month, !.writes = 0]
    /\ UNCHANGED <<now, received, records, objects, links, index, buckets, faults>>

PutsJournalOnly(m) == 1      \* a mutant: the bytes of the object are forgotten
Puts(m) == IF IsObject(m) THEN 2 ELSE 1

(* Nothing is given back when the delivery fails later on. *)
Reserve(d) ==
    LET puts == Puts(delivery[d].message)
        fits == /\ usage.bytes + puts <= MaxBytes
                /\ usage.writes + puts <= MaxWrites
    IN  /\ At(d, "reserve")
        /\ IF fits
             THEN /\ usage' = [usage EXCEPT !.bytes = @ + puts,
                                            !.writes = @ + puts]
                  /\ Step(d, "journal")
             ELSE UNCHANGED usage /\ Answer(d)            \* RATE_LIMITED
        /\ UNCHANGED <<now, received, records, objects, links, index, buckets,
                       faults>>

PutJournal(d) ==
    /\ At(d, "journal")
    /\ journals' = journals \cup {delivery[d].message}
    /\ Step(d, IF IsObject(delivery[d].message) THEN "body" ELSE "store")
    /\ UNCHANGED <<now, tables, bodies, faults>>

PutBody(d) ==
    /\ At(d, "body")
    /\ bodies' = bodies \cup {delivery[d].message.hash}
    /\ Step(d, "store")
    /\ UNCHANGED <<now, tables, journals, faults>>

(* The D1 batch: all of it or nothing. *)
Store(d) ==
    LET m == delivery[d].message
    IN  /\ At(d, "store")
        /\ Answer(d)
        /\ received' = received \cup {m}
        /\ records' = Upsert(m)
        /\ IF IsObject(m)
             THEN objects' = objects \cup {m.hash} /\ UNCHANGED <<links, index>>
             ELSE /\ links' = links \cup {<<Version(m), m.hash>>}
                  /\ index' = IndexAfter(m)
                  /\ UNCHANGED objects
        /\ UNCHANGED <<now, usage, buckets, faults>>

(* D1 or R2 refuses the next write, or the worker dies before it. *)
FailDelivery(d) ==
    /\ delivery[d] # Idle
    /\ faults < MaxFaults
    /\ faults' = faults + 1
    /\ Answer(d)
    /\ UNCHANGED <<now, tables, buckets>>

Tick == /\ now < LastMonth
        /\ now' = now + 1
        /\ UNCHANGED <<tables, buckets, delivery, faults>>

Deliver(d) ==
    \/ \E m \in Messages : Receive(d, m)
    \/ ResetPeriod(d) \/ Reserve(d) \/ PutJournal(d) \/ PutBody(d) \/ Store(d)
    \/ FailDelivery(d)

------------------------------------------------------------------------------
(* Properties *)

RowType == [state : {"NONE", "PENDING", "READY", "FAILED"},
            retired : BOOLEAN, body : Bodies]

(***************************************************************************)
(* Every column and bucket holds what the code can write to it.            *)
(***************************************************************************)
ReplicaTypeOK ==
    /\ now \in 1..LastMonth
    /\ usage \in [period : 0..LastMonth, bytes : 0..MaxBytes,
                  writes : 0..MaxWrites]
    /\ received \subseteq Messages /\ records \subseteq received
    /\ objects \subseteq Hashes
    /\ links \subseteq Versions \X Hashes
    /\ journals \subseteq Messages
    /\ bodies \subseteq Hashes
    /\ index \in [Versions -> RowType]
    /\ \A d \in Deliveries : delivery[d] = Idle \/ delivery[d] \in
           [step : {"period", "reserve", "journal", "body", "store"},
            message : Messages, month : 1..now]
    /\ faults \in 0..MaxFaults

(***************************************************************************)
(* The quota row never understates the bucket: whatever fails, is sent     *)
(* twice or overlaps, what R2 holds was reserved first.  It is what keeps  *)
(* the bucket within the stored-bytes guardrail.                           *)
(***************************************************************************)
UsageCoversStore == Cardinality(journals) + Cardinality(bodies) <= usage.bytes

==============================================================================
