---------------------------- MODULE ReplicaProofs ----------------------------
(***************************************************************************)
(* What the replica, its retention and the semantic index keep, for any    *)
(* messages, deliveries, sweeps, pushes and bounds.  The invariant adds to *)
(* the checked properties what is still owed to the bucket by a delivery   *)
(* that has reserved, what a delivery has written, and what a sweep at     *)
(* each of its steps knows of the mark it works from.                      *)
(***************************************************************************)
EXTENDS SemanticIndex, FiniteSetTheorems, WellFoundedInduction, TLAPS

------------------------------------------------------------------------------
(* Types *)

DeliveryType ==
    [step : {"period", "reserve", "journal", "body", "store"},
     message : Messages, month : 1..LastMonth]

PurgeSteps ==
    {"count", "body", "links", "records", "objects", "rows", "vectors", "flip"}

SweepType ==
    [step : {"asleep", "mark", "insert", "retire"} \cup PurgeSteps,
     todo : SUBSET Docs, capture : MarkType, hashes : SUBSET Hashes,
     deleted : SUBSET Hashes]

Types ==
    /\ TypeOK
    /\ delivery \in [Deliveries -> DeliveryType \cup {Idle}]
    /\ sweep \in [Sweeps -> SweepType]

------------------------------------------------------------------------------
(* What the deliveries and sweeps know *)

(* The puts that were reserved and are still to be made.                   *)
OwedJournals == {d \in Deliveries : delivery[d].step = "journal"}

OwedBodies ==
    {d \in Deliveries : /\ delivery[d].step \in {"journal", "body"}
                        /\ IsObject(delivery[d].message)}

UsageCoversPuts ==
    Cardinality(journals) + Cardinality(bodies)
        + Cardinality(OwedJournals) + Cardinality(OwedBodies) <= usage.bytes

(* A message or an object is in R2, or a mark has captured it.             *)
Kept(m) == m \in journals \/ \E doc \in Docs : m \in marks[doc].messages

KeptBody(h) == h \in bodies \/ \E doc \in Docs : h \in marks[doc].hashes

DeliveryKnows(d) ==
    /\ delivery[d].step = "body" => IsObject(delivery[d].message)
    /\ delivery[d].step \in {"body", "store"} => Kept(delivery[d].message)
    /\ delivery[d].step = "store" /\ IsObject(delivery[d].message) =>
          KeptBody(delivery[d].message.hash)

(* A mark holds versions of its document and their messages, all stored.   *)
IsStored(v) == \E m \in received : ~IsObject(m) /\ Version(m) = v

CaptureOf(doc, x) ==
    /\ \A v \in x.versions : v[1] = doc /\ IsStored(v)
    /\ \A m \in x.messages : m \in received /\ ~IsObject(m) /\ Version(m) \in x.versions

SweepKnows(s) ==
    /\ sweep[s].step \in {"insert", "retire"} \cup PurgeSteps => sweep[s].todo # {}
    /\ sweep[s].step = "insert" =>
          sweep[s].capture.status = "EXPIRED" /\ CaptureOf(Doc(s), sweep[s].capture)
    /\ sweep[s].step \in PurgeSteps => \A doc \in sweep[s].todo : marks[doc].status # "NONE"
    /\ sweep[s].step \in {"count", "body"} => sweep[s].hashes \subseteq Captured(s).hashes
    /\ sweep[s].step = "body" => sweep[s].hashes # {}

RInv ==
    /\ Types
    /\ UsageCoversPuts
    /\ StoredIsRecoverable
    /\ \A d \in Deliveries : DeliveryKnows(d)
    /\ \A doc \in Docs : /\ CaptureOf(doc, marks[doc])
                         /\ marks[doc].status = "NONE" => marks[doc] = NoMark
    /\ \A s \in Sweeps : SweepKnows(s)

(* Without overlapping attempts, no delivery carries what is stored or what *)
(* another one carries.                                                     *)
NoCopies ==
    /\ \A d \in Deliveries : delivery[d] # Idle => delivery[d].message \notin received
    /\ \A d, e \in Deliveries :
          /\ d # e /\ delivery[d] # Idle /\ delivery[e] # Idle
          => delivery[d].message # delivery[e].message

(* What a purge has deleted is gone.                                        *)
PurgeKnows(s) ==
    /\ sweep[s].step \in PurgeSteps \ {"count", "body"} =>
          Captured(s).messages \cap journals = {}
    /\ sweep[s].step \in {"objects", "rows", "vectors", "flip"} =>
          Captured(s).messages \cap records = {}

PInv == NoCopies /\ PurgedStaysGone /\ \A s \in Sweeps : PurgeKnows(s)

------------------------------------------------------------------------------
(* Facts about messages and the documents a sweep works on *)

LEMMA LeastOf ==
    ASSUME NEW T, T \subseteq Nat, T # {}
    PROVE  \E m \in T : \A n \in T : m <= n
<1>1. PICK m \in T : \A n \in T : <<n, m>> \notin OpToRel(<, Nat)
  BY NatLessThanWellFounded, WFMin, Zenon
<1>2. \A n \in T : ~(n < m)
  BY <1>1, Zenon DEF OpToRel
<1> QED
  BY <1>2

(* A message names a version of a document or the bytes of an object.        *)
LEMMA MessagesTyped ==
    ASSUME NEW m \in Messages
    PROVE  /\ m.hash \in Hashes /\ m.hash \in Bodies
           /\ ~IsObject(m) => Version(m) \in Versions /\ m.doc \in Docs
           /\ Version(m) = <<m.doc, m.number>>
<1>1. ~IsObject(m) => m \in VersionMessages
  BY DEF VersionMessages
<1> QED
  BY <1>1 DEF Hashes, Bodies, Versions, Docs, Version

LEMMA VersionsTyped ==
    ASSUME NEW v \in Versions
    PROVE  v[1] \in Docs /\ \E m \in Messages : ~IsObject(m) /\ v = <<m.doc, m.number>>
<1>1. PICK m \in VersionMessages : v = <<m.doc, m.number>>
  BY DEF Versions, Version
<1> QED
  BY <1>1 DEF VersionMessages, Docs

LEMMA DocsTyped == Docs \subseteq Nat /\ NoDoc \notin Docs
<1>1. ASSUME NEW m \in VersionMessages PROVE m.doc \in Nat /\ m.doc # NoDoc
  BY ReplicaAssumption DEF VersionMessages, MessageType, IsObject
<1> QED
  BY <1>1 DEF Docs

(* The sweep turns to one of its documents.                                  *)
LEMMA DocIsToDo ==
    ASSUME NEW s \in Sweeps, sweep[s].todo \subseteq Docs, sweep[s].todo # {}
    PROVE  Doc(s) \in sweep[s].todo /\ Doc(s) \in Docs
<1>1. sweep[s].todo \subseteq Nat
  BY DocsTyped
<1>2. \E x \in sweep[s].todo : \A y \in sweep[s].todo : x <= y
  BY <1>1, LeastOf
<1>3. Doc(s) \in sweep[s].todo
  BY <1>2 DEF Doc, Min
<1> QED
  BY <1>3

LEMMA LeastDoc ==
    ASSUME NEW docs, docs \subseteq Docs, docs # {}
    PROVE  Min(docs) \in docs
<1>1. docs \subseteq Nat
  BY DocsTyped
<1>2. \E x \in docs : \A y \in docs : x <= y
  BY <1>1, LeastOf
<1> QED
  BY <1>2 DEF Min

LEMMA HashesAreFinite == IsFiniteSet(Hashes)
<1> DEFINE f == [m \in Messages |-> m.hash]
<1>1. f \in Surjection(Messages, Hashes)
  BY DEF Surjection, Hashes
<1> QED
  BY <1>1, FS_Surjection, ReplicaAssumption

------------------------------------------------------------------------------
(* Types: the deliveries *)

(* A delivery that is at a step has a message.                               *)
LEMMA OnItsWay ==
    ASSUME Types, NEW d \in Deliveries, delivery[d] # Idle
    PROVE  /\ delivery[d] \in DeliveryType
           /\ delivery[d].message \in Messages
           /\ delivery[d].month \in 1..now
           /\ delivery[d].step # "idle"
BY DEF Types, TypeOK, ReplicaTypeOK, DeliveryType

LEMMA IdleHasNoStep == Idle.step = "idle"
BY DEF Idle

LEMMA MovedDelivery ==
    ASSUME Types, NEW d \in Deliveries, NEW x \in DeliveryType \cup {Idle},
           x = Idle \/ x.month <= now, now' = now,
           delivery' = [delivery EXCEPT ![d] = x]
    PROVE  /\ delivery' \in [Deliveries -> DeliveryType \cup {Idle}]
           /\ \A e \in Deliveries : delivery'[e] = Idle \/ delivery'[e] \in
                  [step : {"period", "reserve", "journal", "body", "store"},
                   message : Messages, month : 1..now']
<1>1. delivery' \in [Deliveries -> DeliveryType \cup {Idle}]
  BY DEF Types
<1>2. now \in 1..LastMonth
  BY DEF Types, TypeOK, ReplicaTypeOK
<1>3. ASSUME x # Idle
      PROVE  x \in [step : {"period", "reserve", "journal", "body", "store"},
                    message : Messages, month : 1..now]
  BY <1>2, <1>3, ReplicaAssumption DEF DeliveryType
<1>4. ASSUME NEW e \in Deliveries
      PROVE  delivery'[e] = Idle \/ delivery'[e] \in
                 [step : {"period", "reserve", "journal", "body", "store"},
                  message : Messages, month : 1..now']
  <2>1. CASE e = d
    BY <1>3, <2>1 DEF Types
  <2>2. CASE e # d
    BY <2>2 DEF Types, TypeOK, ReplicaTypeOK
  <2> QED
    BY <2>1, <2>2
<1> QED
  BY <1>1, <1>4

(* A delivery that goes to its next step keeps message and month.            *)
LEMMA SteppedDelivery ==
    ASSUME Types, NEW d \in Deliveries, delivery[d] # Idle,
           NEW step \in {"period", "reserve", "journal", "body", "store"},
           Step(d, step)
    PROVE  \E x \in DeliveryType :
               /\ delivery' = [delivery EXCEPT ![d] = x]
               /\ x.step = step /\ x.message = delivery[d].message
               /\ x.month = delivery[d].month /\ x.month <= now /\ x # Idle
<1> DEFINE x == [delivery[d] EXCEPT !.step = step]
<1>1. delivery[d] \in DeliveryType /\ delivery[d].month \in 1..now /\ now \in 1..LastMonth
  BY OnItsWay DEF Types, TypeOK, ReplicaTypeOK
<1>2. /\ x \in DeliveryType /\ x.step = step /\ x.message = delivery[d].message
      /\ x.month = delivery[d].month
  BY <1>1 DEF DeliveryType
<1>3. x.month <= now
  BY <1>1, <1>2, ReplicaAssumption
<1>4. delivery' = [delivery EXCEPT ![d] = x]
  BY DEF Step
<1>5. x # Idle
  BY <1>2, IdleHasNoStep
<1> QED
  BY <1>2, <1>3, <1>4, <1>5

(* The tables and buckets, without the clock and what is in flight.          *)
TablesTyped ==
    /\ usage \in [period : 0..LastMonth, bytes : 0..MaxBytes, writes : 0..MaxWrites]
    /\ received \subseteq Messages /\ records \subseteq received
    /\ objects \subseteq Hashes /\ links \subseteq Versions \X Hashes
    /\ journals \subseteq Messages /\ bodies \subseteq Hashes
    /\ index \in [Versions -> RowType]
    /\ faults \in 0..MaxFaults

DeliveriesTyped ==
    /\ delivery \in [Deliveries -> DeliveryType \cup {Idle}]
    /\ \A e \in Deliveries : delivery[e] = Idle \/ delivery[e] \in
           [step : {"period", "reserve", "journal", "body", "store"},
            message : Messages, month : 1..now]

SweepsTyped ==
    /\ sweep \in [Sweeps -> SweepType]
    /\ \A s \in Sweeps : sweep[s].step \notin {"asleep", "mark"} => sweep[s].todo # {}

LEMMA TypesAre ==
    Types <=> /\ TablesTyped /\ now \in 1..LastMonth /\ DeliveriesTyped /\ SweepsTyped
              /\ marks \in [Docs -> MarkType] /\ vectors \in [Versions -> Bodies]
BY DEF Types, TypeOK, ReplicaTypeOK, TablesTyped, DeliveriesTyped, SweepsTyped, SweepType

LEMMA TypesFrom ==
    ASSUME TablesTyped', now' \in 1..LastMonth, DeliveriesTyped', SweepsTyped',
           marks' \in [Docs -> MarkType], vectors' \in [Versions -> Bodies]
    PROVE  Types'
BY DEF Types, TypeOK, ReplicaTypeOK, TablesTyped, DeliveriesTyped, SweepsTyped, SweepType

LEMMA RegisteredTyped ==
    ASSUME Types, NEW m \in Messages, ~IsObject(m)
    PROVE  IndexAfter(m) \in [Versions -> RowType] /\ Registered(m) \in [Versions -> RowType]
<1>1. index \in [Versions -> RowType]
  BY TypesAre DEF TablesTyped
<1>2. Version(m) \in Versions /\ m.hash \in Bodies
  BY MessagesTyped
<1>3. Registered(m) \in [Versions -> RowType]
  BY <1>1, <1>2 DEF Registered, RowType
<1>4. ASSUME NEW v \in Versions PROVE Retired(index[v]) \in RowType
  BY <1>1 DEF Retired, RowType
<1> QED
  BY <1>3, <1>4 DEF IndexAfter

LEMMA DeliverTypes ==
    ASSUME Types, NEW d \in Deliveries, Deliver(d), UNCHANGED <<marks, vectors, sweep>>
    PROVE  Types'
<1>1. now \in 1..LastMonth /\ TablesTyped /\ SweepsTyped
  BY TypesAre
<1>2. /\ SweepsTyped' /\ marks' \in [Docs -> MarkType] /\ vectors' \in [Versions -> Bodies]
  BY TypesAre DEF SweepsTyped
<1>3. SUFFICES now' = now /\ TablesTyped' /\ DeliveriesTyped'
  BY <1>1, <1>2, TypesFrom
<1>4. ASSUME NEW m \in Messages, Receive(d, m)
      PROVE  now' = now /\ TablesTyped' /\ DeliveriesTyped'
  <2> DEFINE x == [step |-> "period", message |-> m, month |-> now]
  <2>1. x \in DeliveryType /\ x.month <= now
    BY <1>1, ReplicaAssumption DEF DeliveryType
  <2>2. delivery' = [delivery EXCEPT ![d] = x] /\ now' = now
    BY <1>4 DEF Receive
  <2> HIDE DEF x
  <2>3. DeliveriesTyped'
    BY <2>1, <2>2, MovedDelivery DEF DeliveriesTyped
  <2> QED
    BY <1>1, <1>4, <2>3 DEF Receive, TablesTyped, tables, buckets
<1>5. ASSUME now' = now, delivery[d] # Idle, Answer(d) PROVE DeliveriesTyped'
  BY <1>5, MovedDelivery DEF Answer, DeliveriesTyped
<1>6. ASSUME now' = now, delivery[d] # Idle,
             NEW step \in {"period", "reserve", "journal", "body", "store"}, Step(d, step)
      PROVE  DeliveriesTyped'
  BY <1>6, MovedDelivery, SteppedDelivery DEF DeliveriesTyped
<1>7. ASSUME NEW step \in {"period", "reserve", "journal", "body", "store"}, At(d, step)
      PROVE  delivery[d] # Idle
  BY <1>7, IdleHasNoStep DEF At
<1>8. CASE ResetPeriod(d)
  <2>1. delivery[d] # Idle /\ Step(d, "reserve") /\ now' = now
    BY <1>7, <1>8 DEF ResetPeriod
  <2>2. delivery[d].month \in 0..LastMonth
    BY <2>1, <1>1, OnItsWay, ReplicaAssumption
  <2>3. usage' \in [period : 0..LastMonth, bytes : 0..MaxBytes, writes : 0..MaxWrites]
    <3>1. usage \in [period : 0..LastMonth, bytes : 0..MaxBytes, writes : 0..MaxWrites]
      BY <1>1 DEF TablesTyped
    <3>2. 0 \in 0..MaxWrites
      BY ReplicaAssumption
    <3>3. CASE usage.period = delivery[d].month
      BY <1>8, <3>1, <3>3 DEF ResetPeriod
    <3>4. CASE usage.period # delivery[d].month
      <4>1. usage' = [usage EXCEPT !.period = delivery[d].month, !.writes = 0]
        BY <1>8, <3>4 DEF ResetPeriod
      <4> QED
        BY <2>2, <3>1, <3>2, <4>1
    <3> QED
      BY <3>3, <3>4
  <2>4. TablesTyped'
    BY <1>1, <1>8, <2>3 DEF ResetPeriod, TablesTyped, buckets
  <2> QED
    BY <1>6, <2>1, <2>4
<1>9. CASE Reserve(d)
  <2>1. delivery[d] # Idle /\ now' = now
    BY <1>7, <1>9 DEF Reserve
  <2>2. DeliveriesTyped'
    BY <1>5, <1>6, <1>9, <2>1 DEF Reserve
  <2>3. Puts(delivery[d].message) \in 1..2
    BY DEF Puts
  <2>4. usage' \in [period : 0..LastMonth, bytes : 0..MaxBytes, writes : 0..MaxWrites]
    <3> DEFINE puts == Puts(delivery[d].message)
    <3>1. usage \in [period : 0..LastMonth, bytes : 0..MaxBytes, writes : 0..MaxWrites]
      BY <1>1 DEF TablesTyped
    <3>2. MaxBytes \in Nat /\ MaxWrites \in Nat
      BY ReplicaAssumption
    <3>3. CASE usage' = usage
      BY <3>1, <3>3
    <3>4. CASE usage' # usage
      <4>1. /\ usage.bytes + puts <= MaxBytes /\ usage.writes + puts <= MaxWrites
            /\ usage' = [usage EXCEPT !.bytes = @ + puts, !.writes = @ + puts]
        BY <1>9, <3>4 DEF Reserve
      <4> HIDE DEF puts
      <4>2. puts \in 1..2
        BY <2>3 DEF puts
      <4>3. usage.bytes \in 0..MaxBytes /\ usage.writes \in 0..MaxWrites
        BY <3>1
      <4>4. usage.bytes + puts \in 0..MaxBytes /\ usage.writes + puts \in 0..MaxWrites
        BY <3>2, <4>1, <4>2, <4>3
      <4> QED
        BY <3>1, <4>1, <4>4
    <3> QED
      BY <3>3, <3>4
  <2> QED
    BY <1>1, <1>9, <2>1, <2>2, <2>4 DEF Reserve, TablesTyped, buckets
<1>10. CASE PutJournal(d)
  <2>1. delivery[d] # Idle /\ now' = now
    BY <1>7, <1>10 DEF PutJournal
  <2>2. DeliveriesTyped'
    BY <1>6, <1>10, <2>1 DEF PutJournal
  <2>3. delivery[d].message \in Messages
    BY <2>1, OnItsWay
  <2> QED
    BY <1>1, <1>10, <2>1, <2>2, <2>3 DEF PutJournal, TablesTyped, tables
<1>11. CASE PutBody(d)
  <2>1. delivery[d] # Idle /\ now' = now /\ Step(d, "store")
    BY <1>7, <1>11 DEF PutBody
  <2>2. delivery[d].message.hash \in Hashes
    BY <2>1, OnItsWay, MessagesTyped
  <2>3. DeliveriesTyped'
    BY <1>6, <2>1
  <2> QED
    BY <1>1, <1>11, <2>1, <2>2, <2>3 DEF PutBody, TablesTyped, tables
<1>12. CASE Store(d)
  <2> DEFINE m == delivery[d].message
  <2>1. delivery[d] # Idle /\ now' = now /\ Answer(d)
    BY <1>7, <1>12 DEF Store
  <2>2. m \in Messages /\ m.hash \in Hashes
    BY <2>1, OnItsWay, MessagesTyped
  <2>3. DeliveriesTyped'
    BY <1>5, <2>1
  <2>4. received' \subseteq Messages /\ records' \subseteq received'
    BY <1>1, <1>12, <2>2 DEF Store, Upsert, TablesTyped
  <2>5. objects' \subseteq Hashes /\ links' \subseteq Versions \X Hashes
    BY <1>1, <1>12, <2>2, MessagesTyped DEF Store, TablesTyped
  <2>6. index' \in [Versions -> RowType]
    BY <1>1, <1>12, <2>2, RegisteredTyped DEF Store, TablesTyped
  <2> QED
    BY <1>1, <1>12, <2>1, <2>3, <2>4, <2>5, <2>6 DEF Store, TablesTyped, buckets
<1>13. CASE FailDelivery(d)
  <2>1. delivery[d] # Idle /\ now' = now /\ Answer(d)
    BY <1>13 DEF FailDelivery
  <2>2. DeliveriesTyped'
    BY <1>5, <2>1
  <2> QED
    BY <1>1, <1>13, <2>1, <2>2, ReplicaAssumption
    DEF FailDelivery, TablesTyped, tables, buckets
<1> QED
  BY <1>4, <1>8, <1>9, <1>10, <1>11, <1>12, <1>13 DEF Deliver

LEMMA TickTypes ==
    ASSUME Types, Tick, UNCHANGED <<marks, vectors, sweep>>
    PROVE  Types'
<1>1. /\ now \in 1..LastMonth /\ TablesTyped /\ SweepsTyped /\ DeliveriesTyped
      /\ marks \in [Docs -> MarkType] /\ vectors \in [Versions -> Bodies]
  BY TypesAre
<1>2. now' \in 1..LastMonth /\ now < now'
  BY <1>1, ReplicaAssumption DEF Tick
<1>3. TablesTyped' /\ SweepsTyped'
  BY <1>1 DEF Tick, TablesTyped, SweepsTyped, tables, buckets
<1>4. ASSUME NEW e \in Deliveries, delivery[e] # Idle
      PROVE  delivery'[e] \in [step : {"period", "reserve", "journal", "body", "store"},
                               message : Messages, month : 1..now']
  BY <1>1, <1>2, <1>4 DEF Tick, DeliveriesTyped
<1>5. DeliveriesTyped'
  BY <1>1, <1>4 DEF Tick, DeliveriesTyped
<1> QED
  BY <1>1, <1>2, <1>3, <1>5, TypesFrom

------------------------------------------------------------------------------
(* Types: the sweeps and the pushes *)

(* A sweep at work has a document, with its mark.                            *)
LEMMA SweepIs ==
    ASSUME Types, NEW s \in Sweeps
    PROVE  /\ sweep[s] \in SweepType
           /\ sweep[s].todo \subseteq Docs
           /\ sweep[s].step \notin {"asleep", "mark"} => sweep[s].todo # {}
           /\ sweep[s].todo # {} => /\ Doc(s) \in sweep[s].todo /\ Doc(s) \in Docs
                                    /\ Captured(s) \in MarkType
<1>1. /\ sweep[s] \in SweepType
      /\ sweep[s].step \notin {"asleep", "mark"} => sweep[s].todo # {}
  BY TypesAre DEF SweepsTyped
<1>2. sweep[s].todo \subseteq Docs
  BY <1>1 DEF SweepType
<1>3. ASSUME sweep[s].todo # {} PROVE Doc(s) \in sweep[s].todo /\ Doc(s) \in Docs
  BY <1>2, <1>3, DocIsToDo
<1>4. Doc(s) \in Docs => Captured(s) \in MarkType
  BY TypesAre DEF Captured
<1> QED
  BY <1>1, <1>2, <1>3, <1>4

LEMMA MovedSweep ==
    ASSUME Types, NEW s \in Sweeps, NEW x \in SweepType,
           x.step \notin {"asleep", "mark"} => x.todo # {},
           sweep' = [sweep EXCEPT ![s] = x]
    PROVE  SweepsTyped'
BY TypesAre DEF SweepsTyped

(* A sweep that goes to its next step keeps the rest.                        *)
LEMMA SteppedSweep ==
    ASSUME Types, NEW s \in Sweeps, NEW step \in PurgeSteps \cup {"retire"},
           SweepStep(s, step)
    PROVE  \E x \in SweepType :
              /\ sweep' = [sweep EXCEPT ![s] = x]
              /\ x.step = step /\ x.todo = sweep[s].todo /\ x.capture = sweep[s].capture
              /\ x.hashes = sweep[s].hashes /\ x.deleted = sweep[s].deleted
<1> DEFINE x == [sweep[s] EXCEPT !.step = step]
<1>1. sweep[s] \in SweepType
  BY SweepIs
<1>2. /\ x \in SweepType
      /\ x.step = step /\ x.todo = sweep[s].todo /\ x.capture = sweep[s].capture
      /\ x.hashes = sweep[s].hashes /\ x.deleted = sweep[s].deleted
  BY <1>1 DEF SweepType
<1>3. sweep' = [sweep EXCEPT ![s] = x]
  BY DEF SweepStep
<1> QED
  BY <1>2, <1>3

LEMMA NoMarkTyped == NoMark \in MarkType
BY DEF NoMark, MarkType

LEMMA AsleepTyped == Asleep \in SweepType /\ Asleep.step = "asleep" /\ Asleep.todo = {}
BY NoMarkTyped DEF Asleep, SweepType

(* A sweep turns to the first of some marked documents.                      *)
LEMMA NextTyped ==
    ASSUME Types, NEW docs, docs \subseteq Docs
    PROVE  /\ PurgeNext(docs) \in SweepType
           /\ docs = {} => PurgeNext(docs) = Asleep
           /\ docs # {} => /\ Min(docs) \in docs
                           /\ PurgeNext(docs).step = "count" /\ PurgeNext(docs).todo = docs
                           /\ PurgeNext(docs).hashes = marks[Min(docs)].hashes
<1>1. CASE docs = {}
  BY <1>1, AsleepTyped DEF PurgeNext
<1>2. CASE docs # {}
  <2>1. Min(docs) \in docs
    BY <1>2, LeastDoc
  <2>2. marks[Min(docs)].hashes \subseteq Hashes
    BY <2>1, TypesAre DEF MarkType
  <2>3. PurgeNext(docs) = [Asleep EXCEPT !.step = "count", !.todo = docs,
                                         !.hashes = marks[Min(docs)].hashes]
    BY <1>2 DEF PurgeNext
  <2> QED
    BY <1>2, <2>1, <2>2, <2>3, AsleepTyped DEF SweepType, PurgeSteps
<1> QED
  BY <1>1, <1>2

(* What every step of a sweep changes of the types.                          *)
LEMMA SweepTypes ==
    ASSUME Types, NEW s \in Sweeps, SweepKnows(s), Sweep(s) \/ FailSweep(s)
    PROVE  Types'
<1>1. /\ now \in 1..LastMonth /\ TablesTyped /\ DeliveriesTyped /\ SweepsTyped
      /\ marks \in [Docs -> MarkType] /\ vectors \in [Versions -> Bodies]
  BY TypesAre
<1>2. /\ sweep[s] \in SweepType /\ sweep[s].todo \subseteq Docs
      /\ sweep[s].step \notin {"asleep", "mark"} => sweep[s].todo # {}
      /\ sweep[s].todo # {} => /\ Doc(s) \in sweep[s].todo /\ Doc(s) \in Docs
                               /\ Captured(s) \in MarkType
  BY SweepIs
<1>3. now' = now /\ delivery' = delivery
  BY DEF Sweep, Mark, Purge, Scan, Capture, InsertMark, RetireRows, ListBacklog,
         CountReferences, DeleteBody, DeleteJournals, DeleteLinks, DeleteRecords,
         DeleteObjectRows, DeleteRows, DeleteVectors, Flip, FailSweep, replicaVars
<1>4. now' \in 1..LastMonth /\ DeliveriesTyped'
  BY <1>1, <1>3 DEF DeliveriesTyped
<1>5. SUFFICES /\ TablesTyped' /\ SweepsTyped' /\ marks' \in [Docs -> MarkType]
               /\ vectors' \in [Versions -> Bodies]
  BY <1>4, TypesFrom
<1>6. ASSUME UNCHANGED <<tables, buckets, faults>> PROVE TablesTyped'
  BY <1>1, <1>6 DEF TablesTyped, tables, buckets
<1>7. ASSUME NEW v \in Versions PROVE Retired(index[v]) \in RowType
  BY <1>1 DEF Retired, RowType, TablesTyped
<1>8. CASE Scan(s)
  <2> DEFINE todo == {doc \in Docs : PastWindow(doc) /\ ~IsExpired(doc)}
             x == [sweep[s] EXCEPT !.step = "mark", !.todo = todo]
  <2>1. sweep' = [sweep EXCEPT ![s] = x]
    BY <1>8 DEF Scan
  <2>2. todo \in SUBSET Docs
    OBVIOUS
  <2> HIDE DEF todo
  <2>3. x \in SweepType /\ x.step = "mark"
    BY <1>2, <2>2 DEF SweepType
  <2> HIDE DEF x
  <2>4. SweepsTyped'
    BY <2>1, <2>3, MovedSweep
  <2> QED
    BY <1>1, <1>6, <1>8, <2>4 DEF Scan, replicaVars
<1>9. CASE Capture(s)
  <2> DEFINE versions == {Version(r) : r \in RecordsOf(Doc(s))}
             capture == [status |-> "EXPIRED", versions |-> versions,
                         messages |-> {m \in received : ~IsObject(m)
                                                        /\ Version(m) \in versions},
                         hashes |-> {l[2] : l \in {k \in links : k[1] \in versions}}]
             x == [sweep[s] EXCEPT !.step = "insert", !.capture = capture]
  <2>1. sweep' = [sweep EXCEPT ![s] = x] /\ sweep[s].todo # {}
    BY <1>9 DEF Capture
  <2>2. versions \subseteq Versions
    <3>1. ASSUME NEW r \in RecordsOf(Doc(s)) PROVE Version(r) \in Versions
      <4>1. r \in Messages /\ r.doc = Doc(s)
        BY <1>1 DEF RecordsOf, TablesTyped
      <4>2. ~IsObject(r)
        BY <1>2, <2>1, <4>1, DocsTyped DEF IsObject
      <4> QED
        BY <4>1, <4>2, MessagesTyped
    <3> QED
      BY <3>1
  <2> HIDE DEF versions
  <2>3. capture \in MarkType
    <3>1. {m \in received : ~IsObject(m) /\ Version(m) \in versions} \subseteq Messages
      BY <1>1 DEF TablesTyped
    <3>2. {l[2] : l \in {k \in links : k[1] \in versions}} \subseteq Hashes
      BY <1>1 DEF TablesTyped
    <3> QED
      BY <2>2, <3>1, <3>2 DEF MarkType
  <2> HIDE DEF capture
  <2>4. x \in SweepType /\ x.todo = sweep[s].todo
    BY <1>2, <2>3 DEF SweepType
  <2> HIDE DEF x
  <2>5. SweepsTyped'
    BY <2>1, <2>4, MovedSweep
  <2> QED
    BY <1>1, <1>6, <1>9, <2>5 DEF Capture, replicaVars
<1>10. ASSUME NEW step \in PurgeSteps \cup {"retire"}, SweepStep(s, step),
              sweep[s].todo # {}
       PROVE  SweepsTyped'
  <2>1. PICK x \in SweepType : /\ sweep' = [sweep EXCEPT ![s] = x]
                               /\ x.todo = sweep[s].todo
    BY <1>10, SteppedSweep
  <2> QED
    BY <1>10, <2>1, MovedSweep
<1>11. CASE InsertMark(s)
  <2>1. sweep[s].todo # {} /\ SweepStep(s, "retire")
    BY <1>2, <1>11 DEF InsertMark, SweepAt
  <2>2. SweepsTyped'
    BY <1>10, <2>1
  <2>3. sweep[s].capture \in MarkType
    BY <1>2 DEF SweepType
  <2>4. marks' \in [Docs -> MarkType]
    BY <1>1, <1>11, <2>3 DEF InsertMark
  <2> QED
    BY <1>1, <1>6, <1>11, <2>2, <2>4 DEF InsertMark, replicaVars
<1>12. CASE RetireRows(s)
  <2> DEFINE todo == sweep[s].todo \ {Doc(s)}
             x == [sweep[s] EXCEPT !.step = "mark", !.capture = NoMark, !.todo = todo]
  <2>1. sweep' = [sweep EXCEPT ![s] = x]
    BY <1>12 DEF RetireRows
  <2>2. todo \in SUBSET Docs
    BY <1>2
  <2> HIDE DEF todo
  <2>3. x \in SweepType /\ x.step = "mark"
    BY <1>2, <2>2, NoMarkTyped DEF SweepType
  <2> HIDE DEF x
  <2>4. SweepsTyped'
    BY <2>1, <2>3, MovedSweep
  <2>5. index' \in [Versions -> RowType]
    BY <1>1, <1>7, <1>12 DEF RetireRows, TablesTyped
  <2>6. TablesTyped'
    BY <1>1, <1>12, <2>5 DEF RetireRows, TablesTyped, tablesButIndex, buckets
  <2> QED
    BY <1>1, <1>12, <2>4, <2>6 DEF RetireRows
<1>13. CASE ListBacklog(s)
  <2> DEFINE docs == {doc \in Docs : IsExpired(doc)}
             x == PurgeNext(docs)
  <2>1. sweep' = [sweep EXCEPT ![s] = x]
    BY <1>13 DEF ListBacklog
  <2>2. x \in SweepType /\ (x.step \notin {"asleep", "mark"} => x.todo # {})
    <3> HIDE DEF docs
    <3>1. docs \subseteq Docs
      BY DEF docs
    <3> QED
      BY <3>1, NextTyped, AsleepTyped
  <2> HIDE DEF x
  <2>3. SweepsTyped'
    BY <2>1, <2>2, MovedSweep
  <2> QED
    BY <1>1, <1>6, <1>13, <2>3 DEF ListBacklog, replicaVars
<1>14. CASE CountReferences(s)
  <2>1. sweep[s].todo # {} /\ sweep[s].step = "count"
    BY <1>2, <1>14 DEF CountReferences, SweepAt
  <2>2. CASE SweepStep(s, "body")
    BY <1>1, <1>6, <1>10, <1>14, <2>1, <2>2 DEF CountReferences, replicaVars, PurgeSteps
  <2>3. CASE ~SweepStep(s, "body")
    <3> DEFINE x == [sweep[s] EXCEPT !.hashes = @ \ {Hash(s)}]
    <3>1. sweep' = [sweep EXCEPT ![s] = x]
      BY <1>14, <2>3 DEF CountReferences
    <3>2. x \in SweepType /\ x.todo = sweep[s].todo
      BY <1>2 DEF SweepType
    <3> HIDE DEF x
    <3>3. SweepsTyped'
      BY <2>1, <3>1, <3>2, MovedSweep
    <3> QED
      BY <1>1, <1>6, <1>14, <3>3 DEF CountReferences, replicaVars
  <2> QED
    BY <2>2, <2>3
<1>15. CASE DeleteBody(s)
  <2> DEFINE x == [sweep[s] EXCEPT !.step = "count", !.hashes = @ \ {Hash(s)},
                                   !.deleted = @ \cup {Hash(s)}]
  <2>1. sweep[s].todo # {} /\ sweep' = [sweep EXCEPT ![s] = x]
    BY <1>2, <1>15 DEF DeleteBody, SweepAt
  <2>2. Hash(s) \in Hashes
    BY <1>2, <1>15 DEF DeleteBody, SweepAt, SweepKnows, Hash, SweepType
  <2>3. x \in SweepType /\ x.todo = sweep[s].todo
    BY <1>2, <2>2 DEF SweepType, PurgeSteps
  <2> HIDE DEF x
  <2>4. SweepsTyped'
    BY <2>1, <2>3, MovedSweep
  <2>5. TablesTyped'
    BY <1>1, <1>15 DEF DeleteBody, TablesTyped, tables
  <2> QED
    BY <1>1, <1>15, <2>4, <2>5 DEF DeleteBody
<1>16. CASE DeleteJournals(s)
  <2>1. sweep[s].todo # {} /\ SweepStep(s, "links")
    BY <1>2, <1>16 DEF DeleteJournals, SweepAt
  <2>2. TablesTyped'
    BY <1>1, <1>16 DEF DeleteJournals, TablesTyped, tables
  <2> QED
    BY <1>1, <1>10, <1>16, <2>1, <2>2 DEF DeleteJournals, PurgeSteps
<1>17. CASE DeleteLinks(s)
  <2>1. sweep[s].todo # {} /\ SweepStep(s, "records")
    BY <1>2, <1>17 DEF DeleteLinks, SweepAt
  <2>2. TablesTyped'
    BY <1>1, <1>17 DEF DeleteLinks, TablesTyped, buckets
  <2> QED
    BY <1>1, <1>10, <1>17, <2>1, <2>2 DEF DeleteLinks, PurgeSteps
<1>18. CASE DeleteRecords(s)
  <2>1. sweep[s].todo # {} /\ SweepStep(s, "objects")
    BY <1>2, <1>18 DEF DeleteRecords, SweepAt
  <2>2. TablesTyped'
    BY <1>1, <1>18 DEF DeleteRecords, TablesTyped, buckets
  <2> QED
    BY <1>1, <1>10, <1>18, <2>1, <2>2 DEF DeleteRecords, PurgeSteps
<1>19. CASE DeleteObjectRows(s)
  <2>1. sweep[s].todo # {} /\ SweepStep(s, "rows")
    BY <1>2, <1>19 DEF DeleteObjectRows, SweepAt
  <2>2. TablesTyped'
    BY <1>1, <1>19 DEF DeleteObjectRows, TablesTyped, buckets
  <2> QED
    BY <1>1, <1>10, <1>19, <2>1, <2>2 DEF DeleteObjectRows, PurgeSteps
<1>20. CASE DeleteRows(s)
  <2>1. sweep[s].todo # {} /\ SweepStep(s, "vectors")
    BY <1>2, <1>20 DEF DeleteRows, SweepAt
  <2>2. NoRow \in RowType
    BY DEF NoRow, RowType, Bodies
  <2>3. index' \in [Versions -> RowType]
    BY <1>1, <1>20, <2>2 DEF DeleteRows, TablesTyped
  <2>4. TablesTyped'
    BY <1>1, <1>20, <2>3 DEF DeleteRows, TablesTyped, tablesButIndex, buckets
  <2> QED
    BY <1>1, <1>10, <1>20, <2>1, <2>4 DEF DeleteRows, PurgeSteps
<1>21. CASE DeleteVectors(s)
  <2>1. sweep[s].todo # {} /\ SweepStep(s, "flip")
    BY <1>2, <1>21 DEF DeleteVectors, SweepAt
  <2>2. vectors' \in [Versions -> Bodies]
    BY <1>1, <1>21 DEF DeleteVectors, NoVector, Bodies
  <2> QED
    BY <1>1, <1>6, <1>10, <1>21, <2>1, <2>2 DEF DeleteVectors, replicaVars, PurgeSteps
<1>22. CASE Flip(s)
  <2> DEFINE todo == sweep[s].todo \ {Doc(s)}
             x == IF IsExpired(Doc(s)) THEN PurgeNext(todo) ELSE Asleep
  <2>1. sweep' = [sweep EXCEPT ![s] = x]
    BY <1>22 DEF Flip
  <2>2. x \in SweepType /\ (x.step \notin {"asleep", "mark"} => x.todo # {})
    <3> HIDE DEF todo
    <3>1. todo \subseteq Docs
      BY <1>2 DEF todo
    <3> QED
      BY <3>1, NextTyped, AsleepTyped
  <2> HIDE DEF x
  <2>3. SweepsTyped'
    BY <2>1, <2>2, MovedSweep
  <2>4. marks' \in [Docs -> MarkType]
    BY <1>1, <1>22 DEF Flip, MarkType
  <2> QED
    BY <1>1, <1>6, <1>22, <2>3, <2>4 DEF Flip, replicaVars
<1>23. CASE FailSweep(s)
  <2>1. SweepsTyped'
    BY <1>23, AsleepTyped, MovedSweep DEF FailSweep
  <2>2. TablesTyped'
    BY <1>1, <1>23, ReplicaAssumption DEF FailSweep, TablesTyped, tables, buckets
  <2> QED
    BY <1>1, <1>23, <2>1, <2>2 DEF FailSweep
<1> QED
  BY <1>8, <1>9, <1>11, <1>12, <1>13, <1>14, <1>15, <1>16, <1>17, <1>18, <1>19, <1>20,
     <1>21, <1>22, <1>23 DEF Sweep, Mark, Purge

------------------------------------------------------------------------------
(* The quota row covers what was put and what is still to be put *)

LEMMA CountsAreNat ==
    ASSUME Types
    PROVE  /\ IsFiniteSet(journals) /\ Cardinality(journals) \in Nat
           /\ IsFiniteSet(bodies) /\ Cardinality(bodies) \in Nat
           /\ IsFiniteSet(OwedJournals) /\ Cardinality(OwedJournals) \in Nat
           /\ IsFiniteSet(OwedBodies) /\ Cardinality(OwedBodies) \in Nat
           /\ usage.bytes \in Nat
<1>1. journals \subseteq Messages /\ bodies \subseteq Hashes /\ usage.bytes \in Nat
  BY TypesAre DEF TablesTyped
<1>2. OwedJournals \subseteq Deliveries /\ OwedBodies \subseteq Deliveries
  BY DEF OwedJournals, OwedBodies
<1>3. IsFiniteSet(journals) /\ IsFiniteSet(bodies)
  BY <1>1, FS_Subset, ReplicaAssumption, HashesAreFinite
<1>4. IsFiniteSet(OwedJournals) /\ IsFiniteSet(OwedBodies)
  BY <1>2, FS_Subset, ReplicaAssumption
<1> QED
  BY <1>1, <1>3, <1>4, FS_CardinalityType

(* Deletions and deliveries that end give nothing back, and owe less.        *)
LEMMA BooksShrink ==
    ASSUME Types, UsageCoversPuts,
           journals' \subseteq journals, bodies' \subseteq bodies,
           OwedJournals' \subseteq OwedJournals, OwedBodies' \subseteq OwedBodies,
           usage'.bytes = usage.bytes
    PROVE  UsageCoversPuts'
<1>1. /\ Cardinality(journals') <= Cardinality(journals) /\ Cardinality(journals') \in Nat
      /\ Cardinality(bodies') <= Cardinality(bodies) /\ Cardinality(bodies') \in Nat
  BY CountsAreNat, FS_Subset, FS_CardinalityType
<1>2. /\ Cardinality(OwedJournals') <= Cardinality(OwedJournals)
      /\ Cardinality(OwedJournals') \in Nat
      /\ Cardinality(OwedBodies') <= Cardinality(OwedBodies)
      /\ Cardinality(OwedBodies') \in Nat
  BY CountsAreNat, FS_Subset, FS_CardinalityType
<1> QED
  BY <1>1, <1>2, CountsAreNat DEF UsageCoversPuts

LEMMA OwedMoves ==
    ASSUME Types, NEW d \in Deliveries, NEW x \in DeliveryType \cup {Idle},
           delivery' = [delivery EXCEPT ![d] = x]
    PROVE  /\ OwedJournals' = IF x.step = "journal" THEN OwedJournals \cup {d}
                                                    ELSE OwedJournals \ {d}
           /\ OwedBodies' = IF x.step \in {"journal", "body"} /\ IsObject(x.message)
                              THEN OwedBodies \cup {d} ELSE OwedBodies \ {d}
<1>1. delivery'[d] = x /\ \A e \in Deliveries \ {d} : delivery'[e] = delivery[e]
  BY TypesAre DEF DeliveriesTyped
<1> QED
  BY <1>1 DEF OwedJournals, OwedBodies, IsObject

LEMMA BooksStay ==
    ASSUME Types, UsageCoversPuts, journals' \subseteq journals, bodies' \subseteq bodies,
           delivery' = delivery, usage' = usage
    PROVE  UsageCoversPuts'
<1>1. OwedJournals' = OwedJournals /\ OwedBodies' = OwedBodies
  BY DEF OwedJournals, OwedBodies, IsObject
<1> QED
  BY <1>1, BooksShrink

LEMMA DeliverBooks ==
    ASSUME Types, UsageCoversPuts, NEW d \in Deliveries, DeliveryKnows(d), Deliver(d)
    PROVE  UsageCoversPuts'
<1>1. ASSUME NEW x \in DeliveryType \cup {Idle}, delivery' = [delivery EXCEPT ![d] = x],
             x.step \notin {"journal", "body"}, journals' = journals, bodies' = bodies,
             usage'.bytes = usage.bytes
      PROVE  UsageCoversPuts'
  <2>1. OwedJournals' \subseteq OwedJournals /\ OwedBodies' \subseteq OwedBodies
    BY <1>1, OwedMoves
  <2> QED
    BY <1>1, <2>1, BooksShrink
<1>2. ASSUME Answer(d), UNCHANGED <<journals, bodies, usage>> PROVE UsageCoversPuts'
  BY <1>1, <1>2, IdleHasNoStep DEF Answer
<1>3. ASSUME NEW step \in {"period", "reserve", "journal", "body", "store"}, At(d, step)
      PROVE  delivery[d] # Idle
  BY <1>3, IdleHasNoStep DEF At
<1>4. ASSUME NEW m \in Messages, Receive(d, m) PROVE UsageCoversPuts'
  <2> DEFINE x == [step |-> "period", message |-> m, month |-> now]
  <2>1. x \in DeliveryType /\ x.step = "period"
    BY TypesAre, ReplicaAssumption DEF DeliveryType
  <2>2. /\ delivery' = [delivery EXCEPT ![d] = x] /\ journals' = journals
        /\ bodies' = bodies /\ usage' = usage
    BY <1>4 DEF Receive, tables, buckets
  <2> HIDE DEF x
  <2> QED
    BY <1>1, <2>1, <2>2
<1>5. CASE ResetPeriod(d)
  <2>1. PICK x \in DeliveryType : delivery' = [delivery EXCEPT ![d] = x] /\ x.step = "reserve"
    BY <1>3, <1>5, SteppedDelivery DEF ResetPeriod
  <2>2. usage'.bytes = usage.bytes
    BY <1>5, TypesAre DEF ResetPeriod, TablesTyped
  <2> QED
    BY <1>1, <1>5, <2>1, <2>2 DEF ResetPeriod, buckets
<1>6. CASE Reserve(d)
  <2> DEFINE m == delivery[d].message
  <2>1. delivery[d] # Idle /\ delivery[d].step = "reserve"
    BY <1>3, <1>6 DEF Reserve, At
  <2>2. CASE Answer(d) /\ usage' = usage
    BY <1>2, <1>6, <2>2 DEF Reserve, buckets
  <2>3. CASE /\ usage' = [usage EXCEPT !.bytes = @ + Puts(m), !.writes = @ + Puts(m)]
             /\ Step(d, "journal")
    <3>1. PICK x \in DeliveryType : /\ delivery' = [delivery EXCEPT ![d] = x]
                                    /\ x.step = "journal" /\ x.message = m
      BY <2>1, <2>3, SteppedDelivery
    <3>2. usage'.bytes = usage.bytes + Puts(m)
      BY <2>3, TypesAre DEF TablesTyped
    <3>3. d \notin OwedJournals /\ d \notin OwedBodies
      BY <2>1 DEF OwedJournals, OwedBodies
    <3>4. Cardinality(OwedJournals') = Cardinality(OwedJournals) + 1
      <4>1. OwedJournals' = OwedJournals \cup {d}
        BY <3>1, OwedMoves
      <4> QED
        BY <3>3, <4>1, CountsAreNat, FS_AddElement
    <3>5. Cardinality(OwedBodies') = Cardinality(OwedBodies) + (Puts(m) - 1)
      <4>1. CASE IsObject(m)
        <5>1. OwedBodies' = OwedBodies \cup {d}
          BY <3>1, <4>1, OwedMoves
        <5>2. Cardinality(OwedBodies') = Cardinality(OwedBodies) + 1
          BY <3>3, <5>1, CountsAreNat, FS_AddElement
        <5> QED
          BY <4>1, <5>2, CountsAreNat DEF Puts
      <4>2. CASE ~IsObject(m)
        <5>1. OwedBodies' = OwedBodies \ {d}
          BY <3>1, <4>2, OwedMoves DEF IsObject
        <5>2. OwedBodies' = OwedBodies
          BY <3>3, <5>1
        <5> QED
          BY <4>2, <5>2, CountsAreNat DEF Puts
      <4> QED
        BY <4>1, <4>2
    <3>6. Puts(m) \in Nat
      BY DEF Puts
    <3>7. journals' = journals /\ bodies' = bodies
      BY <1>6 DEF Reserve, buckets
    <3> QED
      BY <3>2, <3>4, <3>5, <3>6, <3>7, CountsAreNat DEF UsageCoversPuts
  <2> QED
    BY <1>6, <2>2, <2>3 DEF Reserve
<1>7. CASE PutJournal(d)
  <2> DEFINE m == delivery[d].message
  <2>1. delivery[d] # Idle /\ delivery[d].step = "journal"
    BY <1>3, <1>7 DEF PutJournal, At
  <2>2. PICK x \in DeliveryType : /\ delivery' = [delivery EXCEPT ![d] = x] /\ x.message = m
                                  /\ x.step = IF IsObject(m) THEN "body" ELSE "store"
    BY <1>7, <2>1, SteppedDelivery DEF PutJournal
  <2>3. Cardinality(OwedJournals') = Cardinality(OwedJournals) - 1
    <3>1. OwedJournals' = OwedJournals \ {d} /\ d \in OwedJournals
      BY <2>1, <2>2, OwedMoves DEF OwedJournals
    <3> QED
      BY <3>1, CountsAreNat, FS_RemoveElement
  <2>4. OwedBodies' = OwedBodies
    <3>1. d \in OwedBodies <=> IsObject(m)
      BY <2>1 DEF OwedBodies
    <3>2. CASE IsObject(m)
      <4>1. OwedBodies' = OwedBodies \cup {d}
        BY <2>2, <3>2, OwedMoves DEF IsObject
      <4> QED
        BY <3>1, <3>2, <4>1
    <3>3. CASE ~IsObject(m)
      <4>1. OwedBodies' = OwedBodies \ {d}
        BY <2>2, <3>3, OwedMoves DEF IsObject
      <4> QED
        BY <3>1, <3>3, <4>1
    <3> QED
      BY <3>2, <3>3
  <2>5. /\ Cardinality(journals') \in Nat
        /\ Cardinality(journals') <= Cardinality(journals) + 1
    <3>1. journals' = journals \cup {m}
      BY <1>7 DEF PutJournal
    <3>2. Cardinality(journals') \in {Cardinality(journals), Cardinality(journals) + 1}
      BY <3>1, CountsAreNat, FS_AddElement
    <3> QED
      BY <3>2, CountsAreNat
  <2>6. bodies' = bodies /\ usage' = usage
    BY <1>7 DEF PutJournal, tables
  <2> QED
    BY <2>3, <2>4, <2>5, <2>6, CountsAreNat DEF UsageCoversPuts
<1>8. CASE PutBody(d)
  <2>1. delivery[d] # Idle /\ delivery[d].step = "body" /\ Step(d, "store")
    BY <1>3, <1>8 DEF PutBody, At
  <2>2. PICK x \in DeliveryType : delivery' = [delivery EXCEPT ![d] = x] /\ x.step = "store"
    BY <2>1, SteppedDelivery
  <2>3. OwedJournals' = OwedJournals
    BY <2>1, <2>2, OwedMoves DEF OwedJournals
  <2>4. Cardinality(OwedBodies') = Cardinality(OwedBodies) - 1
    <3>1. OwedBodies' = OwedBodies \ {d} /\ d \in OwedBodies
      BY <2>1, <2>2, OwedMoves DEF OwedBodies, DeliveryKnows
    <3> QED
      BY <3>1, CountsAreNat, FS_RemoveElement
  <2>5. /\ Cardinality(bodies') \in Nat
        /\ Cardinality(bodies') <= Cardinality(bodies) + 1
    <3>1. bodies' = bodies \cup {delivery[d].message.hash}
      BY <1>8 DEF PutBody
    <3>2. Cardinality(bodies') \in {Cardinality(bodies), Cardinality(bodies) + 1}
      BY <3>1, CountsAreNat, FS_AddElement
    <3> QED
      BY <3>2, CountsAreNat
  <2>6. journals' = journals /\ usage' = usage
    BY <1>8 DEF PutBody, tables
  <2> QED
    BY <2>3, <2>4, <2>5, <2>6, CountsAreNat DEF UsageCoversPuts
<1>9. CASE Store(d)
  BY <1>2, <1>9 DEF Store, buckets
<1>10. CASE FailDelivery(d)
  BY <1>2, <1>10 DEF FailDelivery, tables, buckets
<1> QED
  BY <1>4, <1>5, <1>6, <1>7, <1>8, <1>9, <1>10 DEF Deliver

------------------------------------------------------------------------------
(* Marks, and the sweeps that work from them *)

MarksKnow ==
    \A doc \in Docs : /\ CaptureOf(doc, marks[doc])
                      /\ marks[doc].status = "NONE" => marks[doc] = NoMark

(* A mark that is there keeps its lists; only its status becomes PURGED.     *)
MarksStay ==
    \A doc \in Docs :
        marks[doc] # NoMark =>
            /\ marks'[doc] # NoMark /\ marks'[doc].status \in {marks[doc].status, "PURGED"}
            /\ marks'[doc].messages = marks[doc].messages
            /\ marks'[doc].versions = marks[doc].versions
            /\ marks'[doc].hashes = marks[doc].hashes

LEMMA SweepKeepsMarks ==
    ASSUME Types, NEW s \in Sweeps, SweepKnows(s), Sweep(s) \/ FailSweep(s)
    PROVE  MarksStay
<1>1. marks \in [Docs -> MarkType]
  BY TypesAre
<1>2. NoMark.status = "NONE"
  BY DEF NoMark
<1>3. marks' = marks => MarksStay
  BY <1>1 DEF MarksStay
<1>4. CASE InsertMark(s)
  BY <1>1, <1>4 DEF InsertMark, MarksStay
<1>5. CASE Flip(s)
  <2>1. marks' = [marks EXCEPT ![Doc(s)].status = "PURGED"]
    BY <1>5 DEF Flip
  <2>2. ASSUME NEW doc \in Docs
        PROVE  /\ marks'[doc].messages = marks[doc].messages
               /\ marks'[doc].versions = marks[doc].versions
               /\ marks'[doc].hashes = marks[doc].hashes
               /\ \/ marks'[doc] = marks[doc]
                  \/ marks'[doc].status = "PURGED"
    BY <1>1, <2>1 DEF MarkType
  <2> QED
    BY <1>2, <2>2 DEF MarksStay
<1>6. CASE ~InsertMark(s) /\ ~Flip(s)
  <2>1. marks' = marks
    BY <1>6 DEF Sweep, Mark, Purge, Scan, Capture, RetireRows, ListBacklog,
         CountReferences, DeleteBody, DeleteJournals, DeleteLinks, DeleteRecords,
         DeleteObjectRows, DeleteRows, DeleteVectors, FailSweep
  <2> QED
    BY <1>3, <2>1
<1> QED
  BY <1>4, <1>5, <1>6

(* A capture stays true while messages are only added.                       *)
LEMMA CapturesStay ==
    ASSUME NEW doc, NEW x, CaptureOf(doc, x), received \subseteq received'
    PROVE  CaptureOf(doc, x)'
BY DEF CaptureOf, IsStored, IsObject, Version

LEMMA SweepKeepsTables ==
    ASSUME NEW s \in Sweeps, Sweep(s) \/ FailSweep(s)
    PROVE  /\ UNCHANGED <<now, usage, received, delivery>>
           /\ \A q \in Sweeps \ {s} : Types => sweep'[q] = sweep[q]
           /\ journals' \subseteq journals /\ bodies' \subseteq bodies
           /\ records' \subseteq records /\ objects' \subseteq objects
<1>1. \A q \in Sweeps \ {s} : Types => sweep'[q] = sweep[q]
  BY TypesAre DEF SweepsTyped, Sweep, Mark, Purge, Scan, Capture, InsertMark, RetireRows, ListBacklog,
     CountReferences, DeleteBody, DeleteJournals, DeleteLinks, DeleteRecords,
     DeleteObjectRows, DeleteRows, DeleteVectors, Flip, FailSweep, SweepStep
<1>2. UNCHANGED <<now, usage, received, delivery>>
  BY DEF Sweep, Mark, Purge, Scan, Capture, InsertMark, RetireRows, ListBacklog,
     CountReferences, DeleteBody, DeleteJournals, DeleteLinks, DeleteRecords,
     DeleteObjectRows, DeleteRows, DeleteVectors, Flip, FailSweep, replicaVars, tables,
     tablesButIndex
<1>3. journals' \subseteq journals /\ bodies' \subseteq bodies
  BY DEF Sweep, Mark, Purge, Scan, Capture, InsertMark, RetireRows, ListBacklog,
     CountReferences, DeleteBody, DeleteJournals, DeleteLinks, DeleteRecords,
     DeleteObjectRows, DeleteRows, DeleteVectors, Flip, FailSweep, replicaVars, buckets
<1>4. records' \subseteq records /\ objects' \subseteq objects
  BY DEF Sweep, Mark, Purge, Scan, Capture, InsertMark, RetireRows, ListBacklog,
     CountReferences, DeleteBody, DeleteJournals, DeleteLinks, DeleteRecords,
     DeleteObjectRows, DeleteRows, DeleteVectors, Flip, FailSweep, replicaVars, tables,
     tablesButIndex
<1> QED
  BY <1>1, <1>2, <1>3, <1>4

(* The sweeps that do not move, and all of them in a step of another part.   *)
LEMMA SweepWaits ==
    ASSUME Types, MarksKnow, MarksStay, received \subseteq received',
           NEW s \in Sweeps, SweepKnows(s), sweep'[s] = sweep[s]
    PROVE  SweepKnows(s)'
<1>1. Doc(s)' = Doc(s)
  BY DEF Doc
<1>2. /\ sweep[s].todo \subseteq Docs
      /\ sweep[s].todo # {} => Doc(s) \in sweep[s].todo /\ Doc(s) \in Docs
  BY SweepIs
<1>3. ASSUME NEW doc \in Docs, marks[doc].status # "NONE"
      PROVE  /\ marks'[doc].status # "NONE" /\ marks'[doc].hashes = marks[doc].hashes
  BY <1>3 DEF MarksStay, NoMark
<1>4. ASSUME sweep[s].step = "insert"
      PROVE  CaptureOf(Doc(s), sweep[s].capture)'
  BY <1>1, <1>4, CapturesStay DEF SweepKnows, CaptureOf, IsStored, IsObject, Version
<1>5. ASSUME sweep[s].step \in {"count", "body"}
      PROVE  sweep[s].hashes \subseteq Captured(s)'.hashes
  BY <1>1, <1>2, <1>3, <1>5 DEF SweepKnows, Captured, PurgeSteps
<1>6. ASSUME sweep[s].step \in PurgeSteps, NEW doc \in sweep[s].todo
      PROVE  marks'[doc].status # "NONE"
  BY <1>2, <1>3, <1>6 DEF SweepKnows
<1> QED
  BY <1>4, <1>5, <1>6 DEF SweepKnows

LEMMA SweepMarksKnow ==
    ASSUME Types, MarksKnow, NEW s \in Sweeps, SweepKnows(s), Sweep(s) \/ FailSweep(s)
    PROVE  MarksKnow'
<1>1. received' = received
  BY SweepKeepsTables
<1>2. ASSUME NEW doc \in Docs
      PROVE  /\ marks'[doc] = marks[doc] => CaptureOf(doc, marks[doc])'
             /\ CaptureOf(doc, marks[doc]) /\ marks[doc] \in MarkType
  BY <1>1 DEF MarksKnow, CaptureOf, IsStored, IsObject, Version, Types, TypeOK
<1>3. CASE marks' = marks
  BY <1>2, <1>3 DEF MarksKnow, CaptureOf, IsStored, IsObject, Version
<1>4. CASE InsertMark(s)
  <2>1. /\ sweep[s].capture.status = "EXPIRED" /\ CaptureOf(Doc(s), sweep[s].capture)
        /\ Doc(s) \in Docs
    BY <1>4, SweepIs DEF InsertMark, SweepAt, SweepKnows
  <2>2. ASSUME NEW doc \in Docs, marks'[doc] # marks[doc]
        PROVE  doc = Doc(s) /\ marks'[doc] = sweep[s].capture
    BY <1>4, <2>2, TypesAre DEF InsertMark
  <2>3. CaptureOf(Doc(s), sweep[s].capture) => \A doc \in Docs :
           marks'[doc] # marks[doc] => CaptureOf(doc, marks[doc])'
    BY <1>1, <2>2 DEF CaptureOf, IsStored, IsObject, Version
  <2>4. ASSUME NEW doc \in Docs PROVE CaptureOf(doc, marks[doc])'
    BY <1>2, <2>1, <2>3
  <2>5. ASSUME NEW doc \in Docs, marks'[doc].status = "NONE" PROVE marks'[doc] = NoMark
    <3>1. marks'[doc] = marks[doc]
      BY <2>1, <2>2, <2>5
    <3> QED
      BY <2>5, <3>1 DEF MarksKnow
  <2> QED
    BY <2>4, <2>5 DEF MarksKnow
<1>5. CASE Flip(s)
  <2>1. ASSUME NEW doc \in Docs
        PROVE  /\ marks'[doc].messages = marks[doc].messages
               /\ marks'[doc].versions = marks[doc].versions
               /\ marks'[doc] = marks[doc] \/ marks'[doc].status = "PURGED"
    BY <1>2, <1>5, TypesAre DEF Flip, MarkType
  <2>2. ASSUME NEW doc \in Docs PROVE CaptureOf(doc, marks[doc])'
    BY <1>1, <1>2, <2>1 DEF CaptureOf, IsStored, IsObject, Version
  <2>3. ASSUME NEW doc \in Docs, marks'[doc].status = "NONE" PROVE marks'[doc] = NoMark
    BY <2>1, <2>3 DEF MarksKnow
  <2> QED
    BY <2>2, <2>3 DEF MarksKnow
<1> QED
  BY <1>3, <1>4, <1>5 DEF Sweep, Mark, Purge, Scan, Capture, RetireRows, ListBacklog,
     CountReferences, DeleteBody, DeleteJournals, DeleteLinks, DeleteRecords,
     DeleteObjectRows, DeleteRows, DeleteVectors, FailSweep

(* What a sweep takes from the backlog is marked, and so are its hashes.     *)
LEMMA NextKnows ==
    ASSUME Types, Types', NEW s \in Sweeps, NEW docs, docs \subseteq Docs,
           sweep'[s] = PurgeNext(docs),
           \A doc \in docs : marks'[doc].status # "NONE" /\ marks'[doc].hashes = marks[doc].hashes
    PROVE  SweepKnows(s)'
<1>1. CASE docs = {}
  <2>1. sweep'[s].step = "asleep"
    BY <1>1, NextTyped, AsleepTyped
  <2> QED
    BY <2>1 DEF SweepKnows, PurgeSteps
<1>2. CASE docs # {}
  <2>1. /\ sweep'[s].step = "count" /\ sweep'[s].todo = docs /\ Min(docs) \in docs
        /\ sweep'[s].hashes = marks[Min(docs)].hashes
    BY <1>2, NextTyped
  <2>2. Captured(s)' = marks'[Min(docs)]
    BY <2>1 DEF Captured, Doc
  <2> QED
    BY <1>2, <2>1, <2>2 DEF SweepKnows, PurgeSteps
<1> QED
  BY <1>1, <1>2

LEMMA SweepGoesOn ==
    ASSUME Types, MarksKnow, NEW s \in Sweeps, SweepKnows(s), Types', MarksStay,
           Sweep(s) \/ FailSweep(s)
    PROVE  SweepKnows(s)'
<1>1. /\ sweep \in [Sweeps -> SweepType] /\ sweep[s] \in SweepType
      /\ sweep[s].todo \subseteq Docs
      /\ sweep[s].todo # {} => Doc(s) \in sweep[s].todo /\ Doc(s) \in Docs
  BY SweepIs, TypesAre DEF SweepsTyped
<1>2. ASSUME sweep'[s].step \in {"asleep", "mark"} PROVE SweepKnows(s)'
  BY <1>2 DEF SweepKnows, PurgeSteps
<1>3. ASSUME NEW doc \in Docs, marks[doc].status # "NONE"
      PROVE  /\ marks'[doc].status # "NONE" /\ marks'[doc].hashes = marks[doc].hashes
  BY <1>3 DEF MarksStay, NoMark
<1>4. ASSUME sweep[s].step \in PurgeSteps, sweep'[s].step \in PurgeSteps \ {"count", "body"},
             sweep'[s].todo = sweep[s].todo
      PROVE  SweepKnows(s)'
  BY <1>1, <1>3, <1>4 DEF SweepKnows, PurgeSteps
<1>5. CASE Scan(s) \/ RetireRows(s) \/ FailSweep(s)
  <2>1. sweep'[s].step \in {"asleep", "mark"}
    BY <1>1, <1>5 DEF Scan, RetireRows, FailSweep, Asleep, SweepType
  <2> QED
    BY <1>2, <2>1
<1>6. CASE Capture(s)
  <2> DEFINE versions == {Version(r) : r \in RecordsOf(Doc(s))}
  <2>1. /\ sweep'[s].step = "insert" /\ sweep'[s].todo = sweep[s].todo
        /\ sweep'[s].capture.status = "EXPIRED" /\ sweep'[s].capture.versions = versions
        /\ sweep'[s].capture.messages = {m \in received : ~IsObject(m)
                                                          /\ Version(m) \in versions}
        /\ sweep[s].todo # {}
    BY <1>1, <1>6 DEF Capture, SweepType
  <2>2. Doc(s)' = Doc(s) /\ received' = received
    BY <2>1, SweepKeepsTables DEF Doc
  <2>3. ASSUME NEW r \in RecordsOf(Doc(s))
        PROVE  Version(r)[1] = Doc(s) /\ r \in received /\ ~IsObject(r)
    BY <1>1, <2>1, TypesAre, DocsTyped DEF RecordsOf, TablesTyped, Version, IsObject
  <2>4. ASSUME NEW v \in versions
        PROVE  v[1] = Doc(s) /\ \E m \in received : ~IsObject(m) /\ Version(m) = v
    BY <2>3
  <2> HIDE DEF versions
  <2>5. CaptureOf(Doc(s), sweep[s].capture)'
    BY <2>1, <2>2, <2>4 DEF CaptureOf, IsStored, IsObject, Version
  <2> QED
    BY <2>1, <2>2, <2>5 DEF SweepKnows, PurgeSteps
<1>7. CASE InsertMark(s)
  <2>1. sweep'[s].step = "retire" /\ sweep'[s].todo = sweep[s].todo /\ sweep[s].todo # {}
    BY <1>1, <1>7, SweepIs DEF InsertMark, SweepAt, SweepStep, SweepType
  <2> QED
    BY <2>1 DEF SweepKnows, PurgeSteps
<1>8. CASE ListBacklog(s)
  <2> DEFINE docs == {doc \in Docs : IsExpired(doc)}
  <2>1. sweep'[s] = PurgeNext(docs) /\ marks' = marks
    BY <1>1, <1>8 DEF ListBacklog
  <2>2. docs \subseteq Docs /\ \A doc \in docs : marks[doc].status # "NONE"
    BY DEF IsExpired
  <2> HIDE DEF docs
  <2> QED
    BY <2>1, <2>2, NextKnows
<1>9. CASE CountReferences(s)
  <2>1. /\ sweep[s].step = "count" /\ sweep[s].hashes # {} /\ sweep[s].todo # {}
        /\ marks' = marks /\ sweep'[s].todo = sweep[s].todo
    BY <1>1, <1>9, SweepIs DEF CountReferences, SweepAt, SweepStep, SweepType
  <2>2. /\ sweep'[s].step \in {"count", "body"} /\ sweep'[s].hashes \subseteq sweep[s].hashes
        /\ sweep'[s].step = "body" => sweep'[s].hashes # {}
    BY <1>1, <1>9, <2>1 DEF CountReferences, SweepStep, SweepType
  <2>3. Captured(s)' = Captured(s)
    BY <2>1 DEF Captured, Doc
  <2> QED
    BY <2>1, <2>2, <2>3 DEF SweepKnows, PurgeSteps
<1>10. CASE DeleteBody(s)
  <2>1. /\ sweep[s].step = "body" /\ sweep[s].todo # {} /\ marks' = marks
        /\ sweep'[s].todo = sweep[s].todo /\ sweep'[s].step = "count"
        /\ sweep'[s].hashes \subseteq sweep[s].hashes
    BY <1>1, <1>10, SweepIs DEF DeleteBody, SweepAt, SweepType
  <2>2. Captured(s)' = Captured(s)
    BY <2>1 DEF Captured, Doc
  <2> QED
    BY <2>1, <2>2 DEF SweepKnows, PurgeSteps
<1>11. CASE DeleteJournals(s) \/ DeleteLinks(s) \/ DeleteRecords(s) \/ DeleteObjectRows(s)
            \/ DeleteRows(s) \/ DeleteVectors(s)
  <2>1. /\ sweep[s].step \in PurgeSteps /\ sweep'[s].step \in PurgeSteps \ {"count", "body"}
        /\ sweep'[s].todo = sweep[s].todo
    BY <1>1, <1>11 DEF DeleteJournals, DeleteLinks, DeleteRecords, DeleteObjectRows,
       DeleteRows, DeleteVectors, SweepAt, SweepStep, SweepType, PurgeSteps
  <2> QED
    BY <1>4, <2>1
<1>12. CASE Flip(s)
  <2> DEFINE docs == sweep[s].todo \ {Doc(s)}
  <2>1. sweep'[s] = IF IsExpired(Doc(s)) THEN PurgeNext(docs) ELSE Asleep
    BY <1>1, <1>12 DEF Flip
  <2>2. docs \subseteq Docs /\ \A doc \in docs : marks[doc].status # "NONE"
    BY <1>1, <1>12 DEF SweepKnows, Flip, SweepAt, PurgeSteps
  <2> HIDE DEF docs
  <2>3. CASE IsExpired(Doc(s))
    <3>1. \A doc \in docs : /\ marks'[doc].status # "NONE"
                            /\ marks'[doc].hashes = marks[doc].hashes
      BY <1>3, <2>2
    <3> QED
      BY <2>1, <2>2, <2>3, <3>1, NextKnows
  <2>4. CASE ~IsExpired(Doc(s))
    BY <1>2, <2>1, <2>4, AsleepTyped
  <2> QED
    BY <2>3, <2>4
<1> QED
  BY <1>5, <1>6, <1>7, <1>8, <1>9, <1>10, <1>11, <1>12 DEF Sweep, Mark, Purge

------------------------------------------------------------------------------
(* What is stored can be rebuilt *)

(* A step that keeps what is kept, and stores only what is kept.             *)
LEMMA RecoverableStays ==
    ASSUME StoredIsRecoverable, \A m : Kept(m) => Kept(m)', \A h : KeptBody(h) => KeptBody(h)',
           \A m \in records' : m \in records \/ Kept(m),
           \A h \in objects' : h \in objects \/ KeptBody(h)
    PROVE  StoredIsRecoverable'
<1>1. \A m \in records : Kept(m)
  BY DEF StoredIsRecoverable, Kept
<1>2. \A h \in objects : KeptBody(h)
  BY DEF StoredIsRecoverable, KeptBody
<1>3. ASSUME NEW m \in records' PROVE Kept(m)'
  BY <1>1
<1>4. ASSUME NEW h \in objects' PROVE KeptBody(h)'
  BY <1>2
<1> QED
  BY <1>3, <1>4 DEF StoredIsRecoverable, Kept, KeptBody

(* The purge deletes journals and bytes that its mark has captured.          *)
LEMMA SweepKeeps ==
    ASSUME Types, NEW s \in Sweeps, SweepKnows(s), MarksStay, Sweep(s) \/ FailSweep(s)
    PROVE  (\A m : Kept(m) => Kept(m)') /\ (\A h : KeptBody(h) => KeptBody(h)')
<1>1. /\ sweep[s].todo \subseteq Docs
      /\ sweep[s].todo # {} => Doc(s) \in sweep[s].todo /\ Doc(s) \in Docs
      /\ sweep[s].step \notin {"asleep", "mark"} => sweep[s].todo # {}
  BY SweepIs
<1>2. ASSUME NEW doc \in Docs
      PROVE  /\ marks[doc].messages \subseteq marks'[doc].messages
             /\ marks[doc].hashes \subseteq marks'[doc].hashes
  BY DEF MarksStay, NoMark
<1>3. ASSUME NEW m, m \in journals, m \notin journals'
      PROVE  \E doc \in Docs : m \in marks[doc].messages
  <2>1. DeleteJournals(s)
    BY <1>3 DEF Sweep, Mark, Purge, Scan, Capture, InsertMark, RetireRows, ListBacklog,
       CountReferences, DeleteBody, DeleteLinks, DeleteRecords, DeleteObjectRows,
       DeleteRows, DeleteVectors, Flip, FailSweep, replicaVars, buckets
  <2>2. Doc(s) \in Docs
    BY <1>1, <2>1 DEF DeleteJournals, SweepAt
  <2> QED
    BY <1>3, <2>1, <2>2 DEF DeleteJournals, Captured
<1>4. ASSUME NEW h, h \in bodies, h \notin bodies'
      PROVE  \E doc \in Docs : h \in marks[doc].hashes
  <2>1. DeleteBody(s)
    BY <1>4 DEF Sweep, Mark, Purge, Scan, Capture, InsertMark, RetireRows, ListBacklog,
       CountReferences, DeleteJournals, DeleteLinks, DeleteRecords, DeleteObjectRows,
       DeleteRows, DeleteVectors, Flip, FailSweep, replicaVars, buckets
  <2>2. h = Hash(s) /\ sweep[s].step = "body" /\ Doc(s) \in Docs
    BY <1>1, <1>4, <2>1 DEF DeleteBody, SweepAt
  <2>3. h \in sweep[s].hashes
    BY <2>2 DEF SweepKnows, Hash
  <2> QED
    BY <2>2, <2>3 DEF SweepKnows, Captured
<1>5. ASSUME NEW m, Kept(m) PROVE Kept(m)'
  BY <1>2, <1>3, <1>5 DEF Kept
<1>6. ASSUME NEW h, KeptBody(h) PROVE KeptBody(h)'
  BY <1>2, <1>4, <1>6 DEF KeptBody
<1> QED
  BY <1>5, <1>6

LEMMA SweepRecoverable ==
    ASSUME Types, NEW s \in Sweeps, SweepKnows(s), MarksStay, Sweep(s) \/ FailSweep(s),
           StoredIsRecoverable, \A d \in Deliveries : DeliveryKnows(d)
    PROVE  StoredIsRecoverable' /\ \A d \in Deliveries : DeliveryKnows(d)'
<1>1. delivery' = delivery /\ records' \subseteq records /\ objects' \subseteq objects
  BY SweepKeepsTables
<1>2. StoredIsRecoverable'
  BY <1>1, SweepKeeps, RecoverableStays
<1>3. ASSUME NEW d \in Deliveries PROVE DeliveryKnows(d)'
  <2>1. ASSUME NEW m, m = delivery[d].message, Kept(m) PROVE Kept(delivery[d].message)'
    <3>1. Kept(m)'
      BY <2>1, SweepKeeps
    <3> QED
      BY <1>1, <2>1, <3>1 DEF Kept
  <2>2. ASSUME KeptBody(delivery[d].message.hash) PROVE KeptBody(delivery[d].message.hash)'
    <3>1. \A h : KeptBody(h) => KeptBody(h)'
      BY SweepKeeps
    <3>2. PICK h : h = delivery[d].message.hash
      OBVIOUS
    <3>3. KeptBody(h)'
      BY <2>2, <3>1, <3>2
    <3> QED
      BY <1>1, <3>2, <3>3 DEF KeptBody
  <2> QED
    BY <1>1, <2>1, <2>2 DEF DeliveryKnows, IsObject
<1> QED
  BY <1>2, <1>3

(* A delivery writes the journal and the bytes before it stores the rows.    *)
LEMMA DeliverRecoverable ==
    ASSUME Types, NEW d \in Deliveries, Deliver(d), marks' = marks,
           StoredIsRecoverable, \A e \in Deliveries : DeliveryKnows(e)
    PROVE  StoredIsRecoverable' /\ \A e \in Deliveries : DeliveryKnows(e)'
<1> DEFINE m == delivery[d].message
<1>1. journals \subseteq journals' /\ bodies \subseteq bodies'
  BY DEF Deliver, Receive, ResetPeriod, Reserve, PutJournal, PutBody, Store, FailDelivery, buckets
<1>2. (\A x : Kept(x) => Kept(x)') /\ (\A h : KeptBody(h) => KeptBody(h)')
  BY <1>1 DEF Kept, KeptBody
<1>3. /\ \A x \in records' : x \in records \/ Kept(x)
      /\ \A h \in objects' : h \in objects \/ KeptBody(h)
  <2>1. CASE Store(d)
    <3>1. Kept(m) /\ (IsObject(m) => KeptBody(m.hash))
      BY <2>1 DEF Store, At, DeliveryKnows
    <3>2. /\ \A x \in records' : x \in records \/ x = m
          /\ \A h \in objects' : h \in objects \/ (IsObject(m) /\ h = m.hash)
      BY <2>1 DEF Store, Upsert
    <3> QED
      BY <3>1, <3>2
  <2>2. CASE ~Store(d)
    <3>1. records' = records /\ objects' = objects
      BY <2>2 DEF Deliver, Receive, ResetPeriod, Reserve, PutJournal, PutBody, FailDelivery, tables
    <3> QED
      BY <3>1
  <2> QED
    BY <2>1, <2>2
<1>4. StoredIsRecoverable'
  BY <1>2, <1>3, RecoverableStays
<1>5. ASSUME NEW e \in Deliveries, delivery'[e] = delivery[e] PROVE DeliveryKnows(e)'
  BY <1>1, <1>5 DEF DeliveryKnows, Kept, KeptBody, IsObject
<1>6. ASSUME NEW e \in Deliveries \ {d} PROVE delivery'[e] = delivery[e]
  BY TypesAre DEF DeliveriesTyped, Deliver, Receive, ResetPeriod, Reserve, PutJournal, PutBody, Store,
     FailDelivery, Step, Answer
<1>7. DeliveryKnows(d)'
  <2>1. delivery \in [Deliveries -> DeliveryType \cup {Idle}]
    BY TypesAre DEF DeliveriesTyped
  <2>2. ASSUME delivery'[d].step \notin {"body", "store"} PROVE DeliveryKnows(d)'
    BY <2>2 DEF DeliveryKnows
  <2>3. ASSUME NEW step \in {"period", "reserve", "journal", "body", "store"}, At(d, step)
        PROVE  delivery[d] # Idle
    BY <2>3, IdleHasNoStep DEF At
  <2>4. CASE PutJournal(d)
    <3>1. PICK x \in DeliveryType : /\ delivery' = [delivery EXCEPT ![d] = x] /\ x.message = m
                                    /\ x.step = IF IsObject(m) THEN "body" ELSE "store"
      BY <2>3, <2>4, SteppedDelivery DEF PutJournal
    <3>2. /\ delivery'[d].message = m
          /\ delivery'[d].step = IF IsObject(m) THEN "body" ELSE "store"
      BY <2>1, <3>1
    <3>3. m \in journals'
      BY <2>4 DEF PutJournal
    <3> QED
      BY <3>2, <3>3 DEF DeliveryKnows, Kept, IsObject
  <2>5. CASE PutBody(d)
    <3>1. delivery[d] # Idle /\ delivery[d].step = "body" /\ Step(d, "store")
      BY <2>3, <2>5 DEF PutBody, At
    <3>2. PICK x \in DeliveryType : /\ delivery' = [delivery EXCEPT ![d] = x] /\ x.message = m
                                    /\ x.step = "store"
      BY <3>1, SteppedDelivery
    <3>3. delivery'[d].message = m /\ delivery'[d].step = "store"
      BY <2>1, <3>2
    <3>4. m.hash \in bodies' /\ journals' = journals
      BY <2>5 DEF PutBody
    <3>5. Kept(m)
      BY <3>1 DEF DeliveryKnows
    <3> QED
      BY <3>3, <3>4, <3>5 DEF DeliveryKnows, Kept, KeptBody, IsObject
  <2>6. CASE ~PutJournal(d) /\ ~PutBody(d)
    <3>1. delivery'[d].step \notin {"body", "store"}
      <4>1. ASSUME NEW step \in {"reserve", "journal"}, delivery[d] # Idle, Step(d, step)
            PROVE  delivery'[d].step = step
        BY <2>1, <4>1, SteppedDelivery
      <4>2. CASE ResetPeriod(d)
        BY <2>3, <4>1, <4>2 DEF ResetPeriod
      <4>3. Answer(d) => delivery'[d].step = "idle"
        BY <2>1, IdleHasNoStep DEF Answer
      <4>4. CASE Reserve(d)
        BY <2>3, <4>1, <4>3, <4>4 DEF Reserve
      <4>5. CASE Store(d) \/ FailDelivery(d)
        BY <4>3, <4>5 DEF Store, FailDelivery
      <4>6. ASSUME NEW x \in Messages, Receive(d, x) PROVE delivery'[d].step = "period"
        BY <2>1, <4>6 DEF Receive
      <4> QED
        BY <2>6, <4>2, <4>4, <4>5, <4>6 DEF Deliver
    <3> QED
      BY <2>2, <3>1
  <2> QED
    BY <2>4, <2>5, <2>6
<1> QED
  BY <1>4, <1>5, <1>6, <1>7

------------------------------------------------------------------------------
(* The invariant of the replica and its retention *)

LEMMA InitTypes == RetentionInit => Types
<1> SUFFICES ASSUME RetentionInit PROVE Types
  OBVIOUS
<1>1. Stored \subseteq Messages /\ IsFiniteSet(Stored)
  BY ReplicaAssumption, FS_Subset
<1>2. Cardinality(Stored) \in Nat
  BY <1>1, FS_CardinalityType
<1>3. usage \in [period : 0..LastMonth, bytes : 0..MaxBytes, writes : 0..MaxWrites]
  BY <1>2, ReplicaAssumption DEF RetentionInit, ReplicaInit
<1>4. {m.hash : m \in Stored} \subseteq Hashes
  BY <1>1 DEF Hashes
<1>5. NoRow \in RowType /\ NoVector \in Bodies
  BY DEF NoRow, RowType, Bodies, NoVector
<1>6. TablesTyped
  BY <1>1, <1>3, <1>4, <1>5, ReplicaAssumption DEF RetentionInit, ReplicaInit, TablesTyped
<1>7. DeliveriesTyped
  BY DEF RetentionInit, ReplicaInit, DeliveriesTyped
<1>8. SweepsTyped
  BY AsleepTyped DEF RetentionInit, SweepsTyped
<1> QED
  BY <1>5, <1>6, <1>7, <1>8, TypesAre, NoMarkTyped, ReplicaAssumption
  DEF RetentionInit, ReplicaInit

LEMMA InitRInv == RetentionInit => RInv
<1> SUFFICES ASSUME RetentionInit PROVE RInv
  OBVIOUS
<1>1. Types
  BY InitTypes
<1>2. UsageCoversPuts
  <2>1. OwedJournals = {} /\ OwedBodies = {}
    BY IdleHasNoStep DEF RetentionInit, ReplicaInit, OwedJournals, OwedBodies
  <2>2. IsFiniteSet(Stored) /\ Cardinality(Stored) \in Nat
    BY ReplicaAssumption, FS_Subset, FS_CardinalityType
  <2>3. Cardinality(bodies) <= Cardinality(Stored)
    <3> DEFINE f == [m \in Stored |-> m.hash]
    <3>1. f \in Surjection(Stored, bodies)
      BY DEF Surjection, RetentionInit, ReplicaInit
    <3> QED
      BY <2>2, <3>1, FS_Surjection
  <2>4. journals = Stored /\ usage.bytes = 2 * Cardinality(Stored)
    BY DEF RetentionInit, ReplicaInit
  <2> QED
    BY <1>1, <2>1, <2>2, <2>3, <2>4, FS_EmptySet, CountsAreNat DEF UsageCoversPuts
<1>3. StoredIsRecoverable /\ \A d \in Deliveries : DeliveryKnows(d)
  BY IdleHasNoStep DEF RetentionInit, ReplicaInit, StoredIsRecoverable, DeliveryKnows
<1>4. \A doc \in Docs : /\ CaptureOf(doc, marks[doc])
                        /\ marks[doc].status = "NONE" => marks[doc] = NoMark
  BY DEF RetentionInit, CaptureOf, NoMark
<1>5. \A s \in Sweeps : SweepKnows(s)
  BY AsleepTyped DEF RetentionInit, SweepKnows, PurgeSteps
<1> QED
  BY <1>1, <1>2, <1>3, <1>4, <1>5 DEF RInv

LEMMA RInvIs ==
    RInv <=> /\ Types /\ UsageCoversPuts /\ StoredIsRecoverable /\ MarksKnow
             /\ \A d \in Deliveries : DeliveryKnows(d)
             /\ \A s \in Sweeps : SweepKnows(s)
BY DEF RInv, MarksKnow

LEMMA RInvFrom ==
    ASSUME Types', UsageCoversPuts', StoredIsRecoverable', MarksKnow',
           \A d \in Deliveries : DeliveryKnows(d)', \A s \in Sweeps : SweepKnows(s)'
    PROVE  RInv'
BY DEF RInv, MarksKnow

(* Marks and sweeps in a step of another part.                               *)
LEMMA MarksWait ==
    ASSUME Types, MarksKnow, \A s \in Sweeps : SweepKnows(s),
           received \subseteq received', marks' = marks, sweep' = sweep
    PROVE  MarksKnow' /\ MarksStay /\ \A s \in Sweeps : SweepKnows(s)'
<1>1. MarksStay
  BY TypesAre DEF MarksStay
<1>2. ASSUME NEW doc \in Docs PROVE CaptureOf(doc, marks[doc])'
  BY <1>2 DEF MarksKnow, CaptureOf, IsStored, IsObject, Version
<1>3. MarksKnow'
  BY <1>2 DEF MarksKnow
<1>4. ASSUME NEW s \in Sweeps PROVE SweepKnows(s)'
  BY <1>1, <1>4, SweepWaits
<1> QED
  BY <1>1, <1>3, <1>4

LEMMA DeliverRInv ==
    ASSUME RInv, NEW d \in Deliveries, Deliver(d), UNCHANGED <<marks, vectors, sweep>>
    PROVE  RInv'
<1>1. /\ Types /\ UsageCoversPuts /\ StoredIsRecoverable /\ MarksKnow
      /\ \A e \in Deliveries : DeliveryKnows(e)
      /\ \A s \in Sweeps : SweepKnows(s)
  BY RInvIs
<1>2. received \subseteq received'
  BY DEF Deliver, Receive, ResetPeriod, Reserve, PutJournal, PutBody, Store, FailDelivery, tables
<1>3. Types' /\ UsageCoversPuts'
  BY <1>1, DeliverTypes, DeliverBooks
<1>4. StoredIsRecoverable' /\ \A e \in Deliveries : DeliveryKnows(e)'
  BY <1>1, DeliverRecoverable
<1>5. MarksKnow' /\ \A s \in Sweeps : SweepKnows(s)'
  BY <1>1, <1>2, MarksWait
<1> QED
  BY <1>3, <1>4, <1>5, RInvFrom

LEMMA SweepRInv ==
    ASSUME RInv, NEW s \in Sweeps, Sweep(s) \/ FailSweep(s)
    PROVE  RInv' /\ MarksStay
<1>1. /\ Types /\ UsageCoversPuts /\ StoredIsRecoverable /\ MarksKnow
      /\ \A e \in Deliveries : DeliveryKnows(e)
      /\ \A q \in Sweeps : SweepKnows(q)
  BY RInvIs
<1>2. Types' /\ MarksStay /\ MarksKnow'
  BY <1>1, SweepTypes, SweepKeepsMarks, SweepMarksKnow
<1>3. /\ UNCHANGED <<usage, received, delivery>>
      /\ \A q \in Sweeps \ {s} : sweep'[q] = sweep[q]
      /\ journals' \subseteq journals /\ bodies' \subseteq bodies
  BY <1>1, SweepKeepsTables
<1>4. UsageCoversPuts'
  BY <1>1, <1>3, BooksStay
<1>5. StoredIsRecoverable' /\ \A d \in Deliveries : DeliveryKnows(d)'
  BY <1>1, <1>2, SweepRecoverable
<1>6. ASSUME NEW q \in Sweeps PROVE SweepKnows(q)'
  <2>1. CASE q = s
    BY <1>1, <1>2, <2>1, SweepGoesOn
  <2>2. CASE q # s
    BY <1>1, <1>2, <1>3, <2>2, SweepWaits
  <2> QED
    BY <2>1, <2>2
<1> QED
  BY <1>2, <1>4, <1>5, <1>6, RInvFrom

(* The clock and calls of others leave everything but the types alone.       *)
LEMMA OtherRInv ==
    ASSUME RInv, Types',
           UNCHANGED <<usage, received, records, objects, buckets, delivery, marks, sweep>>
    PROVE  RInv'
<1>1. /\ Types /\ UsageCoversPuts /\ StoredIsRecoverable /\ MarksKnow
      /\ \A e \in Deliveries : DeliveryKnows(e)
      /\ \A q \in Sweeps : SweepKnows(q)
  BY RInvIs
<1>2. UsageCoversPuts'
  BY <1>1, BooksStay DEF buckets
<1>3. StoredIsRecoverable'
  BY <1>1 DEF StoredIsRecoverable, buckets
<1>4. ASSUME NEW d \in Deliveries PROVE DeliveryKnows(d)'
  BY <1>1 DEF DeliveryKnows, Kept, KeptBody, IsObject, buckets
<1>5. MarksKnow' /\ \A s \in Sweeps : SweepKnows(s)'
  BY <1>1, MarksWait
<1> QED
  BY <1>2, <1>3, <1>4, <1>5, RInvFrom

LEMMA RetentionRInv ==
    ASSUME RInv, [RetentionNext]_retentionVars
    PROVE  RInv'
<1>1. Types
  BY RInvIs
<1>2. ASSUME Tick, UNCHANGED <<marks, vectors, sweep>> PROVE RInv'
  <2>1. Types'
    BY <1>1, <1>2, TickTypes
  <2> QED
    BY <1>2, <2>1, OtherRInv DEF Tick, tables
<1>3. CASE UNCHANGED retentionVars
  <2>1. Types'
    <3>1. /\ TablesTyped /\ now \in 1..LastMonth /\ DeliveriesTyped /\ SweepsTyped
          /\ marks \in [Docs -> MarkType] /\ vectors \in [Versions -> Bodies]
      BY <1>1, TypesAre
    <3>2. TablesTyped' /\ DeliveriesTyped' /\ SweepsTyped'
      BY <1>3, <3>1 DEF retentionVars, replicaVars, tables, buckets, TablesTyped,
         DeliveriesTyped, SweepsTyped
    <3> QED
      BY <1>3, <3>1, <3>2, TypesFrom DEF retentionVars, replicaVars
  <2> QED
    BY <1>3, <2>1, OtherRInv DEF retentionVars, replicaVars, tables
<1>4. ASSUME NEW d \in Deliveries, Deliver(d), UNCHANGED <<marks, vectors, sweep>> PROVE RInv'
  BY <1>4, DeliverRInv
<1>5. ASSUME NEW s \in Sweeps, Sweep(s) \/ FailSweep(s) PROVE RInv'
  BY <1>5, SweepRInv
<1> QED
  BY <1>2, <1>3, <1>4, <1>5 DEF RetentionNext

(* What deliveries and sweeps know of the replica, however they interleave,  *)
(* fail or overlap.                                                          *)
THEOREM RetentionInvariant == RetentionSpec => []RInv
<1>1. RInv /\ [RetentionNext]_retentionVars => RInv'
  BY RetentionRInv
<1> QED
  BY <1>1, InitRInv, PTL DEF RetentionSpec

(* Rows, buckets, marks, deliveries and sweeps keep their types.             *)
THEOREM RetentionTypeCorrect == RetentionSpec => []TypeOK
<1>1. RInv => TypeOK
  BY DEF RInv, Types
<1> QED
  BY <1>1, RetentionInvariant, PTL

(* The stored-bytes counter of research_replica_usage never understates the  *)
(* bucket, although it is reserved before the puts, never given back, and    *)
(* set by deliveries that overlap and fail half-way.                         *)
THEOREM UsageCoversTheStore == RetentionSpec => []UsageCoversStore
<1>1. RInv => UsageCoversStore
  <2> SUFFICES ASSUME RInv PROVE UsageCoversStore
    OBVIOUS
  <2>1. Types /\ UsageCoversPuts
    BY DEF RInv
  <2> QED
    BY <2>1, CountsAreNat DEF UsageCoversPuts, UsageCoversStore
<1> QED
  BY <1>1, RetentionInvariant, PTL

(* What D1 lists is in R2 or was captured by a mark, whatever failed between *)
(* the journal, the bytes and the batch of ingestResearchReplicaRecord, or   *)
(* between the deletions of a purge.                                         *)
THEOREM StoredStaysRecoverable == RetentionSpec => []StoredIsRecoverable
<1>1. RInv => StoredIsRecoverable
  BY DEF RInv
<1> QED
  BY <1>1, RetentionInvariant, PTL

------------------------------------------------------------------------------
(* What a purge has deleted stays deleted *)

(* A mark captures only what is stored.                                      *)
LEMMA CapturedIsReceived ==
    ASSUME RInv, NEW doc \in Docs
    PROVE  marks[doc].messages \subseteq received
BY DEF RInv, CaptureOf

LEMMA PurgedIsMarked ==
    ASSUME RInv, NEW s \in Sweeps, sweep[s].step \in PurgeSteps
    PROVE  Doc(s) \in Docs /\ marks[Doc(s)].status # "NONE" /\ marks[Doc(s)] # NoMark
<1>1. Types /\ SweepKnows(s)
  BY DEF RInv
<1>2. Doc(s) \in sweep[s].todo /\ Doc(s) \in Docs
  BY <1>1, SweepIs DEF SweepKnows
<1> QED
  BY <1>1, <1>2 DEF SweepKnows, NoMark

(* A delivery keeps its message on its way, and takes up a new one only if   *)
(* it is neither stored nor carried by another.                              *)
LEMMA DeliveryCarries ==
    ASSUME Types, ~Resend, NEW d \in Deliveries, Deliver(d)
    PROVE  /\ \A e \in Deliveries \ {d} : delivery'[e] = delivery[e]
           /\ \/ delivery'[d] = Idle
              \/ delivery[d] # Idle /\ delivery'[d].message = delivery[d].message
              \/ /\ delivery'[d].message \notin received
                 /\ \A e \in Deliveries \ {d} :
                        delivery[e] # Idle => delivery[e].message # delivery'[d].message
<1>1. delivery \in [Deliveries -> DeliveryType \cup {Idle}]
  BY TypesAre DEF DeliveriesTyped
<1>2. \A e \in Deliveries \ {d} : delivery'[e] = delivery[e]
  BY <1>1 DEF Deliver, Receive, ResetPeriod, Reserve, PutJournal, PutBody, Store,
     FailDelivery, Step, Answer
<1>3. ASSUME NEW m \in Messages, Receive(d, m)
      PROVE  /\ delivery'[d].message \notin received
             /\ \A e \in Deliveries \ {d} :
                    delivery[e] # Idle => delivery[e].message # delivery'[d].message
  <2>1. delivery'[d].message = m
    BY <1>1, <1>3 DEF Receive
  <2> QED
    BY <1>3, <2>1 DEF Receive
<1>4. Answer(d) => delivery'[d] = Idle
  BY <1>1 DEF Answer
<1>5. ASSUME NEW step \in {"period", "reserve", "journal", "body", "store"}, At(d, step)
      PROVE  delivery[d] # Idle
  BY <1>5, IdleHasNoStep DEF At
<1>6. ASSUME delivery[d] # Idle,
             NEW step \in {"period", "reserve", "journal", "body", "store"}, Step(d, step)
      PROVE  delivery'[d].message = delivery[d].message
  BY <1>1, <1>6, SteppedDelivery
<1>7. CASE ResetPeriod(d)
  BY <1>2, <1>5, <1>6, <1>7 DEF ResetPeriod
<1>8. CASE Reserve(d)
  BY <1>2, <1>4, <1>5, <1>6, <1>8 DEF Reserve
<1>9. CASE PutJournal(d)
  BY <1>2, <1>5, <1>6, <1>9 DEF PutJournal
<1>10. CASE PutBody(d)
  BY <1>2, <1>5, <1>6, <1>10 DEF PutBody
<1>11. CASE Store(d) \/ FailDelivery(d)
  BY <1>2, <1>4, <1>11 DEF Store, FailDelivery
<1> QED
  BY <1>2, <1>3, <1>7, <1>8, <1>9, <1>10, <1>11 DEF Deliver

(* What a delivery adds is the message it carries, which was not stored.     *)
LEMMA DeliveryAdds ==
    ASSUME NEW d \in Deliveries, Deliver(d), NoCopies
    PROVE  \/ UNCHANGED <<received, journals, records>>
           \/ /\ delivery[d] # Idle /\ delivery[d].message \notin received
              /\ journals' \subseteq journals \cup {delivery[d].message}
              /\ records' \subseteq records \cup {delivery[d].message}
              /\ \/ received' = received
                 \/ /\ received' = received \cup {delivery[d].message}
                    /\ delivery' = [delivery EXCEPT ![d] = Idle]
<1>1. ASSUME NEW step \in {"journal", "store"}, At(d, step)
      PROVE  delivery[d] # Idle /\ delivery[d].message \notin received
  BY <1>1, IdleHasNoStep DEF At, NoCopies
<1>2. CASE PutJournal(d)
  BY <1>1, <1>2 DEF PutJournal, tables
<1>3. CASE Store(d)
  BY <1>1, <1>3 DEF Store, Upsert, Answer, buckets
<1>4. CASE ~PutJournal(d) /\ ~Store(d)
  BY <1>4 DEF Deliver, Receive, ResetPeriod, Reserve, PutBody, FailDelivery, tables, buckets
<1> QED
  BY <1>2, <1>3, <1>4

LEMMA DeliverPInv ==
    ASSUME ~Resend, RInv, PInv, NEW d \in Deliveries, Deliver(d),
           UNCHANGED <<marks, vectors, sweep>>
    PROVE  PInv'
<1>1. Types /\ NoCopies /\ PurgedStaysGone /\ \A s \in Sweeps : PurgeKnows(s)
  BY DEF RInv, PInv
<1>2. delivery \in [Deliveries -> DeliveryType \cup {Idle}]
  BY <1>1, TypesAre DEF DeliveriesTyped
<1>3. NoCopies'
  <2>1. ASSUME NEW e \in Deliveries \ {d}, delivery'[e] # Idle
        PROVE  /\ delivery'[e] = delivery[e] /\ delivery[e].message \notin received
               /\ delivery[d] # Idle => delivery[e].message # delivery[d].message
    BY <1>1, <2>1, DeliveryCarries DEF NoCopies
  <2>2. ASSUME delivery'[d] # Idle
        PROVE  /\ delivery'[d].message \notin received
               /\ \A e \in Deliveries \ {d} :
                      delivery[e] # Idle => delivery[e].message # delivery'[d].message
    BY <1>1, <2>2, DeliveryCarries DEF NoCopies
  <2>3. CASE received' = received
    BY <1>1, <2>1, <2>2, <2>3, DeliveryCarries DEF NoCopies
  <2>4. CASE received' # received
    <3>1. /\ received' = received \cup {delivery[d].message} /\ delivery'[d] = Idle
          /\ delivery[d] # Idle
      BY <1>1, <1>2, <2>4, DeliveryAdds
    <3> QED
      BY <1>1, <2>1, <3>1, DeliveryCarries DEF NoCopies
  <2> QED
    BY <2>3, <2>4
<1>4. ASSUME NEW m \in received
      PROVE  (m \in journals' => m \in journals) /\ (m \in records' => m \in records)
  BY <1>1, DeliveryAdds
<1>5. ASSUME NEW doc \in Docs, NEW m \in marks[doc].messages
      PROVE  (m \in journals' => m \in journals) /\ (m \in records' => m \in records)
  BY <1>4, CapturedIsReceived
<1>6. PurgedStaysGone'
  BY <1>1, <1>5 DEF PurgedStaysGone
<1>7. ASSUME NEW s \in Sweeps PROVE PurgeKnows(s)'
  <2>1. Captured(s)' = Captured(s)
    BY DEF Captured, Doc
  <2>2. ASSUME sweep[s].step \in PurgeSteps, NEW m \in Captured(s).messages
        PROVE  (m \in journals' => m \in journals) /\ (m \in records' => m \in records)
    BY <1>5, <2>2, PurgedIsMarked DEF Captured
  <2> QED
    BY <1>1, <2>1, <2>2 DEF PurgeKnows, PurgeSteps
<1> QED
  BY <1>3, <1>6, <1>7 DEF PInv

(* The lists of a mark stay, and a mark turns PURGED only when it is flipped. *)
LEMMA MarkTurnsPurged ==
    ASSUME RInv, MarksStay, NEW s \in Sweeps, Sweep(s) \/ FailSweep(s),
           NEW doc \in Docs, marks'[doc].status = "PURGED"
    PROVE  /\ marks'[doc].messages = marks[doc].messages
           /\ marks[doc].status = "PURGED" \/ (Flip(s) /\ doc = Doc(s))
<1>1. Types /\ SweepKnows(s) /\ marks \in [Docs -> MarkType]
  BY TypesAre DEF RInv
<1>2. CASE InsertMark(s)
  <2>1. sweep[s].capture.status = "EXPIRED"
    BY <1>1, <1>2 DEF InsertMark, SweepAt, SweepKnows
  <2>2. marks'[doc] = marks[doc]
    BY <1>1, <1>2, <2>1 DEF InsertMark
  <2> QED
    BY <2>2
<1>3. CASE Flip(s)
  <2>1. marks' = [marks EXCEPT ![Doc(s)].status = "PURGED"]
    BY <1>3 DEF Flip
  <2>2. marks'[doc].messages = marks[doc].messages /\ (doc # Doc(s) => marks'[doc] = marks[doc])
    BY <1>1, <2>1 DEF MarkType
  <2> QED
    BY <1>3, <2>2
<1>4. CASE ~InsertMark(s) /\ ~Flip(s)
  <2>1. marks' = marks
    BY <1>4 DEF Sweep, Mark, Purge, Scan, Capture, RetireRows, ListBacklog,
         CountReferences, DeleteBody, DeleteJournals, DeleteLinks, DeleteRecords,
         DeleteObjectRows, DeleteRows, DeleteVectors, FailSweep
  <2> QED
    BY <2>1
<1> QED
  BY <1>2, <1>3, <1>4

(* A purge has deleted the journals and the rows when it is past them.       *)
LEMMA PurgeGoesOn ==
    ASSUME RInv, NEW s \in Sweeps, PurgeKnows(s), Sweep(s) \/ FailSweep(s)
    PROVE  PurgeKnows(s)'
<1>1. Types /\ MarksKnow /\ SweepKnows(s) /\ sweep[s] \in SweepType /\ sweep \in [Sweeps -> SweepType]
  BY RInvIs, SweepIs, TypesAre DEF SweepsTyped
<1>2. journals' \subseteq journals /\ records' \subseteq records
  BY SweepKeepsTables
<1>3. ASSUME sweep'[s].step \notin PurgeSteps \ {"count", "body"} PROVE PurgeKnows(s)'
  BY <1>3 DEF PurgeKnows, PurgeSteps
<1>4. ASSUME NEW step \in PurgeSteps, SweepStep(s, step)
      PROVE  /\ sweep'[s].step = step /\ sweep'[s].todo = sweep[s].todo
             /\ marks' = marks => Captured(s)' = Captured(s)
  BY <1>1, <1>4, SteppedSweep DEF Captured, Doc
<1>5. ASSUME sweep[s].step \in PurgeSteps
      PROVE  \A m \in Captured(s).messages : Version(m) \in Captured(s).versions
  BY <1>5, PurgedIsMarked DEF RInv, CaptureOf, Captured
<1>6. CASE Scan(s) \/ Capture(s) \/ InsertMark(s) \/ RetireRows(s) \/ FailSweep(s)
  <2>1. sweep'[s].step \in {"asleep", "mark", "insert", "retire"}
    BY <1>1, <1>6 DEF Scan, Capture, InsertMark, RetireRows, FailSweep, Asleep, SweepStep,
       SweepType
  <2> QED
    BY <1>3, <2>1 DEF PurgeSteps
<1>7. CASE ListBacklog(s) \/ Flip(s)
  <2>1. PICK docs : docs \subseteq Docs /\ sweep'[s] \in {PurgeNext(docs), Asleep}
    BY <1>1, <1>7 DEF ListBacklog, Flip, SweepType
  <2>2. sweep'[s].step \in {"count", "asleep"}
    BY <1>1, <2>1, NextTyped, AsleepTyped
  <2> QED
    BY <1>3, <2>2 DEF PurgeSteps
<1>8. CASE CountReferences(s) \/ DeleteBody(s)
  <2>1. sweep'[s].step \in {"count", "body"}
    BY <1>1, <1>8 DEF CountReferences, DeleteBody, SweepAt, SweepStep, SweepType
  <2> QED
    BY <1>3, <2>1
<1>9. CASE DeleteJournals(s)
  <2>1. /\ sweep'[s].step = "links" /\ Captured(s)' = Captured(s)
        /\ journals' = journals \ Captured(s).messages
    BY <1>4, <1>9 DEF DeleteJournals, PurgeSteps
  <2> QED
    BY <2>1 DEF PurgeKnows
<1>10. CASE DeleteLinks(s)
  <2>1. sweep[s].step = "links" /\ sweep'[s].step = "records" /\ Captured(s)' = Captured(s)
    BY <1>4, <1>10 DEF DeleteLinks, SweepAt, PurgeSteps
  <2> QED
    BY <1>2, <2>1 DEF PurgeKnows, PurgeSteps
<1>11. CASE DeleteRecords(s)
  <2>1. /\ sweep[s].step = "records" /\ sweep'[s].step = "objects"
        /\ Captured(s)' = Captured(s)
        /\ records' = {r \in records : Version(r) \notin Captured(s).versions}
    BY <1>4, <1>11 DEF DeleteRecords, SweepAt, PurgeSteps
  <2>2. Captured(s).messages \cap records' = {}
    BY <1>5, <2>1 DEF PurgeSteps
  <2> QED
    BY <1>2, <2>1, <2>2 DEF PurgeKnows, PurgeSteps
<1>12. CASE DeleteObjectRows(s) \/ DeleteRows(s) \/ DeleteVectors(s)
  <2>1. /\ sweep[s].step \in {"objects", "rows", "vectors"}
        /\ sweep'[s].step \in {"rows", "vectors", "flip"}
        /\ Captured(s)' = Captured(s)
    BY <1>4, <1>12 DEF DeleteObjectRows, DeleteRows, DeleteVectors, SweepAt, PurgeSteps
  <2> QED
    BY <1>2, <2>1 DEF PurgeKnows, PurgeSteps
<1> QED
  BY <1>6, <1>7, <1>8, <1>9, <1>10, <1>11, <1>12 DEF Sweep, Mark, Purge

LEMMA SweepPInv ==
    ASSUME RInv, PInv, NEW s \in Sweeps, Sweep(s) \/ FailSweep(s)
    PROVE  PInv'
<1>1. Types /\ NoCopies /\ PurgedStaysGone /\ \A q \in Sweeps : PurgeKnows(q)
  BY DEF RInv, PInv
<1>2. /\ UNCHANGED <<received, delivery>>
      /\ \A q \in Sweeps \ {s} : sweep'[q] = sweep[q]
      /\ journals' \subseteq journals /\ records' \subseteq records
  BY <1>1, SweepKeepsTables
<1>3. MarksStay
  BY SweepRInv
<1>4. NoCopies'
  BY <1>1, <1>2 DEF NoCopies
<1>5. ASSUME NEW doc \in Docs, marks'[doc].status = "PURGED"
      PROVE  marks'[doc].messages \cap (journals' \cup records') = {}
  <2>1. /\ marks'[doc].messages = marks[doc].messages
        /\ marks[doc].status = "PURGED" \/ (Flip(s) /\ doc = Doc(s))
    BY <1>3, <1>5, MarkTurnsPurged
  <2>2. CASE marks[doc].status = "PURGED"
    BY <1>1, <1>2, <2>1, <2>2 DEF PurgedStaysGone
  <2>3. CASE Flip(s) /\ doc = Doc(s)
    BY <1>1, <1>2, <2>1, <2>3 DEF PurgeKnows, PurgeSteps, Captured, Flip, SweepAt
  <2> QED
    BY <2>1, <2>2, <2>3
<1>6. ASSUME NEW q \in Sweeps PROVE PurgeKnows(q)'
  <2>1. CASE q = s
    BY <1>1, <2>1, PurgeGoesOn
  <2>2. CASE q # s
    <3>1. sweep'[q] = sweep[q] /\ Doc(q)' = Doc(q)
      BY <1>2, <2>2 DEF Doc
    <3>2. ASSUME sweep[q].step \in PurgeSteps
          PROVE  Captured(q)'.messages = Captured(q).messages
      BY <1>3, <3>1, <3>2, PurgedIsMarked DEF Captured, MarksStay
    <3> QED
      BY <1>1, <1>2, <3>1, <3>2 DEF PurgeKnows, PurgeSteps
  <2> QED
    BY <2>1, <2>2
<1> QED
  BY <1>4, <1>5, <1>6 DEF PInv, PurgedStaysGone

LEMMA OtherPInv ==
    ASSUME PInv, UNCHANGED <<received, records, journals, delivery, marks, sweep>>
    PROVE  PInv'
<1>1. NoCopies' /\ PurgedStaysGone'
  BY DEF PInv, NoCopies, PurgedStaysGone
<1>2. ASSUME NEW s \in Sweeps PROVE PurgeKnows(s)'
  BY DEF PInv, PurgeKnows, Captured, Doc
<1> QED
  BY <1>1, <1>2 DEF PInv

LEMMA RetentionPInv ==
    ASSUME ~Resend, RInv, PInv, [RetentionNext]_retentionVars
    PROVE  PInv'
<1>1. CASE UNCHANGED retentionVars
  BY <1>1, OtherPInv DEF retentionVars, replicaVars, tables, buckets
<1>2. CASE Tick /\ UNCHANGED <<marks, vectors, sweep>>
  BY <1>2, OtherPInv DEF Tick, tables, buckets
<1>3. ASSUME NEW d \in Deliveries, Deliver(d), UNCHANGED <<marks, vectors, sweep>> PROVE PInv'
  BY <1>3, DeliverPInv
<1>4. ASSUME NEW s \in Sweeps, Sweep(s) \/ FailSweep(s) PROVE PInv'
  BY <1>4, SweepPInv
<1> QED
  BY <1>1, <1>2, <1>3, <1>4 DEF RetentionNext

LEMMA InitPInv == RetentionInit => PInv
<1> SUFFICES ASSUME RetentionInit PROVE PInv
  OBVIOUS
<1>1. NoCopies
  BY DEF RetentionInit, ReplicaInit, NoCopies
<1>2. PurgedStaysGone
  BY DEF RetentionInit, PurgedStaysGone, NoMark
<1>3. \A s \in Sweeps : PurgeKnows(s)
  BY AsleepTyped DEF RetentionInit, PurgeKnows, PurgeSteps
<1> QED
  BY <1>1, <1>2, <1>3 DEF PInv

(* When the research machine sends a message again only after it was         *)
(* answered, the messages of a document that retention has purged have       *)
(* neither a journal nor a row again, whatever redelivery, crash or sweep    *)
(* comes after the flip.                                                     *)
THEOREM PurgedIsGoneForGood == ~Resend => (RetentionSpec => []PurgedStaysGone)
<1> SUFFICES ASSUME ~Resend PROVE RetentionSpec => []PurgedStaysGone
  OBVIOUS
<1>1. RetentionInit => RInv /\ PInv
  BY InitRInv, InitPInv
<1>2. RInv /\ PInv /\ [RetentionNext]_retentionVars => RInv' /\ PInv'
  BY RetentionRInv, RetentionPInv
<1>3. PInv => PurgedStaysGone
  BY DEF PInv
<1> QED
  BY <1>1, <1>2, <1>3, PTL DEF RetentionSpec

------------------------------------------------------------------------------
(* The semantic index *)

PushType ==
    [step : {"rest", "row", "current", "revive", "compare", "probe", "upsert", "ready"},
     cursor : Versions \cup {NoVersion}, version : Versions \cup {NoVersion},
     body : Bodies, probe : BOOLEAN, retired : BOOLEAN, fits : BOOLEAN]

(* No version is sent a second time, with other content or a new lifecycle.   *)
OneMessagePerVersion ==
    \A m, n \in VersionMessages : Version(m) = Version(n) => m = n

(* What the stored message of a version says its vectors are made of.         *)
HasBody(v, body) ==
    \E m \in received : ~IsObject(m) /\ Version(m) = v /\ body = BodyOf(m)

PushTyped ==
    /\ push \in [Pushers -> PushType]
    /\ \A p \in Pushers : push[p].step # "rest" => push[p].version \in Versions

RowKnows(v) ==
    /\ index[v] # NoRow => IsStored(v)
    /\ index[v].state = "READY" => HasBody(v, index[v].body) /\ vectors[v] = index[v].body

(* A push between the upsert and the mark has its vectors, or lost its row.   *)
PushKnows(p) ==
    /\ push[p].step # "rest" => HasBody(push[p].version, push[p].body)
    /\ push[p].step = "ready" =>
          index[push[p].version] = NoRow \/ vectors[push[p].version] = push[p].body

(* A purge deletes the vectors after the rows that could say READY.           *)
RowsAreGone(s) ==
    sweep[s].step = "vectors" => \A v \in Captured(s).versions : index[v] = NoRow

VInv == /\ \A v \in Versions : RowKnows(v)
        /\ \A p \in Pushers : PushKnows(p)
        /\ \A s \in Sweeps : RowsAreGone(s)

LEMMA OneBody ==
    ASSUME Types, OneMessagePerVersion, NEW v, NEW x, NEW y, HasBody(v, x), HasBody(v, y)
    PROVE  x = y
<1>1. received \subseteq Messages
  BY TypesAre DEF TablesTyped
<1> QED
  BY <1>1 DEF HasBody, OneMessagePerVersion, VersionMessages

LEMMA BodyIsStored ==
    ASSUME NEW v, NEW x, HasBody(v, x)
    PROVE  IsStored(v)
BY DEF HasBody, IsStored

LEMMA BodyStays ==
    ASSUME NEW v, NEW x, received \subseteq received'
    PROVE  (HasBody(v, x) => HasBody(v, x)') /\ (IsStored(v) => IsStored(v)')
BY DEF HasBody, IsStored, IsObject, Version, BodyOf

LEMMA BodyTyped ==
    ASSUME Types, NEW v \in Versions, NEW m \in received, Version(m) = v
    PROVE  ~IsObject(m) /\ BodyOf(m) \in Bodies /\ HasBody(v, BodyOf(m))
<1>1. m \in Messages
  BY TypesAre DEF TablesTyped
<1>2. v[1] \in Docs
  BY VersionsTyped
<1>3. v[1] = m.doc
  BY DEF Version
<1>4. ~IsObject(m)
  BY <1>2, <1>3, DocsTyped DEF IsObject
<1>5. BodyOf(m) \in Bodies
  BY <1>1, MessagesTyped DEF BodyOf, Bodies
<1> QED
  BY <1>4, <1>5 DEF HasBody

(* The first row of a page, in the order of documents and version numbers.    *)
LEMMA FirstRow ==
    ASSUME NEW page, page \subseteq Versions, page # {}
    PROVE  (CHOOSE v \in page : \A w \in page \ {v} : Before(v, w)) \in page
<1>1. ASSUME NEW v \in page PROVE v[1] \in Nat /\ v[2] \in Nat /\ v = <<v[1], v[2]>>
  <2>1. PICK m \in Messages : v = <<m.doc, m.number>>
    BY VersionsTyped
  <2> QED
    BY <2>1, ReplicaAssumption DEF MessageType
<1> DEFINE docs == {v[1] : v \in page}
<1>2. PICK d \in docs : \A e \in docs : d <= e
  <2>1. docs \subseteq Nat /\ docs # {}
    BY <1>1
  <2> HIDE DEF docs
  <2> QED
    BY <2>1, LeastOf
<1> DEFINE numbers == {v[2] : v \in {w \in page : w[1] = d}}
<1>3. PICK n \in numbers : \A k \in numbers : n <= k
  <2>1. numbers \subseteq Nat
    BY <1>1
  <2>2. numbers # {}
    BY <1>2
  <2> HIDE DEF numbers
  <2> QED
    BY <2>1, <2>2, LeastOf
<1>4. PICK v \in page : v[1] = d /\ v[2] = n
  BY <1>3
<1>5. ASSUME NEW w \in page \ {v} PROVE Before(v, w)
  <2>1. d <= w[1] /\ (w[1] = d => n <= w[2])
    BY <1>2, <1>3
  <2>2. w[1] # d \/ w[2] # n
    BY <1>1, <1>4
  <2>3. d \in Nat /\ n \in Nat /\ w[1] \in Nat /\ w[2] \in Nat
    BY <1>1, <1>4
  <2> QED
    BY <1>4, <2>1, <2>2, <2>3 DEF Before
<1> QED
  BY <1>4, <1>5

LEMMA AtRestTyped == AtRest \in PushType /\ AtRest.step = "rest"
BY DEF AtRest, PushType, Bodies, NoVector

LEMMA MovedPush ==
    ASSUME PushTyped, NEW p \in Pushers, NEW x \in PushType,
           x.step # "rest" => x.version \in Versions, push' = [push EXCEPT ![p] = x]
    PROVE  PushTyped' /\ push'[p] = x /\ \A q \in Pushers \ {p} : push'[q] = push[q]
BY DEF PushTyped

LEMMA EndedPush ==
    ASSUME PushTyped, NEW p \in Pushers, EndPush(p)
    PROVE  /\ PushTyped' /\ push'[p].step = "rest"
           /\ \A q \in Pushers \ {p} : push'[q] = push[q]
<1> DEFINE x == [AtRest EXCEPT !.cursor = push[p].cursor]
<1>1. push[p].cursor \in Versions \cup {NoVersion}
  BY DEF PushTyped, PushType
<1>2. x \in PushType /\ x.step = "rest"
  BY <1>1, AtRestTyped DEF PushType
<1>3. push' = [push EXCEPT ![p] = x]
  BY DEF EndPush
<1> HIDE DEF x
<1> QED
  BY <1>2, <1>3, MovedPush

(* A push that goes on keeps the version and the body it was sent.            *)
SamePush(p, step) ==
    /\ push'[p].step = step
    /\ push'[p].version = push[p].version /\ push'[p].body = push[p].body

LEMMA SteppedPush ==
    ASSUME PushTyped, NEW p \in Pushers, push[p].step # "rest",
           NEW step \in {"current", "revive", "compare", "probe", "upsert", "ready"},
           NEW retired \in BOOLEAN, NEW fits \in BOOLEAN,
           push' = [push EXCEPT ![p].step = step, ![p].retired = retired, ![p].fits = fits]
    PROVE  PushTyped' /\ SamePush(p, step) /\ \A q \in Pushers \ {p} : push'[q] = push[q]
<1> DEFINE x == [push[p] EXCEPT !.step = step, !.retired = retired, !.fits = fits]
<1>1. push[p] \in PushType /\ push[p].version \in Versions
  BY DEF PushTyped
<1>2. /\ x \in PushType /\ x.version \in Versions /\ x.step = step
      /\ x.version = push[p].version /\ x.body = push[p].body
  BY <1>1 DEF PushType
<1>3. push' = [push EXCEPT ![p] = x]
  <2>1. push \in [Pushers -> PushType]
    BY DEF PushTyped
  <2> QED
    BY <2>1
<1> HIDE DEF x
<1> QED
  BY <1>2, <1>3, MovedPush DEF SamePush

LEMMA BegunPush ==
    ASSUME Types, PushTyped, NEW p \in Pushers, NEW v \in Versions, NEW probe \in BOOLEAN,
           NEW cursor \in Versions \cup {NoVersion}, Begin(p, v, cursor, probe)
    PROVE  /\ PushTyped' /\ push'[p].step = "row"
           /\ HasBody(push'[p].version, push'[p].body)
           /\ \A q \in Pushers \ {p} : push'[q] = push[q]
<1>1. PICK m \in received :
          /\ Version(m) = v
          /\ push' = [push EXCEPT ![p] =
                 [AtRest EXCEPT !.step = "row", !.version = v, !.body = BodyOf(m),
                                !.cursor = cursor, !.probe = probe]]
  BY DEF Begin
<1> DEFINE x == [AtRest EXCEPT !.step = "row", !.version = v, !.body = BodyOf(m),
                               !.cursor = cursor, !.probe = probe]
<1>2. BodyOf(m) \in Bodies /\ HasBody(v, BodyOf(m))
  BY <1>1, BodyTyped
<1>3. /\ x \in PushType /\ x.step = "row" /\ x.version = v /\ x.body = BodyOf(m)
  BY <1>2, AtRestTyped DEF PushType
<1>4. push' = [push EXCEPT ![p] = x]
  BY <1>1
<1> HIDE DEF x
<1> QED
  BY <1>2, <1>3, <1>4, MovedPush

Pushing(p) == Pipeline(p) \/ BeginProbe(p) \/ FailPush(p)

(* A push ends, begins with the body of a stored message, or goes on.         *)
LEMMA PushMoves ==
    ASSUME Types, PushTyped, NEW p \in Pushers, Pushing(p)
    PROVE  /\ PushTyped' /\ \A q \in Pushers \ {p} : push'[q] = push[q]
           /\ \/ push'[p].step = "rest"
              \/ push'[p].step = "row" /\ HasBody(push'[p].version, push'[p].body)
              \/ /\ push[p].step # "rest" /\ SamePush(p, push'[p].step)
                 /\ push'[p].step = "ready" => UpsertVectors(p)
<1> DEFINE Goal == /\ PushTyped' /\ \A q \in Pushers \ {p} : push'[q] = push[q]
                   /\ \/ push'[p].step = "rest"
                      \/ push'[p].step = "row" /\ HasBody(push'[p].version, push'[p].body)
                      \/ /\ push[p].step # "rest" /\ SamePush(p, push'[p].step)
                         /\ push'[p].step = "ready" => UpsertVectors(p)
<1>1. ASSUME EndPush(p) PROVE Goal
  BY <1>1, EndedPush
<1>2. push[p] \in PushType /\ push[p].retired \in BOOLEAN /\ push[p].fits \in BOOLEAN
  BY DEF PushTyped, PushType
<1>3. ASSUME push[p].step # "rest",
             NEW step \in {"compare", "probe", "upsert", "ready"},
             PushStep(p, step), step = "ready" => UpsertVectors(p)
      PROVE  Goal
  <2>1. push' = [push EXCEPT ![p].step = step, ![p].retired = push[p].retired,
                             ![p].fits = push[p].fits]
    BY <1>2, <1>3 DEF PushStep, PushTyped, PushType
  <2> QED
    BY <1>2, <1>3, <2>1, SteppedPush DEF SamePush
<1>4. CASE ListPage(p)
  <2> DEFINE page == {v \in Versions : Listed(v, "PENDING") /\ Before(push[p].cursor, v)}
             row == CHOOSE v \in page : \A w \in page \ {v} : Before(v, w)
  <2>1. CASE page = {}
    BY <1>4, <2>1, AtRestTyped, MovedPush DEF ListPage
  <2>2. CASE page # {}
    <3>1. Begin(p, row, row, FALSE)
      BY <1>4, <2>2 DEF ListPage
    <3>2. row \in Versions
      <4>1. page \subseteq Versions
        OBVIOUS
      <4> HIDE DEF page
      <4> QED
        BY <2>2, <4>1, FirstRow
    <3> HIDE DEF row
    <3> QED
      BY <3>1, <3>2, BegunPush
  <2> QED
    BY <2>1, <2>2
<1>5. CASE BeginProbe(p)
  <2>1. PICK v \in Versions : Begin(p, v, push[p].cursor, TRUE)
    BY <1>5 DEF BeginProbe
  <2>2. push[p].cursor \in Versions \cup {NoVersion}
    BY <1>2 DEF PushType
  <2> QED
    BY <2>1, <2>2, BegunPush
<1>6. CASE ReadRow(p)
  <2>1. CASE EndPush(p)
    BY <1>1, <2>1
  <2>2. CASE ~EndPush(p)
    <3> DEFINE retired == index[push[p].version].retired
    <3>1. push[p].step = "row" /\ push' = [push EXCEPT ![p].step = "current", ![p].retired = retired]
      BY <1>6, <2>2 DEF ReadRow, PushAt
    <3>2. retired \in BOOLEAN
      BY <3>1, TypesAre DEF TablesTyped, RowType, PushTyped
    <3> HIDE DEF retired
    <3>3. push' = [push EXCEPT ![p].step = "current", ![p].retired = retired,
                               ![p].fits = push[p].fits]
      BY <1>2, <3>1 DEF PushTyped, PushType
    <3>4. /\ PushTyped' /\ SamePush(p, "current")
          /\ \A q \in Pushers \ {p} : push'[q] = push[q]
      BY <1>2, <3>1, <3>2, <3>3, SteppedPush
    <3> QED
      BY <3>1, <3>4 DEF SamePush
  <2> QED
    BY <2>1, <2>2
<1>7. CASE CheckCurrent(p)
  <2>1. CASE EndPush(p)
    BY <1>1, <2>1
  <2>2. CASE ~EndPush(p)
    <3> DEFINE fits == push[p].body = CurrentBody(push[p].version)
    <3>1. PICK step \in {"revive", "compare"} :
              push' = [push EXCEPT ![p].step = step, ![p].fits = fits]
      BY <1>7, <2>2 DEF CheckCurrent
    <3>2. push[p].step = "current" /\ fits \in BOOLEAN
      BY <1>7 DEF CheckCurrent, PushAt
    <3> HIDE DEF fits
    <3>3. push' = [push EXCEPT ![p].step = step, ![p].retired = push[p].retired,
                               ![p].fits = fits]
      BY <1>2, <3>1 DEF PushTyped, PushType
    <3> QED
      BY <1>2, <3>2, <3>3, SteppedPush DEF SamePush
  <2> QED
    BY <2>1, <2>2
<1>8. CASE Revive(p)
  BY <1>1, <1>3, <1>8 DEF Revive, PushAt
<1>9. CASE Compare(p)
  BY <1>1, <1>3, <1>9 DEF Compare, PushAt
<1>10. CASE UpsertVectors(p)
  BY <1>3, <1>10 DEF UpsertVectors, PushAt
<1>11. CASE Probe(p) \/ MarkReady(p) \/ FailPush(p)
  BY <1>1, <1>11 DEF Probe, MarkReady, FailPush
<1> QED
  BY <1>4, <1>5, <1>6, <1>7, <1>8, <1>9, <1>10, <1>11 DEF Pushing, Pipeline, ServePush

LEMMA PushTypes ==
    ASSUME Types, PushTyped, NEW p \in Pushers, Pushing(p)
    PROVE  Types' /\ UNCHANGED <<now, tablesButIndex, buckets, delivery, marks, sweep>>
<1>1. /\ now \in 1..LastMonth /\ TablesTyped /\ DeliveriesTyped /\ SweepsTyped
      /\ marks \in [Docs -> MarkType] /\ vectors \in [Versions -> Bodies]
  BY TypesAre
<1>2. UNCHANGED <<now, tablesButIndex, buckets, delivery, marks, sweep>>
  BY DEF Pushing, Pipeline, ServePush, ListPage, BeginProbe, ReadRow, CheckCurrent, Revive,
     Compare, Probe, UpsertVectors, MarkReady, FailPush, retentionVars, replicaVars, tables,
     tablesButIndex
<1>3. push[p] \in PushType
  BY DEF PushTyped
<1>4. index' \in [Versions -> RowType]
  <2>1. CASE Revive(p)
    BY <1>1, <2>1 DEF Revive, TablesTyped, RowType
  <2>2. CASE MarkReady(p)
    <3> DEFINE v == push[p].version
               row == [index[v] EXCEPT !.state = "READY", !.body = push[p].body]
    <3>1. v \in Versions
      BY <2>2 DEF MarkReady, PushAt, PushTyped
    <3>2. row \in RowType
      <4>1. index[v] \in RowType /\ push[p].body \in Bodies
        BY <1>1, <1>3, <3>1 DEF TablesTyped, PushType
      <4> QED
        BY <4>1 DEF RowType
    <3>3. index' = index \/ index' = [index EXCEPT ![v] = row]
      BY <2>2 DEF MarkReady
    <3> HIDE DEF row
    <3> QED
      BY <1>1, <3>2, <3>3 DEF TablesTyped
  <2>3. CASE ~Revive(p) /\ ~MarkReady(p)
    <3>1. index' = index
      BY <2>3 DEF Pushing, Pipeline, ServePush, ListPage, BeginProbe, ReadRow, CheckCurrent,
         Compare, Probe, UpsertVectors, FailPush, retentionVars, replicaVars, tables
    <3> QED
      BY <1>1, <3>1 DEF TablesTyped
  <2> QED
    BY <2>1, <2>2, <2>3
<1>5. vectors' \in [Versions -> Bodies]
  <2>1. CASE UpsertVectors(p)
    BY <1>1, <1>3, <2>1 DEF UpsertVectors, PushType
  <2>2. CASE ~UpsertVectors(p)
    <3>1. vectors' = vectors
      BY <2>2 DEF Pushing, Pipeline, ServePush, ListPage, BeginProbe, ReadRow, CheckCurrent,
         Revive, Compare, Probe, MarkReady, FailPush, retentionVars
    <3> QED
      BY <1>1, <3>1
  <2> QED
    BY <2>1, <2>2
<1>6. faults' \in 0..MaxFaults
  <2>1. faults \in 0..MaxFaults
    BY <1>1 DEF TablesTyped
  <2>2. CASE FailPush(p)
    BY <2>1, <2>2, ReplicaAssumption DEF FailPush
  <2>3. CASE ~FailPush(p)
    <3>1. faults' = faults
      BY <2>3 DEF Pushing, Pipeline, ServePush, ListPage, BeginProbe, ReadRow, CheckCurrent,
         Revive, Compare, Probe, UpsertVectors, MarkReady, retentionVars, replicaVars
    <3> QED
      BY <2>1, <3>1
  <2> QED
    BY <2>2, <2>3
<1>7. TablesTyped'
  BY <1>1, <1>2, <1>4, <1>6 DEF TablesTyped, tablesButIndex, buckets
<1>8. DeliveriesTyped' /\ SweepsTyped'
  BY <1>1, <1>2 DEF DeliveriesTyped, SweepsTyped
<1> QED
  BY <1>1, <1>2, <1>5, <1>7, <1>8, TypesFrom

LEMMA PushInvariants ==
    ASSUME RInv, PushTyped, NEW p \in Pushers, Pushing(p)
    PROVE  RInv' /\ PushTyped' /\ (PInv => PInv')
<1>1. Types
  BY DEF RInv
<1>2. /\ Types' /\ PushTyped'
      /\ UNCHANGED <<now, tablesButIndex, buckets, delivery, marks, sweep>>
  BY <1>1, PushTypes, PushMoves
<1>3. UNCHANGED <<usage, received, records, objects, buckets, journals, delivery, marks, sweep>>
  BY <1>2 DEF tablesButIndex, buckets
<1> QED
  BY <1>2, <1>3, OtherRInv, OtherPInv

(* A step of the replica or its retention, with the pushes standing still.    *)
LEMMA IndexInvariants ==
    ASSUME RInv, PushTyped, [Next]_vars
    PROVE  RInv' /\ PushTyped' /\ (~Resend /\ PInv => PInv')
<1>1. ASSUME NEW p \in Pushers, Pushing(p) PROVE RInv' /\ PushTyped' /\ (PInv => PInv')
  BY <1>1, PushInvariants
<1>2. CASE [RetentionNext]_retentionVars /\ UNCHANGED push
  BY <1>2, RetentionRInv, RetentionPInv DEF PushTyped
<1> QED
  BY <1>1, <1>2 DEF Next, vars, Pushing

LEMMA InitPushTyped == Init => RetentionInit /\ PushTyped
BY AtRestTyped DEF Init, PushTyped

(* The replica and its retention keep what they know while the pipeline      *)
(* pushes, whatever pushes, sweeps and deliveries overlap.                   *)
THEOREM PushesKeepTheReplica == Spec => [](RInv /\ PushTyped)
<1>1. Init => RInv /\ PushTyped
  BY InitPushTyped, InitRInv
<1>2. RInv /\ PushTyped /\ [Next]_vars => RInv' /\ PushTyped'
  BY IndexInvariants
<1> QED
  BY <1>1, <1>2, PTL DEF Spec

(* What deliveries and sweeps do to rows and vectors: a row that says READY   *)
(* is one that said so before, a row of a stored version that is gone does    *)
(* not come back, and vectors go only where the row is gone.                  *)
RowsSettle ==
    /\ received \subseteq received'
    /\ \A v \in Versions :
          /\ index'[v] # NoRow => IsStored(v)'
          /\ index'[v].state = "READY" => index'[v] = index[v]
          /\ IsStored(v) /\ index[v] = NoRow => index'[v] = NoRow
          /\ vectors'[v] = vectors[v] \/ index[v] = NoRow

LEMMA SettledRows ==
    ASSUME Types, PushTyped, VInv, RowsSettle, push' = push
    PROVE  (\A v \in Versions : RowKnows(v)') /\ \A p \in Pushers : PushKnows(p)'
<1>1. ASSUME NEW v, NEW x, HasBody(v, x) PROVE HasBody(v, x)'
  BY <1>1, BodyStays DEF RowsSettle
<1>2. ASSUME NEW v \in Versions PROVE RowKnows(v)'
  <2>1. ASSUME index'[v].state = "READY"
        PROVE  HasBody(v, index[v].body)' /\ vectors'[v] = index'[v].body
    <3>1. index'[v] = index[v] /\ index[v] # NoRow
      BY <2>1 DEF RowsSettle, NoRow
    <3>2. HasBody(v, index[v].body) /\ vectors[v] = index[v].body
      BY <2>1, <3>1 DEF VInv, RowKnows
    <3>3. PICK x : x = index[v].body
      OBVIOUS
    <3>4. HasBody(v, x)'
      BY <1>1, <3>2, <3>3
    <3>5. vectors'[v] = vectors[v]
      BY <3>1 DEF RowsSettle
    <3> QED
      BY <3>1, <3>2, <3>3, <3>4, <3>5 DEF HasBody
  <2> QED
    BY <2>1 DEF RowKnows, RowsSettle
<1>3. ASSUME NEW p \in Pushers PROVE PushKnows(p)'
  <2>1. PICK v, x : v = push[p].version /\ x = push[p].body
    OBVIOUS
  <2>2. ASSUME push[p].step # "rest" PROVE HasBody(v, x) /\ HasBody(v, x)' /\ v \in Versions
    BY <1>1, <2>1, <2>2 DEF VInv, PushKnows, PushTyped
  <2>3. ASSUME push[p].step = "ready" PROVE index'[v] = NoRow \/ vectors'[v] = x
    <3>1. v \in Versions /\ IsStored(v)
      BY <2>2, <2>3, BodyIsStored
    <3>2. index[v] = NoRow \/ vectors[v] = x
      BY <2>1, <2>3 DEF VInv, PushKnows
    <3> QED
      BY <3>1, <3>2 DEF RowsSettle
  <2>4. push'[p].version = v /\ push'[p].body = x
    BY <2>1
  <2> QED
    BY <2>2, <2>3, <2>4 DEF PushKnows, HasBody
<1> QED
  BY <1>2, <1>3

LEMMA RowsStand ==
    ASSUME VInv, received \subseteq received', index' = index, vectors' = vectors
    PROVE  RowsSettle
<1>1. ASSUME NEW v \in Versions, index[v] # NoRow PROVE IsStored(v)'
  BY <1>1, BodyStays DEF VInv, RowKnows
<1> QED
  BY <1>1 DEF RowsSettle

(* The version that a delivery stores had no row: it was not stored.          *)
LEMMA DeliverRows ==
    ASSUME RInv, PInv, VInv, OneMessagePerVersion, NEW d \in Deliveries, Deliver(d),
           vectors' = vectors
    PROVE  RowsSettle
<1>1. Types /\ index \in [Versions -> RowType] /\ received \subseteq Messages
  BY TypesAre DEF RInv, TablesTyped
<1>2. received \subseteq received'
  BY DEF Deliver, Receive, ResetPeriod, Reserve, PutJournal, PutBody, Store, FailDelivery, tables
<1> DEFINE m == delivery[d].message
<1>3. CASE Store(d) /\ ~IsObject(m)
  <2>1. delivery[d] # Idle
    BY <1>3, IdleHasNoStep DEF Store, At
  <2>2. m \in Messages /\ m \notin received
    BY <1>1, <2>1, OnItsWay DEF PInv, NoCopies
  <2>3. Version(m) \in Versions /\ m \in VersionMessages
    BY <1>3, <2>2, MessagesTyped DEF VersionMessages
  <2>4. ~IsStored(Version(m))
    BY <1>1, <2>2, <2>3 DEF IsStored, OneMessagePerVersion, VersionMessages
  <2>5. index[Version(m)] = NoRow
    BY <2>3, <2>4 DEF VInv, RowKnows
  <2>6. index' = IndexAfter(m) /\ m \in received'
    BY <1>3 DEF Store
  <2>7. index'[Version(m)].state = "PENDING"
    <3>1. index'[Version(m)] = Registered(m)[Version(m)]
      BY <2>3, <2>6 DEF IndexAfter
    <3> QED
      BY <1>1, <2>3, <2>5, <3>1 DEF Registered, NoRow
  <2>8. ASSUME NEW v \in Versions, v # Version(m)
        PROVE  \/ index'[v] = index[v]
               \/ index[v] # NoRow /\ index'[v].state = "FAILED"
    <3>1. Registered(m)[v] = index[v]
      BY <1>1, <2>8 DEF Registered
    <3>2. Retired(index[v]).state = "FAILED"
      BY <1>1 DEF Retired, RowType
    <3> QED
      BY <2>6, <2>8, <3>1, <3>2 DEF IndexAfter
  <2>9. ASSUME NEW v \in Versions, index[v] # NoRow PROVE IsStored(v)'
    BY <1>2, <2>9, BodyStays DEF VInv, RowKnows
  <2>10. ASSUME NEW v \in Versions, v = Version(m) PROVE IsStored(v)'
    <3>1. PICK n : n = m
      OBVIOUS
    <3>2. n \in received' /\ ~IsObject(n) /\ Version(n) = v
      BY <1>3, <2>6, <2>10, <3>1
    <3> QED
      BY <3>2 DEF IsStored, IsObject, Version
  <2>11. ASSUME NEW v \in Versions
        PROVE  /\ index'[v] # NoRow => IsStored(v)'
               /\ index'[v].state = "READY" => index'[v] = index[v]
               /\ IsStored(v) /\ index[v] = NoRow => index'[v] = NoRow
    <3>1. CASE v = Version(m)
      BY <2>4, <2>7, <2>10, <3>1
    <3>2. CASE v # Version(m)
      BY <2>8, <2>9, <3>2
    <3> QED
      BY <3>1, <3>2
  <2> QED
    BY <1>2, <2>11 DEF RowsSettle
<1>4. CASE ~(Store(d) /\ ~IsObject(m))
  <2>1. index' = index
    BY <1>4 DEF Deliver, Receive, ResetPeriod, Reserve, PutJournal, PutBody, Store,
       FailDelivery, tables
  <2> QED
    BY <1>2, <2>1, RowsStand
<1> QED
  BY <1>3, <1>4

LEMMA SweepRows ==
    ASSUME RInv, VInv, NEW s \in Sweeps, Sweep(s) \/ FailSweep(s)
    PROVE  RowsSettle
<1>1. /\ Types /\ index \in [Versions -> RowType] /\ vectors \in [Versions -> Bodies]
  BY TypesAre DEF RInv, TablesTyped
<1>2. received' = received
  BY SweepKeepsTables
<1>3. ASSUME NEW v \in Versions, index[v] # NoRow PROVE IsStored(v)'
  BY <1>2, <1>3, BodyStays DEF VInv, RowKnows
<1>4. CASE RetireRows(s)
  <2>1. ASSUME NEW v \in Versions
        PROVE  /\ vectors'[v] = vectors[v]
               /\ \/ index'[v] = index[v]
                  \/ index[v] # NoRow /\ index'[v].state = "FAILED"
    <3>1. Retired(index[v]).state = "FAILED"
      BY <1>1 DEF Retired, RowType
    <3> QED
      BY <1>4, <3>1 DEF RetireRows
  <2> QED
    BY <1>2, <1>3, <2>1 DEF RowsSettle
<1>5. CASE DeleteRows(s)
  <2>1. ASSUME NEW v \in Versions
        PROVE  vectors'[v] = vectors[v] /\ index'[v] \in {index[v], NoRow}
    BY <1>5 DEF DeleteRows
  <2>2. NoRow.state # "READY"
    BY DEF NoRow
  <2> QED
    BY <1>2, <1>3, <2>1, <2>2 DEF RowsSettle
<1>6. CASE DeleteVectors(s)
  <2>1. index' = index /\ sweep[s].step = "vectors"
    BY <1>6 DEF DeleteVectors, replicaVars, tables, SweepAt
  <2>2. ASSUME NEW v \in Versions PROVE vectors'[v] = vectors[v] \/ index[v] = NoRow
    BY <1>6, <2>1 DEF DeleteVectors, VInv, RowsAreGone
  <2> QED
    BY <1>2, <1>3, <2>1, <2>2 DEF RowsSettle
<1>7. CASE ~RetireRows(s) /\ ~DeleteRows(s) /\ ~DeleteVectors(s)
  <2>1. index' = index /\ vectors' = vectors
    BY <1>7 DEF Sweep, Mark, Purge, Scan, Capture, InsertMark, ListBacklog, CountReferences,
       DeleteBody, DeleteJournals, DeleteLinks, DeleteRecords, DeleteObjectRows, Flip,
       FailSweep, replicaVars, tables
  <2> QED
    BY <1>2, <2>1, RowsStand
<1> QED
  BY <1>4, <1>5, <1>6, <1>7

(* Rows that a purge has deleted are rows of stored versions: they stay away. *)
LEMMA GoneRowsStay ==
    ASSUME RInv, VInv, NEW s \in Sweeps, sweep[s].step = "vectors", sweep'[s] = sweep[s],
           MarksStay,
           \A v \in Versions : IsStored(v) /\ index[v] = NoRow => index'[v] = NoRow
    PROVE  RowsAreGone(s)'
<1>1. Doc(s) \in Docs /\ marks[Doc(s)] # NoMark
  BY PurgedIsMarked DEF PurgeSteps
<1>2. Captured(s)'.versions = Captured(s).versions
  BY <1>1 DEF Captured, Doc, MarksStay
<1>3. ASSUME NEW v \in Captured(s).versions PROVE v \in Versions /\ IsStored(v)
  <2>1. marks[Doc(s)] \in MarkType
    BY <1>1, TypesAre DEF RInv
  <2> QED
    BY <1>1, <2>1 DEF RInv, CaptureOf, Captured, MarkType
<1>4. ASSUME NEW v \in Captured(s).versions PROVE index'[v] = NoRow
  BY <1>3 DEF VInv, RowsAreGone
<1> QED
  BY <1>2, <1>4 DEF RowsAreGone

LEMMA SweepGoneRows ==
    ASSUME RInv, VInv, NEW s \in Sweeps, Sweep(s) \/ FailSweep(s)
    PROVE  RowsAreGone(s)'
<1>1. /\ Types /\ sweep \in [Sweeps -> SweepType] /\ sweep[s] \in SweepType
      /\ marks \in [Docs -> MarkType]
  BY TypesAre, SweepIs DEF RInv, SweepsTyped
<1>2. CASE DeleteRows(s)
  <2>1. sweep'[s].todo = sweep[s].todo /\ sweep[s].step = "rows" /\ marks' = marks
    BY <1>1, <1>2 DEF DeleteRows, SweepStep, SweepAt, SweepType
  <2>2. Captured(s)' = Captured(s)
    BY <2>1 DEF Captured, Doc
  <2>3. Doc(s) \in Docs
    BY <2>1, PurgedIsMarked DEF PurgeSteps
  <2>4. ASSUME NEW v \in Captured(s).versions PROVE v \in Versions /\ v[1] = Doc(s)
    <3>1. marks[Doc(s)] \in MarkType
      BY <1>1, <2>3
    <3> QED
      BY <2>3, <3>1 DEF RInv, CaptureOf, Captured, MarkType
  <2>5. ASSUME NEW v \in Captured(s).versions PROVE index'[v] = NoRow
    BY <1>2, <2>4 DEF DeleteRows
  <2> QED
    BY <2>2, <2>5 DEF RowsAreGone
<1>3. CASE ~DeleteRows(s)
  <2>1. sweep'[s].step # "vectors"
    <3>1. CASE Mark(s) \/ FailSweep(s)
      BY <1>1, <3>1 DEF Mark, Scan, Capture, InsertMark, RetireRows, FailSweep, Asleep,
         SweepStep, SweepType
    <3>2. CASE ListBacklog(s) \/ Flip(s)
      <4>1. PICK docs : docs \subseteq Docs /\ sweep'[s] \in {PurgeNext(docs), Asleep}
        BY <1>1, <3>2 DEF ListBacklog, Flip, SweepType
      <4> QED
        BY <1>1, <4>1, NextTyped, AsleepTyped
    <3>3. CASE Purge(s) /\ ~ListBacklog(s) /\ ~Flip(s)
      BY <1>1, <1>3, <3>3 DEF Purge, CountReferences, DeleteBody, DeleteJournals, DeleteLinks,
         DeleteRecords, DeleteObjectRows, DeleteVectors, SweepAt, SweepStep, SweepType
    <3> QED
      BY <3>1, <3>2, <3>3 DEF Sweep
  <2> QED
    BY <2>1 DEF RowsAreGone
<1> QED
  BY <1>2, <1>3

LEMMA ReplicaVInv ==
    ASSUME RInv, PInv, PushTyped, VInv, OneMessagePerVersion,
           [RetentionNext]_retentionVars, push' = push
    PROVE  VInv'
<1>1. Types
  BY DEF RInv
<1>2. ASSUME RowsSettle, \A s \in Sweeps : RowsAreGone(s)' PROVE VInv'
  BY <1>1, <1>2, SettledRows DEF VInv
<1>3. ASSUME NEW s \in Sweeps, sweep'[s] = sweep[s], marks' = marks \/ MarksStay, RowsSettle
      PROVE  RowsAreGone(s)'
  <2>1. CASE sweep[s].step = "vectors"
    <3>1. MarksStay
      BY <1>1, <1>3, TypesAre DEF MarksStay
    <3> QED
      BY <1>3, <2>1, <3>1, GoneRowsStay DEF RowsSettle
  <2>2. CASE sweep[s].step # "vectors"
    BY <1>3, <2>2 DEF RowsAreGone
  <2> QED
    BY <2>1, <2>2
<1>4. CASE UNCHANGED retentionVars
  <2>1. RowsSettle
    BY <1>4, RowsStand DEF retentionVars, replicaVars, tables
  <2> QED
    BY <1>2, <1>3, <1>4, <2>1 DEF retentionVars
<1>5. CASE Tick /\ UNCHANGED <<marks, vectors, sweep>>
  <2>1. RowsSettle
    BY <1>5, RowsStand DEF Tick, tables
  <2> QED
    BY <1>2, <1>3, <1>5, <2>1
<1>6. ASSUME NEW d \in Deliveries, Deliver(d), UNCHANGED <<marks, vectors, sweep>> PROVE VInv'
  <2>1. RowsSettle
    BY <1>6, DeliverRows
  <2> QED
    BY <1>2, <1>3, <1>6, <2>1
<1>7. ASSUME NEW s \in Sweeps, Sweep(s) \/ FailSweep(s) PROVE VInv'
  <2>1. RowsSettle /\ RowsAreGone(s)' /\ MarksStay
    BY <1>7, SweepRows, SweepGoneRows, SweepRInv
  <2>2. \A q \in Sweeps \ {s} : sweep'[q] = sweep[q]
    BY <1>1, <1>7, SweepKeepsTables
  <2>3. ASSUME NEW q \in Sweeps PROVE RowsAreGone(q)'
    BY <1>3, <2>1, <2>2
  <2> QED
    BY <1>2, <2>1, <2>3
<1> QED
  BY <1>4, <1>5, <1>6, <1>7 DEF RetentionNext

(* A push touches no row but its own, and none that is gone.                  *)
LEMMA PushRows ==
    ASSUME Types, PushTyped, NEW p \in Pushers, Pushing(p), NEW v \in Versions
    PROVE  \/ index'[v] = index[v]
           \/ index[v] # NoRow /\ index'[v].state = "PENDING"
           \/ /\ index[v] # NoRow /\ MarkReady(p) /\ v = push[p].version
              /\ index'[v].body = push[p].body
<1>1. index \in [Versions -> RowType]
  BY TypesAre DEF TablesTyped
<1>2. CASE Revive(p)
  BY <1>1, <1>2 DEF Revive, RowType
<1>3. CASE MarkReady(p)
  BY <1>1, <1>3 DEF MarkReady, RowType
<1>4. CASE ~Revive(p) /\ ~MarkReady(p)
  <2>1. index' = index
    BY <1>4 DEF Pushing, Pipeline, ServePush, ListPage, BeginProbe, ReadRow, CheckCurrent,
       Compare, Probe, UpsertVectors, FailPush, retentionVars, replicaVars, tables
  <2> QED
    BY <2>1
<1> QED
  BY <1>2, <1>3, <1>4

LEMMA PushVectors ==
    ASSUME Types, NEW p \in Pushers, Pushing(p), NEW v \in Versions
    PROVE  \/ vectors'[v] = vectors[v]
           \/ UpsertVectors(p) /\ v = push[p].version /\ vectors'[v] = push[p].body
<1>1. vectors \in [Versions -> Bodies]
  BY TypesAre
<1>2. CASE UpsertVectors(p)
  BY <1>1, <1>2 DEF UpsertVectors
<1>3. CASE ~UpsertVectors(p)
  <2>1. vectors' = vectors
    BY <1>3 DEF Pushing, Pipeline, ServePush, ListPage, BeginProbe, ReadRow, CheckCurrent,
       Revive, Compare, Probe, MarkReady, FailPush, retentionVars
  <2> QED
    BY <2>1
<1> QED
  BY <1>2, <1>3

(* All pushes of a version send the same body, so none spoils what another    *)
(* one has written or is about to mark.                                       *)
LEMMA PushVInv ==
    ASSUME RInv, PushTyped, VInv, OneMessagePerVersion, NEW p \in Pushers, Pushing(p)
    PROVE  VInv'
<1>1. Types
  BY DEF RInv
<1>2. UNCHANGED <<received, marks, sweep>>
  BY <1>1, PushTypes DEF tablesButIndex
<1>3. ASSUME NEW v, NEW x
      PROVE  (HasBody(v, x) => HasBody(v, x)') /\ (IsStored(v) => IsStored(v)')
  BY <1>2, BodyStays
<1>4. push[p].step # "rest" => /\ HasBody(push[p].version, push[p].body)
                               /\ push[p].version \in Versions
  BY DEF VInv, PushKnows, PushTyped
<1>5. ASSUME NEW v \in Versions, NEW x, HasBody(v, x), vectors[v] = x
      PROVE  vectors'[v] = x
  <2>1. CASE UpsertVectors(p) /\ v = push[p].version
    <3>1. push[p].body = x
      BY <1>1, <1>4, <1>5, <2>1, OneBody DEF UpsertVectors, PushAt
    <3> QED
      BY <1>1, <1>5, <3>1, PushVectors
  <2>2. CASE ~(UpsertVectors(p) /\ v = push[p].version)
    BY <1>1, <1>5, <2>2, PushVectors
  <2> QED
    BY <2>1, <2>2
<1>6. ASSUME NEW v \in Versions PROVE RowKnows(v)'
  <2>1. index'[v] # NoRow => IsStored(v)'
    <3>1. index'[v] # NoRow => index[v] # NoRow
      BY <1>1, PushRows
    <3> QED
      BY <1>3, <3>1 DEF VInv, RowKnows
  <2>2. ASSUME index'[v].state = "READY"
        PROVE  \E x : index'[v].body = x /\ HasBody(v, x)' /\ vectors'[v] = x
    <3>1. CASE index'[v] = index[v]
      <4>1. HasBody(v, index[v].body) /\ vectors[v] = index[v].body
        BY <2>2, <3>1 DEF VInv, RowKnows
      <4>2. PICK x : x = index[v].body
        OBVIOUS
      <4> QED
        BY <1>3, <1>5, <3>1, <4>1, <4>2
    <3>2. CASE /\ index[v] # NoRow /\ MarkReady(p) /\ v = push[p].version
               /\ index'[v].body = push[p].body
      <4>1. push[p].step = "ready"
        BY <3>2 DEF MarkReady, PushAt
      <4>2. HasBody(v, push[p].body) /\ vectors[v] = push[p].body
        BY <3>2, <4>1 DEF VInv, PushKnows
      <4>3. PICK x : x = push[p].body
        OBVIOUS
      <4> QED
        BY <1>3, <1>5, <3>2, <4>2, <4>3
    <3> QED
      BY <1>1, <2>2, <3>1, <3>2, PushRows
  <2> QED
    BY <2>1, <2>2 DEF RowKnows, HasBody
<1>7. ASSUME NEW q \in Pushers PROVE PushKnows(q)'
  <2>1. ASSUME NEW v, NEW x, push'[q].version = v, push'[q].body = x, HasBody(v, x)',
               push'[q].step = "ready" => index'[v] = NoRow \/ vectors'[v] = x
        PROVE  PushKnows(q)'
    BY <2>1 DEF PushKnows, HasBody
  <2>2. ASSUME NEW v, NEW x, HasBody(v, x), push'[q].version = v, push'[q].body = x,
               push'[q].step # "ready"
        PROVE  PushKnows(q)'
    BY <1>3, <2>1, <2>2
  <2>3. CASE q # p
    <3>1. PICK v, x : v = push[q].version /\ x = push[q].body
      OBVIOUS
    <3>2. push'[q] = push[q]
      BY <1>1, <2>3, PushMoves
    <3>3. push[q].step # "rest" => HasBody(v, x) /\ v \in Versions
      BY <3>1 DEF VInv, PushKnows, PushTyped
    <3>4. ASSUME push[q].step = "ready" PROVE index'[v] = NoRow \/ vectors'[v] = x
      <4>1. HasBody(v, x) /\ v \in Versions
        BY <3>3, <3>4
      <4>2. index[v] = NoRow \/ vectors[v] = x
        BY <3>1, <3>4 DEF VInv, PushKnows
      <4>3. index[v] = NoRow => index'[v] = NoRow
        BY <1>1, <4>1, PushRows
      <4> QED
        BY <1>5, <4>1, <4>2, <4>3
    <3>5. CASE push[q].step = "rest"
      BY <3>2, <3>5 DEF PushKnows
    <3>6. CASE push[q].step # "rest"
      BY <1>3, <2>1, <3>1, <3>2, <3>3, <3>4, <3>6
    <3> QED
      BY <3>5, <3>6
  <2>4. CASE q = p
    <3>1. CASE push'[p].step = "rest"
      BY <2>4, <3>1 DEF PushKnows
    <3>2. CASE push'[p].step = "row" /\ HasBody(push'[p].version, push'[p].body)
      BY <2>2, <2>4, <3>2
    <3>3. CASE /\ push[p].step # "rest" /\ SamePush(p, push'[p].step)
               /\ push'[p].step = "ready" => UpsertVectors(p)
      <4>1. PICK v, x : v = push[p].version /\ x = push[p].body
        OBVIOUS
      <4>2. HasBody(v, x) /\ v \in Versions /\ push'[p].version = v /\ push'[p].body = x
        BY <1>4, <3>3, <4>1 DEF SamePush
      <4>3. push'[p].step = "ready" => vectors'[v] = x
        BY <1>1, <3>3, <4>1, <4>2, TypesAre DEF UpsertVectors
      <4> QED
        BY <1>3, <2>1, <2>4, <4>2, <4>3
    <3> QED
      BY <1>1, <3>1, <3>2, <3>3, PushMoves
  <2> QED
    BY <2>3, <2>4
<1>8. ASSUME NEW s \in Sweeps PROVE RowsAreGone(s)'
  <2>1. CASE sweep[s].step = "vectors"
    <3>1. MarksStay
      BY <1>1, <1>2, TypesAre DEF MarksStay
    <3>2. \A v \in Versions : index[v] = NoRow => index'[v] = NoRow
      BY <1>1, PushRows
    <3> QED
      BY <1>2, <2>1, <3>1, <3>2, GoneRowsStay
  <2>2. CASE sweep[s].step # "vectors"
    BY <1>2, <2>2 DEF RowsAreGone
  <2> QED
    BY <2>1, <2>2
<1> QED
  BY <1>6, <1>7, <1>8 DEF VInv

LEMMA InitVInv == Init => VInv
<1> SUFFICES ASSUME Init PROVE VInv
  OBVIOUS
<1>1. \A v \in Versions : index[v] = NoRow
  BY DEF Init, RetentionInit, ReplicaInit
<1>2. \A v \in Versions : RowKnows(v)
  BY <1>1 DEF RowKnows, NoRow
<1>3. \A p \in Pushers : PushKnows(p)
  BY AtRestTyped DEF Init, PushKnows
<1>4. \A s \in Sweeps : RowsAreGone(s)
  BY AsleepTyped DEF Init, RetentionInit, RowsAreGone
<1> QED
  BY <1>2, <1>3, <1>4 DEF VInv

LEMMA IndexVInv ==
    ASSUME RInv, PInv, PushTyped, VInv, OneMessagePerVersion, [Next]_vars
    PROVE  VInv'
<1>1. ASSUME NEW p \in Pushers, Pushing(p) PROVE VInv'
  BY <1>1, PushVInv
<1>2. CASE [RetentionNext]_retentionVars /\ UNCHANGED push
  BY <1>2, ReplicaVInv
<1> QED
  BY <1>1, <1>2 DEF Next, vars, Pushing

(* A row of research_semantic_index_state that says READY has its vectors in *)
(* Vectorize, whatever ingest, sweep or other push ran between the upsert    *)
(* and markRow, as long as no version is sent a second time and no message   *)
(* while it is being served: pushes that overlap such an ingest may mark     *)
(* vectors of the old content READY.                                         *)
THEOREM ReadyRowsHaveVectors ==
    ~Resend /\ OneMessagePerVersion => (Spec => []ReadyHasItsVectors)
<1> SUFFICES ASSUME ~Resend, OneMessagePerVersion PROVE Spec => []ReadyHasItsVectors
  OBVIOUS
<1> DEFINE I == RInv /\ PInv /\ PushTyped /\ VInv
<1>1. Init => I
  BY InitPushTyped, InitRInv, InitPInv, InitVInv
<1>2. I /\ [Next]_vars => I'
  BY IndexInvariants, IndexVInv
<1>3. I => ReadyHasItsVectors
  BY DEF VInv, RowKnows, ReadyHasItsVectors, Listed
<1> HIDE DEF I
<1> QED
  BY <1>1, <1>2, <1>3, PTL DEF Spec
==============================================================================
