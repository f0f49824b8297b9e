------------------------------ MODULE Retention ------------------------------
(***************************************************************************)
(* The retention sweep over the replica, started by the daily cron and by  *)
(* an internal endpoint.  A sweep marks every document past the window     *)
(* EXPIRED, which hides it from all readers, then deletes the content of   *)
(* the documents that are marked, in the order R2, D1, Vectorize, and      *)
(* flips each mark to PURGED last.  Whatever interrupts a sweep, the next  *)
(* one deletes again from the lists the mark captured.                     *)
(*                                                                         *)
(* The pages of the scan and of the purge hold every document of a small   *)
(* instance, so a sweep is not cut short by them; documents are taken in   *)
(* the order of their ids.  A dry run writes nothing but its audit row and *)
(* is not modelled.  A source that always expires is one whose versions    *)
(* are older than the window.                                              *)
(***************************************************************************)
EXTENDS ResearchReplica

CONSTANTS
    Sweeps,          \* sweeps that may run at once
    Window           \* RETENTION_DAYS in months

VARIABLES
    marks,           \* research_document_retention, by document
    vectors,         \* Vectorize: the body each version's vectors are made of
    sweep

retentionVars == <<replicaVars, marks, vectors, sweep>>

NoMark == [status |-> "NONE", messages |-> {}, versions |-> {}, hashes |-> {}]
NoVector == "none"
Asleep == [step |-> "asleep", todo |-> {}, capture |-> NoMark, hashes |-> {},
           deleted |-> {}]

RetentionInit ==
    /\ ReplicaInit
    /\ marks = [doc \in Docs |-> NoMark]
    /\ vectors = [v \in Versions |-> NoVector]
    /\ sweep = [s \in Sweeps |-> Asleep]

IsExpired(doc) == marks[doc].status = "EXPIRED"
RecordsOf(doc) == {r \in records : r.doc = doc}

------------------------------------------------------------------------------
(* Marking *)

(* The earliest ingested_at of the versions that are stored. *)
PastWindow(doc) ==
    /\ RecordsOf(doc) # {}
    /\ Min({r.ingested : r \in RecordsOf(doc)}) + Window <= now

SweepAt(s, step) == sweep[s].step = step
Doc(s) == Min(sweep[s].todo)
SweepStep(s, step) == sweep' = [sweep EXCEPT ![s].step = step]
tablesButIndex == <<usage, received, records, objects, links>>

Scan(s) ==
    /\ SweepAt(s, "asleep")
    /\ sweep' = [sweep EXCEPT ![s].step = "mark",
           ![s].todo = {doc \in Docs : PastWindow(doc) /\ ~IsExpired(doc)}]
    /\ UNCHANGED <<replicaVars, marks, vectors>>

(* The lists the purge will work from. *)
Capture(s) ==
    LET versions == {Version(r) : r \in RecordsOf(Doc(s))}
    IN  /\ SweepAt(s, "mark") /\ sweep[s].todo # {}
        /\ sweep' = [sweep EXCEPT ![s].step = "insert", ![s].capture =
               [status |-> "EXPIRED",
                versions |-> versions,
                messages |-> {m \in received : ~IsObject(m)
                                               /\ Version(m) \in versions},
                hashes |-> {l[2] : l \in {k \in links : k[1] \in versions}}]]
        /\ UNCHANGED <<replicaVars, marks, vectors>>

(* ON CONFLICT DO NOTHING: a mark that is there stays what it is. *)
InsertMark(s) ==
    /\ SweepAt(s, "insert")
    /\ marks' = IF marks[Doc(s)] = NoMark
                  THEN [marks EXCEPT ![Doc(s)] = sweep[s].capture] ELSE marks
    /\ SweepStep(s, "retire")
    /\ UNCHANGED <<replicaVars, vectors>>

RetireRows(s) ==
    /\ SweepAt(s, "retire")
    /\ index' = [v \in Versions |->
           IF v[1] = Doc(s) /\ index[v] # NoRow THEN Retired(index[v])
           ELSE index[v]]
    /\ sweep' = [sweep EXCEPT ![s].step = "mark", ![s].capture = NoMark,
                              ![s].todo = @ \ {Doc(s)}]
    /\ UNCHANGED <<now, tablesButIndex, buckets, delivery, faults, marks, vectors>>

------------------------------------------------------------------------------
(* Purging *)

(* The sweep turns to the first of a set of marked documents, or ends. *)
PurgeNext(docs) ==
    IF docs = {} THEN Asleep
    ELSE [Asleep EXCEPT !.step = "count", !.todo = docs,
                        !.hashes = marks[Min(docs)].hashes]

(* A mutant: only documents that the scan would find. *)
ListBacklogByAge(s) ==
    /\ SweepAt(s, "mark") /\ sweep[s].todo = {}
    /\ sweep' = [sweep EXCEPT ![s] =
           PurgeNext({doc \in Docs : IsExpired(doc) /\ PastWindow(doc)})]
    /\ UNCHANGED <<replicaVars, marks, vectors>>

ListBacklog(s) ==
    /\ SweepAt(s, "mark") /\ sweep[s].todo = {}
    /\ sweep' = [sweep EXCEPT ![s] =
           PurgeNext({doc \in Docs : IsExpired(doc)})]
    /\ UNCHANGED <<replicaVars, marks, vectors>>

Hash(s) == CHOOSE h \in sweep[s].hashes : TRUE
Captured(s) == marks[Doc(s)]

(* Links of versions that are not purged keep an object. *)
ForeignLinks(s, h) ==
    {l \in links : l[2] = h /\ l[1] \notin Captured(s).versions}

CountReferences(s) ==
    /\ SweepAt(s, "count") /\ sweep[s].hashes # {}
    /\ IF ForeignLinks(s, Hash(s)) = {}
         THEN SweepStep(s, "body")
         ELSE sweep' = [sweep EXCEPT ![s].hashes = @ \ {Hash(s)}]
    /\ UNCHANGED <<replicaVars, marks, vectors>>

DeleteBody(s) ==
    /\ SweepAt(s, "body")
    /\ bodies' = bodies \ {Hash(s)}
    /\ sweep' = [sweep EXCEPT ![s].step = "count",
                              ![s].hashes = @ \ {Hash(s)},
                              ![s].deleted = @ \cup {Hash(s)}]
    /\ UNCHANGED <<now, tables, journals, delivery, faults, marks, vectors>>

(* A mutant: the journals of the objects as well, shared or not. *)
DeleteObjectJournals(s) ==
    /\ SweepAt(s, "count") /\ sweep[s].hashes = {}
    /\ journals' = {m \in journals : m.hash \notin Captured(s).hashes}
    /\ SweepStep(s, "links")
    /\ UNCHANGED <<now, tables, bodies, delivery, faults, marks, vectors>>

DeleteJournals(s) ==
    /\ SweepAt(s, "count") /\ sweep[s].hashes = {}
    /\ journals' = journals \ Captured(s).messages
    /\ SweepStep(s, "links")
    /\ UNCHANGED <<now, tables, bodies, delivery, faults, marks, vectors>>

DeleteLinks(s) ==
    /\ SweepAt(s, "links")
    /\ links' = {l \in links : l[1] \notin Captured(s).versions}
    /\ SweepStep(s, "records")
    /\ UNCHANGED <<now, usage, received, records, objects, index, buckets, delivery,
                   faults, marks, vectors>>

DeleteRecords(s) ==
    /\ SweepAt(s, "records")
    /\ records' = {r \in records : Version(r) \notin Captured(s).versions}
    /\ SweepStep(s, "objects")
    /\ UNCHANGED <<now, usage, received, objects, links, index, buckets, delivery,
                   faults, marks, vectors>>

(* Object records and research_objects, only of the bytes deleted above. *)
DeleteObjectRows(s) ==
    /\ SweepAt(s, "objects")
    /\ records' = {r \in records : IsObject(r) => r.hash \notin sweep[s].deleted}
    /\ objects' = objects \ sweep[s].deleted
    /\ SweepStep(s, "rows")
    /\ UNCHANGED <<now, usage, received, links, index, buckets, delivery, faults,
                   marks, vectors>>

(* A mutant: the rows were retired when the document was marked. *)
KeepRetiredRows(s) ==
    /\ SweepAt(s, "rows")
    /\ SweepStep(s, "vectors")
    /\ UNCHANGED <<replicaVars, marks, vectors>>

(* Every row of the document, captured or not. *)
DeleteRows(s) ==
    /\ SweepAt(s, "rows")
    /\ index' = [v \in Versions |-> IF v[1] = Doc(s) THEN NoRow ELSE index[v]]
    /\ SweepStep(s, "vectors")
    /\ UNCHANGED <<now, tablesButIndex, buckets, delivery, faults, marks, vectors>>

DeleteVectors(s) ==
    /\ SweepAt(s, "vectors")
    /\ vectors' = [v \in Versions |->
           IF v \in Captured(s).versions THEN NoVector ELSE vectors[v]]
    /\ SweepStep(s, "flip")
    /\ UNCHANGED <<replicaVars, marks>>

(* A sweep that finds the mark flipped by another one gives up. *)
Flip(s) ==
    /\ SweepAt(s, "flip")
    /\ marks' = [marks EXCEPT ![Doc(s)].status = "PURGED"]
    /\ sweep' = [sweep EXCEPT ![s] =
           IF IsExpired(Doc(s)) THEN PurgeNext(@.todo \ {Doc(s)}) ELSE Asleep]
    /\ UNCHANGED <<replicaVars, vectors>>

(***************************************************************************)
(* A call fails or the worker dies.  A sweep without the Vectorize binding *)
(* likewise ends after ListBacklog.                                        *)
(***************************************************************************)
FailSweep(s) ==
    /\ ~SweepAt(s, "asleep")
    /\ faults < MaxFaults
    /\ faults' = faults + 1
    /\ sweep' = [sweep EXCEPT ![s] = Asleep]
    /\ UNCHANGED <<now, tables, buckets, delivery, marks, vectors>>

Purge(s) ==
    \/ ListBacklog(s) \/ CountReferences(s) \/ DeleteBody(s)
    \/ DeleteJournals(s) \/ DeleteLinks(s) \/ DeleteRecords(s)
    \/ DeleteObjectRows(s) \/ DeleteRows(s) \/ DeleteVectors(s) \/ Flip(s)

Mark(s) == Scan(s) \/ Capture(s) \/ InsertMark(s) \/ RetireRows(s)

Sweep(s) == Mark(s) \/ Purge(s)

RetentionNext ==
    \/ /\ Tick \/ \E d \in Deliveries : Deliver(d)
       /\ UNCHANGED <<marks, vectors, sweep>>
    \/ \E s \in Sweeps : Sweep(s) \/ FailSweep(s)

(* The cron starts a sweep every day, and the platform runs it. *)
SweepFairness == \A s \in Sweeps : WF_retentionVars(Sweep(s))

RetentionSpec == RetentionInit /\ [][RetentionNext]_retentionVars /\ SweepFairness

------------------------------------------------------------------------------
(* Properties *)

MarkType == [status : {"NONE", "EXPIRED", "PURGED"},
             messages : SUBSET Messages, versions : SUBSET Versions,
             hashes : SUBSET Hashes]

(***************************************************************************)
(* The replica is well typed, marks hold lists of what was stored, and a   *)
(* sweep that purges works on a document that was marked.                  *)
(***************************************************************************)
TypeOK ==
    /\ ReplicaTypeOK
    /\ marks \in [Docs -> MarkType]
    /\ vectors \in [Versions -> Bodies]
    /\ \A s \in Sweeps :
          /\ sweep[s].todo \subseteq Docs
          /\ sweep[s].step \notin {"asleep", "mark"} => sweep[s].todo # {}
          /\ sweep[s].deleted \subseteq Hashes

(***************************************************************************)
(* A message is stored only with its journal, and an object only with its  *)
(* bytes, whatever failed on the way: D1 can be rebuilt by sending the     *)
(* journals again.  Only what a mark has captured may be gone.             *)
(***************************************************************************)
StoredIsRecoverable ==
    /\ \A m \in records :
          \/ m \in journals
          \/ \E doc \in Docs : m \in marks[doc].messages
    /\ \A h \in objects :
          h \in bodies \/ \E doc \in Docs : h \in marks[doc].hashes

(***************************************************************************)
(* A purged message stays gone: once its mark says PURGED, no sweep that   *)
(* was interrupted and no redelivery brings its journal or its row back.   *)
(***************************************************************************)
PurgedStaysGone ==
    \A doc \in Docs : marks[doc].status = "PURGED" =>
        marks[doc].messages \cap (journals \cup records) = {}

(***************************************************************************)
(* A marked document is purged in the end: each sweep takes the backlog up *)
(* again where another one failed.                                         *)
(***************************************************************************)
ExpiredIsPurged ==
    \A doc \in Docs : IsExpired(doc) ~> marks[doc].status = "PURGED"

(***************************************************************************)
(* A document that a sweep found past the window is invisible once the     *)
(* sweep has marked it: its mark says EXPIRED.                             *)
(***************************************************************************)
MarkedIsInvisible ==
    \A s \in Sweeps : SweepAt(s, "retire") => IsExpired(Doc(s))

==============================================================================
