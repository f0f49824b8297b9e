---------------------------- MODULE SemanticIndex ----------------------------
(***************************************************************************)
(* The semantic index over the PUBLIC versions of the replica.  Every      *)
(* version has a state row; the PENDING rows are the work queue of an      *)
(* external pipeline, which walks it page by page, computes the vectors of *)
(* a version and pushes them.  A push reads the row and the versions,      *)
(* writes the vectors to Vectorize and marks the row last; deliveries,     *)
(* sweeps and other pushes may come in between.  A search validates every  *)
(* vector it finds against D1 and R2.                                      *)
(*                                                                         *)
(* The chunks of a version are upserted and deleted by one call each: they *)
(* are one vector, named by the body it was made of.  A version that       *)
(* cannot be served is indexed by its title (every document has one).      *)
(***************************************************************************)
EXTENDS Retention

CONSTANT Pushers         \* pushes that may be served at once

VARIABLE push            \* the pipeline and its push calls

vars == <<retentionVars, push>>

NoVersion == <<NoDoc, 0>>
AtRest == [step |-> "rest", cursor |-> NoVersion, version |-> NoVersion,
           body |-> NoVector, probe |-> FALSE, retired |-> FALSE,
           fits |-> FALSE]

Init == RetentionInit /\ push = [p \in Pushers |-> AtRest]

------------------------------------------------------------------------------
(* Reading the replica *)

Before(v, w) == v[1] < w[1] \/ (v[1] = w[1] /\ v[2] < w[2])

BodyOf(m) == IF m.servable THEN m.hash ELSE Title

(* currentVersionCandidate: the highest servable version, or the highest.  *)
Candidates(doc) ==
    LET servable == {r \in RecordsOf(doc) : r.servable}
    IN  IF servable = {} THEN RecordsOf(doc) ELSE servable
CurrentRecord(doc) ==
    CHOOSE r \in Candidates(doc) : \A o \in Candidates(doc) : o.number <= r.number
IsCurrent(v) == RecordsOf(v[1]) # {} /\ Version(CurrentRecord(v[1])) = v
CurrentBody(v) == BodyOf(CurrentRecord(v[1]))

(* The rows that the queue (PENDING) and the list of READY rows show. *)
Listed(v, state) ==
    index[v].state = state /\ ~index[v].retired /\ ~IsExpired(v[1])

(* validateSemanticHit, for a vector that the query returns. *)
IsHit(v) ==
    /\ vectors[v] # NoVector
    /\ Listed(v, "READY")
    /\ IsCurrent(v)
    /\ index[v].body = CurrentBody(v)
    /\ CurrentBody(v) \in bodies \cup {Title}

(* semanticIndexStatus, also shown by the coverage counters. *)
IndexStatus ==
    IF /\ \A v \in Versions : ~Listed(v, "PENDING")
       /\ \E v \in Versions : Listed(v, "READY")
      THEN "READY" ELSE "PARTIAL"

------------------------------------------------------------------------------
(* The pipeline and its pushes *)

PushAt(p, step) == push[p].step = step
PushStep(p, step) == push' = [push EXCEPT ![p].step = step]
EndPush(p) ==
    push' = [push EXCEPT ![p] = [AtRest EXCEPT !.cursor = push[p].cursor]]

(* The pipeline sends what it computed from the content it has sent. *)
Begin(p, v, cursor, probe) ==
    \E m \in received :
        /\ Version(m) = v
        /\ push' = [push EXCEPT ![p] =
               [AtRest EXCEPT !.step = "row", !.version = v, !.body = BodyOf(m),
                              !.cursor = cursor, !.probe = probe]]

(* A mutant: every page begins at the head of the queue. *)
ListHead(p) ==
    LET page == {v \in Versions : Listed(v, "PENDING")}
        row == CHOOSE v \in page : \A w \in page \ {v} : Before(v, w)
    IN  /\ PushAt(p, "rest")
        /\ IF page = {} THEN push' = [push EXCEPT ![p] = AtRest]
                        ELSE Begin(p, row, NoVersion, FALSE)
        /\ UNCHANGED retentionVars

(* The page of the queue after the cursor, one row long, or a new start. *)
ListPage(p) ==
    LET page == {v \in Versions : Listed(v, "PENDING")
                                  /\ Before(push[p].cursor, v)}
        row == CHOOSE v \in page : \A w \in page \ {v} : Before(v, w)
    IN  /\ PushAt(p, "rest")
        /\ IF page = {} THEN push' = [push EXCEPT ![p] = AtRest]
                        ELSE Begin(p, row, row, FALSE)
        /\ UNCHANGED retentionVars

(* Now and then a row that is READY is probed. *)
BeginProbe(p) ==
    /\ PushAt(p, "rest")
    /\ \E v \in Versions :
          Listed(v, "READY") /\ Begin(p, v, push[p].cursor, TRUE)
    /\ UNCHANGED retentionVars

(* REJECTED without a row, and for a document marked EXPIRED. *)
ReadRow(p) ==
    LET v == push[p].version
    IN  /\ PushAt(p, "row")
        /\ IF index[v] = NoRow \/ IsExpired(v[1]) THEN EndPush(p)
           ELSE push' = [push EXCEPT ![p].step = "current",
                                     ![p].retired = index[v].retired]
        /\ UNCHANGED retentionVars

(* REJECTED unless the version is the current one. *)
CheckCurrent(p) ==
    LET v == push[p].version
    IN  /\ PushAt(p, "current")
        /\ IF ~IsCurrent(v) THEN EndPush(p)
           ELSE push' = [push EXCEPT
                  ![p].step = IF push[p].retired THEN "revive" ELSE "compare",
                  ![p].fits = push[p].body = CurrentBody(v)]
        /\ UNCHANGED retentionVars

(* A retired row is revived, for a probe as well, whatever body was sent. *)
Revive(p) ==
    LET v == push[p].version
    IN  /\ PushAt(p, "revive")
        /\ IF index[v] = NoRow THEN EndPush(p) /\ UNCHANGED index
           ELSE /\ index' = [index EXCEPT ![v].state = "PENDING",
                                          ![v].retired = FALSE]
                /\ PushStep(p, "compare")
        /\ UNCHANGED <<now, tablesButIndex, buckets, delivery, faults, marks,
                       vectors, sweep>>

(* REJECTED unless the body is that of the version CheckCurrent read. *)
Compare(p) ==
    /\ PushAt(p, "compare")
    /\ IF push[p].fits
         THEN PushStep(p, IF push[p].probe THEN "probe" ELSE "upsert")
         ELSE EndPush(p)
    /\ UNCHANGED retentionVars

(* A probe compares the stored vectors and writes nothing more. *)
Probe(p) ==
    /\ PushAt(p, "probe")
    /\ EndPush(p)
    /\ UNCHANGED retentionVars

UpsertVectors(p) ==
    /\ PushAt(p, "upsert")
    /\ vectors' = [vectors EXCEPT ![push[p].version] = push[p].body]
    /\ PushStep(p, "ready")
    /\ UNCHANGED <<replicaVars, marks, sweep>>

(* markRow: no effect on a row that was retired or deleted meanwhile. *)
MarkReady(p) ==
    LET v == push[p].version
    IN  /\ PushAt(p, "ready")
        /\ index' = IF index[v] = NoRow \/ index[v].retired THEN index
                    ELSE [index EXCEPT ![v].state = "READY",
                                       ![v].body = push[p].body]
        /\ EndPush(p)
        /\ UNCHANGED <<now, tablesButIndex, buckets, delivery, faults, marks,
                       vectors, sweep>>

FailPush(p) ==
    /\ push[p].step \notin {"rest", "row"}
    /\ faults < MaxFaults
    /\ faults' = faults + 1
    /\ EndPush(p)
    /\ UNCHANGED <<now, tables, buckets, delivery, marks, vectors, sweep>>

ServePush(p) ==
    \/ ReadRow(p) \/ CheckCurrent(p) \/ Revive(p) \/ Compare(p)
    \/ Probe(p) \/ UpsertVectors(p) \/ MarkReady(p)

Pipeline(p) == ListPage(p) \/ ServePush(p)

Next ==
    \/ RetentionNext /\ UNCHANGED push
    \/ \E p \in Pushers : Pipeline(p) \/ BeginProbe(p) \/ FailPush(p)

(* The pipeline keeps walking the queue, and a call that began goes on. *)
Fairness == \A p \in Pushers : WF_vars(Pipeline(p))

Spec == Init /\ [][Next]_vars /\ SweepFairness /\ Fairness

------------------------------------------------------------------------------
(* Properties *)

(***************************************************************************)
(* A READY row never lies about Vectorize: the vectors of the body it      *)
(* names are there, whatever purge, crash or other push ran between the    *)
(* upsert and the mark.                                                    *)
(***************************************************************************)
ReadyHasItsVectors ==
    \A v \in Versions : Listed(v, "READY") => vectors[v] = index[v].body

(***************************************************************************)
(* A current version on the queue is found by search in the end, whatever  *)
(* rows before it in the queue are rejected, unless it stops being wanted: *)
(* another version becomes current, retention marks the document, or its   *)
(* bytes have not arrived.                                                 *)
(***************************************************************************)
Wanted(v) == IsCurrent(v) /\ ~index[v].retired /\ index[v] # NoRow
             /\ ~IsExpired(v[1]) /\ CurrentBody(v) \in bodies \cup {Title}
PendingIsFound ==
    \A v \in Versions : Listed(v, "PENDING") ~> (Wanted(v) => IsHit(v))

(***************************************************************************)
(* The index is not stuck at PARTIAL: once search finds every version it   *)
(* should, the status says READY in the end.                               *)
(***************************************************************************)
AllFound == (\A v \in Versions : Wanted(v) => IsHit(v)) /\ \E v \in Versions : IsHit(v)
StatusRecovers == AllFound ~> (AllFound => IndexStatus = "READY")

==============================================================================
