----------------------- MODULE IssueBookkeepingProofs -----------------------
(***************************************************************************)
(* For any keys, commands, calls and number of crashes: if no two calls    *)
(* of a key start in one millisecond, issue bookkeeping delivers once per  *)
(* dedupe key and its rows are true of GitHub.                             *)
(***************************************************************************)
EXTENDS IssueBookkeeping, TLAPS

\* A call that has begun has its command and its stamp, and no other call of its key
\* has that stamp.
CallsOK ==
    /\ \A c \in Calls :
          /\ call[c].pc = "idle" => call[c].at = None
          /\ call[c].pc # "idle" => call[c].cmd \in Commands /\ call[c].at \in Stamps
    /\ \A c, d \in Calls :
          call[c].at = call[d].at /\ call[c].at # None /\ Key(c) = Key(d) => c = d

\* A row carries the stamp of the call that inserted it.
RowsOK ==
    \A k \in Keys : row[k] # NoRow =>
        \E c \in Calls : /\ call[c].at = row[k].at /\ Key(c) = k
                         /\ call[c].pc \notin {"idle", "lookup", "insert"}

\* No request before the row, one at most, and an open row says nothing.
KeysOK ==
    \A k \in Keys :
        /\ row[k] = NoRow => requests[k] = 0 /\ landed[k] = 0 /\ k \notin settled
        /\ k \notin settled => row[k].status = "OUTCOME_UNKNOWN"
        /\ requests[k] = 0 => landed[k] = 0

\* What a call knows of its key: only the owner of the row delivers and settles.
OwnsRow(c) == row[Key(c)].at = call[c].at
CallKnows(c) ==
    /\ call[c].pc = "reread" => row[Key(c)] # NoRow
    /\ call[c].pc \in {"deliver", "settle"} => OwnsRow(c)
    /\ call[c].pc \in {"reread", "deliver"} /\ OwnsRow(c)
          => Key(c) \notin settled /\ requests[Key(c)] = 0
    /\ call[c].pc = "settle" =>
          /\ Key(c) \notin settled
          /\ call[c].outcome \in RowStatuses
          /\ call[c].outcome # "DELIVERY_BLOCKED" => requests[Key(c)] = 1
          /\ call[c].outcome = "PERSISTED" => landed[Key(c)] = 1
          /\ call[c].outcome = "DELIVERY_BLOCKED" => landed[Key(c)] = 0

IInv ==
    /\ TypeOK
    /\ CallsOK
    /\ RowsOK
    /\ KeysOK
    /\ \A c \in Calls : CallKnows(c)
    /\ RowIsTrueOfGitHub

----------------------------------------------------------------------------

(* The row that stands for none is told apart from every stored row.         *)
LEMMA NoRowIsNone == NoRow \notin RowType /\ NoRow.at = None /\ None \notin Stamps
                     /\ None \notin Commands /\ NoRow.status = "OUTCOME_UNKNOWN"
BY BookkeepingAssumption DEF NoRow, RowType

(* The key of a call that has begun is a key.                                *)
LEMMA KeyIsKey ==
    ASSUME TypeOK, CallsOK, NEW c \in Calls, call[c].pc # "idle"
    PROVE  Key(c) \in Keys /\ call[c].cmd \in CommandType
BY BookkeepingAssumption DEF CallsOK, Key, CommandType

(* A row with the stamp of a call of its key that has begun is stored, and a *)
(* call that has not yet inserted does not find its stamp on the row.        *)
LEMMA OwnRow ==
    ASSUME IInv, NEW c \in Calls, NEW k \in Keys, Key(c) = k, row[k].at = call[c].at,
           call[c].pc # "idle"
    PROVE  row[k] \in RowType /\ call[c].pc \notin {"lookup", "insert"}
<1>1. call[c].at \in Stamps /\ call[c].at # None
  BY NoRowIsNone DEF IInv, CallsOK
<1>2. row[k] # NoRow
  BY <1>1, NoRowIsNone
<1>3. PICK d \in Calls : /\ call[d].at = row[k].at /\ Key(d) = k
                         /\ call[d].pc \notin {"idle", "lookup", "insert"}
  BY <1>2 DEF IInv, RowsOK
<1>4. d = c
  BY <1>1, <1>3 DEF IInv, CallsOK
<1>5. call[c].pc \notin {"lookup", "insert"}
  BY <1>3, <1>4
<1>6. row[k] \in RowType
  BY <1>2 DEF IInv, TypeOK
<1> QED
  BY <1>5, <1>6

(* Initially nothing is stored and no call has begun.                        *)
LEMMA InitIInv == Init => IInv
<1> SUFFICES ASSUME Init PROVE IInv
  OBVIOUS
<1>1. NoCall \in CallType
  BY DEF NoCall, CallType, PCs
<1>2. \A c \in Calls : call[c] = NoCall /\ call[c].pc = "idle" /\ call[c].at = None
  BY DEF Init, NoCall
<1>3. \A k \in Keys : row[k] = NoRow /\ requests[k] = 0 /\ landed[k] = 0
  BY DEF Init
<1>4. TypeOK
  BY <1>1 DEF Init, TypeOK
<1>5. CallsOK /\ \A c \in Calls : CallKnows(c)
  BY <1>2 DEF CallsOK, CallKnows
<1>6. RowsOK /\ KeysOK /\ RowIsTrueOfGitHub
  BY <1>3, NoRowIsNone DEF Init, RowsOK, KeysOK, RowIsTrueOfGitHub
<1> QED
  BY <1>4, <1>5, <1>6 DEF IInv

----------------------------------------------------------------------------
(* Steps.  Calls other than c stay what they are; c keeps command and stamp. *)

StepOf(c) ==
    /\ call[c].pc # "idle"
    /\ call' \in [Calls -> CallType]
    /\ \A d \in Calls \ {c} : call'[d] = call[d]
    /\ call'[c].cmd = call[c].cmd /\ call'[c].at = call[c].at
    /\ call'[c].pc # "idle"
    /\ call'[c].pc \in {"lookup", "insert"} => call[c].pc \in {"lookup", "insert"}

(* Such a step keeps what is known of stamps.                                *)
LEMMA StepOfCalls ==
    ASSUME IInv, NEW c \in Calls, StepOf(c)
    PROVE  CallsOK'
BY DEF IInv, CallsOK, StepOf, Key

(* Rows keep their owner as long as their stamps do not change.              *)
LEMMA StepOfRows ==
    ASSUME IInv, NEW c \in Calls, StepOf(c),
           \A k \in Keys : row'[k] # NoRow => row[k] # NoRow /\ row'[k].at = row[k].at
    PROVE  RowsOK'
<1>1. SUFFICES ASSUME NEW k \in Keys, row'[k] # NoRow
               PROVE  \E d \in Calls : /\ call'[d].at = row'[k].at /\ Key(d)' = k
                                       /\ call'[d].pc \notin {"idle", "lookup", "insert"}
  BY DEF RowsOK
<1>2. PICK d \in Calls : /\ call[d].at = row[k].at /\ Key(d) = k
                         /\ call[d].pc \notin {"idle", "lookup", "insert"}
  BY <1>1 DEF IInv, RowsOK
<1>3. /\ call'[d].at = row'[k].at /\ Key(d)' = k
      /\ call'[d].pc \notin {"idle", "lookup", "insert"}
  BY <1>1, <1>2 DEF StepOf, Key
<1> QED
  BY <1>3

(* A step that writes nothing keeps the invariant, if what c now knows holds. *)
LEMMA QuietStep ==
    ASSUME IInv, NEW c \in Calls, StepOf(c), faults' \in Nat,
           UNCHANGED <<row, requests, landed, settled>>,
           CallKnows(c)'
    PROVE  IInv'
<1>1. TypeOK'
  BY DEF IInv, TypeOK, StepOf
<1>2. CallsOK' /\ RowsOK'
  BY StepOfCalls, StepOfRows
<1>3. KeysOK' /\ RowIsTrueOfGitHub'
  BY DEF IInv, KeysOK, RowIsTrueOfGitHub
<1>4. ASSUME NEW d \in Calls PROVE CallKnows(d)'
  BY DEF IInv, CallKnows, StepOf, OwnsRow, Key
<1> QED
  BY <1>1, <1>2, <1>3, <1>4 DEF IInv

(* A call that replaces the record of c by one with its command and stamp.   *)
LEMMA RecordStep ==
    ASSUME IInv, NEW c \in Calls, call[c].pc # "idle",
           NEW new \in CallType, new.pc # "idle",
           new.cmd = call[c].cmd, new.at = call[c].at,
           new.pc \in {"lookup", "insert"} => call[c].pc \in {"lookup", "insert"},
           call' = [call EXCEPT ![c] = new]
    PROVE  StepOf(c) /\ call'[c] = new
<1>1. call \in [Calls -> CallType]
  BY DEF IInv, TypeOK
<1>2. call' \in [Calls -> CallType] /\ call'[c] = new
  BY <1>1
<1>3. \A d \in Calls \ {c} : call'[d] = call[d]
  BY <1>1
<1> QED
  BY <1>2, <1>3 DEF StepOf

(* The field that an action sets at c is set, and nothing else.              *)
LEMMA GotoStep ==
    ASSUME IInv, NEW c \in Calls, NEW pc \in PCs \ {"idle"}, call[c].pc # "idle",
           pc \in {"lookup", "insert"} => call[c].pc \in {"lookup", "insert"},
           Goto(c, pc)
    PROVE  StepOf(c) /\ call'[c].pc = pc /\ call'[c].outcome = call[c].outcome
<1> DEFINE new == [call[c] EXCEPT !.pc = pc]
<1>1. call[c] \in CallType
  BY DEF IInv, TypeOK
<1>2. /\ new \in CallType /\ new.pc = pc
      /\ new.cmd = call[c].cmd /\ new.at = call[c].at /\ new.outcome = call[c].outcome
  BY <1>1 DEF CallType
<1>3. call' = [call EXCEPT ![c] = new]
  BY DEF Goto
<1> HIDE DEF new
<1> QED
  BY <1>2, <1>3, RecordStep

LEMMA AnswerStep ==
    ASSUME IInv, NEW c \in Calls, call[c].pc # "idle",
           NEW status \in RowStatuses \cup {"IDEMPOTENT_REPLAY"}, NEW r \in RowType \cup {NoRow},
           Answer(c, status, r)
    PROVE  StepOf(c) /\ call'[c].pc = "done" /\ call'[c].outcome = status /\ call'[c].row = r
<1> DEFINE new == [call[c] EXCEPT !.pc = "done", !.outcome = status, !.row = r]
<1>1. call[c] \in CallType
  BY DEF IInv, TypeOK
<1>2. /\ new \in CallType /\ new.pc = "done" /\ new.outcome = status /\ new.row = r
      /\ new.cmd = call[c].cmd /\ new.at = call[c].at
  BY <1>1 DEF CallType, PCs
<1>3. call' = [call EXCEPT ![c] = new]
  BY DEF Answer
<1> HIDE DEF new
<1> QED
  BY <1>2, <1>3, RecordStep

LEMMA RespondedStep ==
    ASSUME IInv, NEW c \in Calls, call[c].pc # "idle",
           NEW outcome \in RowStatuses, Responded(c, outcome)
    PROVE  StepOf(c) /\ call'[c].pc = "settle" /\ call'[c].outcome = outcome
<1> DEFINE new == [call[c] EXCEPT !.pc = "settle", !.outcome = outcome]
<1>1. call[c] \in CallType
  BY DEF IInv, TypeOK
<1>2. /\ new \in CallType /\ new.pc = "settle" /\ new.outcome = outcome
      /\ new.cmd = call[c].cmd /\ new.at = call[c].at
  BY <1>1 DEF CallType, PCs
<1>3. call' = [call EXCEPT ![c] = new]
  BY DEF Responded
<1> HIDE DEF new
<1> QED
  BY <1>2, <1>3, RecordStep

----------------------------------------------------------------------------
(* Each action keeps the invariant.                                          *)

(* The stamp of a call that begins is new to its key.                        *)
LEMMA StartStep ==
    ASSUME IInv, ~SharedStamps, NEW c \in Calls, NEW cmd \in Commands, NEW t \in Stamps,
           Start(c, cmd, t)
    PROVE  IInv'
<1>1. /\ call'[c].pc \in {"done", "lookup"} /\ call'[c].cmd = cmd /\ call'[c].at = t
      /\ \A d \in Calls \ {c} : call'[d] = call[d]
      /\ call' \in [Calls -> CallType]
  <2> DEFINE rejected == [NoCall EXCEPT !.pc = "done", !.cmd = cmd, !.at = t,
                                       !.outcome = "REJECTED_TARGET"]
             begun == [NoCall EXCEPT !.pc = "lookup", !.cmd = cmd, !.at = t]
  <2>1. /\ rejected \in CallType /\ rejected.pc = "done"
        /\ rejected.cmd = cmd /\ rejected.at = t
    BY DEF NoCall, CallType, PCs
  <2>2. begun \in CallType /\ begun.pc = "lookup" /\ begun.cmd = cmd /\ begun.at = t
    BY DEF NoCall, CallType, PCs
  <2>3. call' = [call EXCEPT ![c] = rejected] \/ call' = [call EXCEPT ![c] = begun]
    BY DEF Start, Rejected
  <2> HIDE DEF rejected, begun
  <2> QED
    BY <2>1, <2>2, <2>3 DEF IInv, TypeOK
<1>2. call[c].pc = "idle" /\ UNCHANGED <<row, requests, landed, settled, faults>>
  BY DEF Start
<1>3. \A d \in Calls : call[d].at = t => Key(d) # cmd.key
  BY DEF Start
<1>4. TypeOK' /\ KeysOK' /\ RowIsTrueOfGitHub'
  BY <1>1, <1>2 DEF IInv, TypeOK, KeysOK, RowIsTrueOfGitHub
<1>5. CallsOK'
  BY <1>1, <1>3 DEF IInv, CallsOK, Key
<1>6. RowsOK'
  BY <1>1, <1>2 DEF IInv, RowsOK, Key
<1>7. ASSUME NEW d \in Calls PROVE CallKnows(d)'
  BY <1>1, <1>2 DEF IInv, CallKnows, OwnsRow, Key
<1> QED
  BY <1>4, <1>5, <1>6, <1>7 DEF IInv

LEMMA LookupStep ==
    ASSUME IInv, NEW c \in Calls, Lookup(c)
    PROVE  IInv'
<1>1. call[c].pc = "lookup" /\ UNCHANGED <<row, requests, landed, settled, faults>>
  BY DEF Lookup
<1>2. Key(c) \in Keys /\ row[Key(c)] \in RowType \cup {NoRow} /\ faults' \in Nat
  BY <1>1, KeyIsKey DEF IInv, TypeOK
<1>3. CASE Answer(c, "IDEMPOTENT_REPLAY", row[Key(c)])
  <2>1. StepOf(c) /\ call'[c].pc = "done"
    BY <1>1, <1>2, <1>3, AnswerStep
  <2> QED
    BY <1>1, <1>2, <2>1, QuietStep DEF CallKnows
<1>4. CASE Goto(c, "insert")
  <2>1. StepOf(c) /\ call'[c].pc = "insert"
    BY <1>1, <1>4, GotoStep DEF PCs
  <2> QED
    BY <1>1, <1>2, <2>1, QuietStep DEF CallKnows
<1> QED
  BY <1>3, <1>4 DEF Lookup

LEMMA DieStep ==
    ASSUME IInv, NEW c \in Calls, Die(c)
    PROVE  IInv'
<1>1. StepOf(c) /\ call'[c].pc = "error"
  BY GotoStep DEF Die, PCs
<1>2. faults' \in Nat /\ UNCHANGED <<row, requests, landed, settled>>
  BY DEF Die, Fault, IInv, TypeOK
<1> QED
  BY <1>1, <1>2, QuietStep DEF CallKnows

(* An insert that finds a row leaves it; one that does not, owns the new row. *)
LEMMA InsertStep ==
    ASSUME IInv, NEW c \in Calls, Insert(c)
    PROVE  IInv'
<1> DEFINE k == Key(c)
<1>1. call[c].pc = "insert" /\ UNCHANGED <<requests, landed, settled>> /\ faults' \in Nat
  BY DEF Insert, NoFault, Fault, IInv, TypeOK
<1>2. k \in Keys /\ call[c].cmd \in CommandType /\ call[c].at \in Stamps
  BY <1>1, KeyIsKey DEF IInv, CallsOK
<1>3. StepOf(c) /\ call'[c].pc \in {"reread", "error"}
  BY <1>1, GotoStep DEF Insert, PCs
<1>4. CASE row[k] # NoRow
  <2>1. row' = row
    BY <1>4 DEF Insert
  <2>2. ~OwnsRow(c)
    BY <1>1, <1>2, OwnRow DEF OwnsRow
  <2>3. CallKnows(c)'
    BY <1>3, <1>4, <2>1, <2>2 DEF CallKnows, OwnsRow, Key, StepOf
  <2> QED
    BY <1>1, <1>3, <2>1, <2>3, QuietStep
<1>5. CASE row[k] = NoRow
  <2> DEFINE new == [operation |-> call[c].cmd.operation, target |-> call[c].cmd.target,
                     status |-> "OUTCOME_UNKNOWN", at |-> call[c].at]
  <2>1. row' = [row EXCEPT ![k] = new]
    BY <1>5 DEF Insert
  <2>2. new \in RowType /\ new.at = call[c].at /\ new.status = "OUTCOME_UNKNOWN"
    BY <1>2 DEF RowType, RowStatuses, CommandType
  <2> HIDE DEF new
  <2>3. /\ row'[k] = new /\ new # NoRow
        /\ \A j \in Keys \ {k} : row'[j] = row[j]
        /\ row' \in [Keys -> RowType \cup {NoRow}]
    BY <1>2, <2>1, <2>2, NoRowIsNone DEF IInv, TypeOK
  <2>4. k \notin settled /\ requests[k] = 0 /\ landed[k] = 0
    BY <1>2, <1>5 DEF IInv, KeysOK
  <2>5. TypeOK' /\ CallsOK'
    BY <1>1, <1>3, <2>3, StepOfCalls DEF IInv, TypeOK, StepOf
  <2>6. RowsOK'
    <3> SUFFICES ASSUME NEW j \in Keys, row'[j] # NoRow
                 PROVE  \E d \in Calls : /\ call'[d].at = row'[j].at /\ Key(d)' = j
                                         /\ call'[d].pc \notin {"idle", "lookup", "insert"}
      BY DEF RowsOK
    <3>1. CASE j = k
      BY <1>3, <2>2, <2>3, <3>1 DEF StepOf, Key
    <3>2. CASE j # k
      <4>1. PICK d \in Calls : /\ call[d].at = row[j].at /\ Key(d) = j
                               /\ call[d].pc \notin {"idle", "lookup", "insert"}
        BY <2>3, <3>2 DEF IInv, RowsOK
      <4> QED
        BY <1>1, <2>3, <3>2, <4>1, <1>3 DEF StepOf, Key
    <3> QED
      BY <3>1, <3>2
  <2>7. KeysOK' /\ RowIsTrueOfGitHub'
    BY <1>1, <2>2, <2>3, <2>4 DEF IInv, KeysOK, RowIsTrueOfGitHub
  <2>8. ASSUME NEW d \in Calls PROVE CallKnows(d)'
    <3>1. CASE d = c
      BY <1>1, <1>2, <1>3, <2>3, <2>4, <3>1 DEF CallKnows, Key, StepOf
    <3>2. CASE d # c /\ Key(d) # k
      <4>1. call'[d] = call[d] /\ Key(d)' = Key(d)
        BY <1>3, <3>2 DEF StepOf, Key
      <4>2. call[d].pc # "idle" => Key(d) \in Keys
        BY KeyIsKey DEF IInv
      <4> QED
        BY <1>1, <2>3, <3>2, <4>1, <4>2 DEF IInv, CallKnows, OwnsRow
    <3>3. CASE d # c /\ Key(d) = k
      <4>1. call'[d] = call[d] /\ Key(d)' = k
        BY <1>3, <3>3 DEF StepOf, Key
      <4>2. call[d].pc \notin {"reread", "deliver", "settle"}
        BY <1>5, <3>3, NoRowIsNone DEF IInv, CallsOK, CallKnows, OwnsRow
      <4> QED
        BY <4>1, <4>2 DEF CallKnows
    <3> QED
      BY <3>1, <3>2, <3>3
  <2> QED
    BY <2>5, <2>6, <2>7, <2>8 DEF IInv
<1> QED
  BY <1>4, <1>5

(* Only the owner of the row goes on, and then no request was made yet.       *)
LEMMA RereadStep ==
    ASSUME IInv, NEW c \in Calls, Reread(c)
    PROVE  IInv'
<1> DEFINE k == Key(c)
<1>1. call[c].pc = "reread" /\ UNCHANGED <<row, requests, landed, settled, faults>>
  BY DEF Reread
<1>2. k \in Keys /\ row[k] \in RowType \cup {NoRow} /\ faults' \in Nat
  BY <1>1, KeyIsKey DEF IInv, TypeOK
<1>3. CASE Answer(c, "IDEMPOTENT_REPLAY", row[k])
  <2>1. StepOf(c) /\ call'[c].pc = "done"
    BY <1>1, <1>2, <1>3, AnswerStep
  <2> QED
    BY <1>1, <1>2, <2>1, QuietStep DEF CallKnows
<1>4. CASE OwnsRow(c) /\ \/ Goto(c, "deliver")
                         \/ Responded(c, "DELIVERY_BLOCKED")
  <2>1. k \notin settled /\ requests[k] = 0 /\ landed[k] = 0
    BY <1>1, <1>2, <1>4 DEF IInv, CallKnows, KeysOK
  <2>2. StepOf(c) /\ \/ call'[c].pc = "deliver"
                     \/ call'[c].pc = "settle" /\ call'[c].outcome = "DELIVERY_BLOCKED"
    BY <1>1, <1>4, GotoStep, RespondedStep DEF PCs, RowStatuses
  <2>3. CallKnows(c)'
    BY <1>1, <1>4, <2>1, <2>2 DEF CallKnows, OwnsRow, Key, StepOf, RowStatuses
  <2> QED
    BY <1>1, <1>2, <2>2, <2>3, QuietStep
<1> QED
  BY <1>3, <1>4 DEF Reread, OwnsRow, Responded

(* The owner of the row is one call.                                         *)
LEMMA OneOwner ==
    ASSUME IInv, NEW c \in Calls, NEW d \in Calls, call[c].pc # "idle",
           Key(d) = Key(c), OwnsRow(c), OwnsRow(d)
    PROVE  d = c
BY NoRowIsNone DEF IInv, CallsOK, OwnsRow

(* Who may request knows that its key is reserved, open and without effect.   *)
LEMMA DelivererKnows ==
    ASSUME IInv, NEW c \in Calls, call[c].pc = "deliver"
    PROVE  /\ Key(c) \in Keys /\ Key(c) \notin settled /\ OwnsRow(c)
           /\ row[Key(c)] \in RowType /\ row[Key(c)] # NoRow
           /\ row[Key(c)].status = "OUTCOME_UNKNOWN"
           /\ requests[Key(c)] = 0 /\ landed[Key(c)] = 0
<1>1. Key(c) \in Keys /\ OwnsRow(c) /\ Key(c) \notin settled /\ requests[Key(c)] = 0
  BY KeyIsKey DEF IInv, CallKnows
<1>2. row[Key(c)] \in RowType
  BY <1>1, OwnRow DEF OwnsRow
<1>3. row[Key(c)].status = "OUTCOME_UNKNOWN" /\ landed[Key(c)] = 0
  BY <1>1 DEF IInv, KeysOK
<1> QED
  BY <1>1, <1>2, <1>3, NoRowIsNone

(* One request by the owner, with effect or without, keeps the invariant.     *)
LEMMA SendStep ==
    ASSUME IInv, NEW c \in Calls, call[c].pc = "deliver", StepOf(c),
           requests' = [requests EXCEPT ![Key(c)] = @ + 1],
           Landed(c) \/ landed' = landed,
           UNCHANGED <<row, settled>>, faults' \in Nat,
           CallKnows(c)'
    PROVE  IInv'
<1> DEFINE k == Key(c)
<1>1. /\ k \in Keys /\ k \notin settled /\ OwnsRow(c) /\ row[k] # NoRow
      /\ row[k].status = "OUTCOME_UNKNOWN" /\ requests[k] = 0 /\ landed[k] = 0
  BY DelivererKnows
<1>2. /\ requests' \in [Keys -> Nat] /\ landed' \in [Keys -> Nat] /\ requests'[k] = 1
      /\ \A j \in Keys \ {k} : requests'[j] = requests[j] /\ landed'[j] = landed[j]
  BY <1>1 DEF IInv, TypeOK, Landed
<1>3. TypeOK'
  BY <1>2 DEF IInv, TypeOK, StepOf
<1>4. CallsOK' /\ RowsOK'
  BY StepOfCalls, StepOfRows
<1>5. KeysOK' /\ RowIsTrueOfGitHub'
  BY <1>1, <1>2 DEF IInv, KeysOK, RowIsTrueOfGitHub
<1>6. ASSUME NEW d \in Calls \ {c} PROVE CallKnows(d)'
  <2>1. call'[d] = call[d] /\ Key(d)' = Key(d) /\ OwnsRow(d)' = OwnsRow(d)
    BY DEF StepOf, Key, OwnsRow
  <2>2. CASE Key(d) = k
    <3>1. ~OwnsRow(d)
      BY <1>1, <2>2, OneOwner
    <3> QED
      BY <2>1, <3>1 DEF IInv, CallKnows
  <2>3. CASE Key(d) # k
    <3>1. call[d].pc # "idle" => Key(d) \in Keys
      BY KeyIsKey DEF IInv
    <3> QED
      BY <1>2, <2>1, <2>3, <3>1 DEF IInv, CallKnows
  <2> QED
    BY <2>2, <2>3
<1> QED
  BY <1>3, <1>4, <1>5, <1>6 DEF IInv

LEMMA DeliverStep ==
    ASSUME IInv, NEW c \in Calls, Deliver(c)
    PROVE  IInv'
<1> DEFINE k == Key(c)
<1>1. /\ call[c].pc = "deliver" /\ UNCHANGED <<row, settled, faults>>
      /\ requests' = [requests EXCEPT ![k] = @ + 1] /\ faults' \in Nat
  BY DEF Deliver, IInv, TypeOK
<1>2. k \in Keys /\ k \notin settled /\ OwnsRow(c) /\ requests[k] = 0 /\ landed[k] = 0
  BY <1>1, DelivererKnows
<1>3. requests'[k] = 1
  BY <1>1, <1>2 DEF IInv, TypeOK
<1>4. PICK outcome \in RowStatuses :
        /\ Responded(c, outcome)
        /\ Landed(c) \/ landed' = landed
        /\ outcome = "PERSISTED" => Landed(c)
        /\ outcome = "DELIVERY_BLOCKED" => landed' = landed
  BY DEF Deliver, RowStatuses
<1>5. StepOf(c) /\ call'[c].pc = "settle" /\ call'[c].outcome = outcome
  BY <1>1, <1>4, RespondedStep
<1>6. Landed(c) => landed'[k] = 1
  BY <1>2 DEF Landed, IInv, TypeOK
<1>7. CallKnows(c)'
  BY <1>1, <1>2, <1>3, <1>4, <1>5, <1>6 DEF CallKnows, OwnsRow, Key, StepOf
<1> QED
  BY <1>1, <1>4, <1>5, <1>7, SendStep

LEMMA DieDeliveringStep ==
    ASSUME IInv, NEW c \in Calls, DieDelivering(c)
    PROVE  IInv'
<1>1. StepOf(c) /\ call'[c].pc = "error"
  BY GotoStep DEF DieDelivering, PCs
<1>2. faults' \in Nat
  BY DEF DieDelivering, Fault, IInv, TypeOK
<1>3. CallKnows(c)'
  BY <1>1 DEF CallKnows
<1> QED
  BY <1>1, <1>2, <1>3, SendStep DEF DieDelivering

(* What the owner records happened, and nobody else records any more.         *)
LEMMA SettleStep ==
    ASSUME IInv, NEW c \in Calls, Settle(c)
    PROVE  IInv'
<1> DEFINE k == Key(c)
<1>1. /\ call[c].pc = "settle" /\ UNCHANGED <<requests, landed>> /\ faults' \in Nat
      /\ settled' = settled \cup {k}
  BY DEF Settle, NoFault, Fault, IInv, TypeOK
<1>2. /\ k \in Keys /\ OwnsRow(c) /\ call[c].outcome \in RowStatuses
      /\ call[c].outcome # "DELIVERY_BLOCKED" => requests[k] = 1
      /\ call[c].outcome = "PERSISTED" => landed[k] = 1
      /\ call[c].outcome = "DELIVERY_BLOCKED" => landed[k] = 0
  BY <1>1, KeyIsKey DEF IInv, CallKnows
<1>3. row[k] \in RowType /\ row[k] # NoRow
  BY <1>1, <1>2, OwnRow, NoRowIsNone DEF OwnsRow
<1>4. StepOf(c) /\ call'[c].pc \in {"done", "error"}
  BY <1>1, <1>2, AnswerStep, GotoStep DEF Settle, PCs
<1>5. /\ row'[k] \in RowType /\ row'[k].status = call[c].outcome /\ row'[k].at = row[k].at
      /\ \A j \in Keys \ {k} : row'[j] = row[j]
      /\ row' \in [Keys -> RowType \cup {NoRow}]
  BY <1>2, <1>3 DEF Settle, OwnsRow, RowType, IInv, TypeOK
<1>6. TypeOK'
  BY <1>1, <1>2, <1>4, <1>5 DEF IInv, TypeOK, StepOf
<1>7. \A j \in Keys : row'[j].at = row[j].at /\ (row'[j] = NoRow <=> row[j] = NoRow)
  BY <1>3, <1>5, NoRowIsNone
<1>8. CallsOK' /\ RowsOK'
  BY <1>4, <1>7, StepOfCalls, StepOfRows
<1>9. KeysOK' /\ RowIsTrueOfGitHub'
  BY <1>1, <1>2, <1>3, <1>5, <1>7 DEF IInv, KeysOK, RowIsTrueOfGitHub
<1>10. ASSUME NEW d \in Calls PROVE CallKnows(d)'
  <2>1. CASE d = c
    BY <1>4, <2>1 DEF CallKnows
  <2>2. CASE d # c /\ call[d].pc # "idle"
    <3>1. call'[d] = call[d] /\ Key(d)' = Key(d) /\ Key(d) \in Keys
      BY <1>4, <2>2, KeyIsKey DEF StepOf, Key, IInv
    <3>2. OwnsRow(d)' = OwnsRow(d)
      BY <1>7, <3>1 DEF OwnsRow
    <3>3. Key(d) = k => ~OwnsRow(d)
      BY <1>1, <1>2, <2>2, OneOwner
    <3> QED
      BY <1>1, <1>7, <3>1, <3>2, <3>3 DEF IInv, CallKnows
  <2>3. CASE d # c /\ call[d].pc = "idle"
    BY <1>4, <2>3 DEF CallKnows, StepOf
  <2> QED
    BY <2>1, <2>2, <2>3
<1> QED
  BY <1>6, <1>8, <1>9, <1>10 DEF IInv

----------------------------------------------------------------------------

(* Every step keeps the invariant.                                           *)
LEMMA Inductive ==
    ASSUME ~SharedStamps, IInv, [Next]_vars
    PROVE  IInv'
<1>1. CASE UNCHANGED vars
  BY <1>1 DEF vars, IInv, TypeOK, CallsOK, RowsOK, KeysOK, CallKnows, OwnsRow, Key,
              RowIsTrueOfGitHub
<1>2. CASE Next
  <2>1. PICK c \in Calls :
          \/ \E cmd \in Commands, t \in Stamps : Start(c, cmd, t)
          \/ Lookup(c) \/ Insert(c) \/ Reread(c) \/ Deliver(c) \/ Settle(c)
          \/ Die(c) \/ DieDelivering(c)
    BY <1>2 DEF Next
  <2> QED
    BY <2>1, StartStep, LookupStep, InsertStep, RereadStep, DeliverStep, SettleStep,
       DieStep, DieDeliveringStep
<1> QED
  BY <1>1, <1>2

(* If no two calls of a key start in one millisecond, the invariant holds.   *)
LEMMA Invariant == ~SharedStamps => (Spec => []IInv)
<1> SUFFICES ASSUME ~SharedStamps PROVE Spec => []IInv
  OBVIOUS
<1>1. IInv /\ [Next]_vars => IInv'
  BY Inductive
<1> QED
  BY <1>1, InitIInv, PTL DEF Spec

(* Rows, counters and calls of submitIssueBookkeeping keep their shape.      *)
THEOREM TypeCorrect == ~SharedStamps => (Spec => []TypeOK)
<1>1. IInv => TypeOK
  BY DEF IInv
<1> QED
  BY <1>1, Invariant, PTL

(* A stored outcome is what happened on GitHub, whatever calls of the key    *)
(* ran, lost the insert race, crashed or failed to record.                   *)
THEOREM RowsAreTrue == ~SharedStamps => (Spec => []RowIsTrueOfGitHub)
<1>1. IInv => RowIsTrueOfGitHub
  BY DEF IInv
<1> QED
  BY <1>1, Invariant, PTL

----------------------------------------------------------------------------
(* The refinement: each step is a step of the promise or changes nothing     *)
(* that it speaks of.                                                        *)

Stage == [k \in Keys |-> IF row[k] = NoRow THEN "free" ELSE row[k].status]

(* A step that leaves rows, requests and settled keys alone is a stutter.     *)
LEMMA Stutter ==
    ASSUME UNCHANGED <<row, requests, settled>>
    PROVE  UNCHANGED Promise!vars
BY DEF Promise!vars

(* An insert reserves the key or changes nothing.                            *)
LEMMA InsertRefines ==
    ASSUME IInv, NEW c \in Calls, Insert(c)
    PROVE  [Promise!Next]_(Promise!vars)
<1> DEFINE k == Key(c)
<1>1. call[c].pc = "insert" /\ UNCHANGED <<requests, settled>>
  BY DEF Insert
<1>2. k \in Keys /\ call[c].at \in Stamps
  BY <1>1, KeyIsKey DEF IInv, CallsOK
<1>3. CASE row[k] # NoRow
  BY <1>1, <1>3, Stutter DEF Insert
<1>4. CASE row[k] = NoRow
  <2>1. /\ row'[k].status = "OUTCOME_UNKNOWN" /\ row'[k] # NoRow
        /\ \A j \in Keys \ {k} : row'[j] = row[j]
    BY <1>2, <1>4, NoRowIsNone DEF Insert, IInv, TypeOK
  <2>2. Stage' = [Stage EXCEPT ![k] = "OUTCOME_UNKNOWN"] /\ Stage[k] = "free"
    BY <1>2, <1>4, <2>1 DEF Stage
  <2> QED
    BY <1>1, <1>2, <2>2 DEF Promise!Next, Promise!Reserve, Stage
<1> QED
  BY <1>3, <1>4

(* A request is the one the promise allows.                                  *)
LEMMA SendRefines ==
    ASSUME IInv, NEW c \in Calls, call[c].pc = "deliver",
           requests' = [requests EXCEPT ![Key(c)] = @ + 1],
           UNCHANGED <<row, settled>>
    PROVE  [Promise!Next]_(Promise!vars)
<1> DEFINE k == Key(c)
<1>1. /\ k \in Keys /\ k \notin settled /\ row[k] # NoRow
      /\ row[k].status = "OUTCOME_UNKNOWN" /\ requests[k] = 0
  BY DelivererKnows
<1>2. requests' = [requests EXCEPT ![k] = 1]
  BY <1>1 DEF IInv, TypeOK
<1>3. Stage[k] = "OUTCOME_UNKNOWN" /\ Stage' = Stage
  BY <1>1 DEF Stage
<1> QED
  BY <1>1, <1>2, <1>3 DEF Promise!Next, Promise!Send, Stage

(* An outcome is recorded once, and PERSISTED only of a request made.         *)
LEMMA SettleRefines ==
    ASSUME IInv, NEW c \in Calls, Settle(c)
    PROVE  [Promise!Next]_(Promise!vars)
<1>0. call[c].pc = "settle" /\ Key(c) \in Keys /\ call[c].outcome \in RowStatuses
  BY KeyIsKey DEF Settle, IInv, CallKnows
<1>1. PICK k \in Keys, outcome \in RowStatuses :
        /\ k = Key(c) /\ outcome = call[c].outcome
        /\ call[c].pc = "settle" /\ UNCHANGED requests /\ settled' = settled \cup {k}
  BY <1>0 DEF Settle
<1>2. /\ k \notin settled /\ OwnsRow(c)
      /\ outcome = "DELIVERY_BLOCKED" \/ requests[k] = 1
  BY <1>1 DEF IInv, CallKnows
<1>3. row[k] \in RowType /\ row[k] # NoRow /\ row[k].status = "OUTCOME_UNKNOWN"
  BY <1>1, <1>2, OwnRow, NoRowIsNone DEF OwnsRow, IInv, KeysOK
<1>4. /\ row'[k].status = outcome /\ row'[k] # NoRow
      /\ \A j \in Keys \ {k} : row'[j] = row[j]
  BY <1>1, <1>2, <1>3, NoRowIsNone DEF Settle, OwnsRow, RowType, IInv, TypeOK
<1>5. Stage[k] = "OUTCOME_UNKNOWN" /\ Stage' = [Stage EXCEPT ![k] = outcome]
  BY <1>2, <1>3, <1>4 DEF Stage
<1>6. Promise!Settle(k, outcome)
  BY <1>1, <1>2, <1>5 DEF Promise!Settle, Stage
<1>7. outcome \in Promise!Outcomes
  BY DEF Promise!Outcomes, RowStatuses
<1> QED
  BY <1>6, <1>7 DEF Promise!Next

(* Each step of bookkeeping is a step of the promise or a stutter.            *)
LEMMA StepRefines ==
    ASSUME IInv, [Next]_vars
    PROVE  [Promise!Next]_(Promise!vars)
<1>1. CASE UNCHANGED vars
  BY <1>1, Stutter DEF vars
<1>2. ASSUME NEW c \in Calls,
             \/ \E cmd \in Commands, t \in Stamps : Start(c, cmd, t)
             \/ Lookup(c) \/ Reread(c) \/ Die(c)
      PROVE  [Promise!Next]_(Promise!vars)
  BY <1>2, Stutter DEF Start, Lookup, Reread, Die
<1>3. ASSUME NEW c \in Calls, Deliver(c) \/ DieDelivering(c)
      PROVE  [Promise!Next]_(Promise!vars)
  BY <1>3, SendRefines DEF Deliver, DieDelivering
<1> QED
  BY <1>1, <1>2, <1>3, InsertRefines, SettleRefines DEF Next

(* Per dedupe key, one reservation, then at most one GitHub request, then     *)
(* one final outcome: submitIssueBookkeeping implements OneDelivery for any   *)
(* number of concurrent, losing, crashing and replayed calls.                 *)
THEOREM DeliversOncePerKey == ~SharedStamps => (Spec => DeliversOnce)
<1>1. Init => Promise!Init
  BY DEF Init, Promise!Init
<1>2. IInv /\ [Next]_vars => [Promise!Next]_(Promise!vars)
  BY StepRefines
<1> QED
  BY <1>1, <1>2, Invariant, PTL DEF Spec, DeliversOnce, Promise!Spec

----------------------------------------------------------------------------
(* What the callers were told.  An outcome that was told, first-hand or by   *)
(* replay, is the one recorded in the row, and a recorded outcome stays.     *)

Final == {"PERSISTED", "DELIVERY_BLOCKED"}
AnswerIsRow(c) ==
    call[c].pc = "done" /\ Told(c) \in Final
      => Key(c) \in settled /\ row[Key(c)].status = Told(c)
AInv == IInv /\ \A c \in Calls : AnswerIsRow(c)

SettledRowsStay ==
    \A k \in settled : k \in settled' /\ row'[k].status = row[k].status

(* Calls other than c were told what they were, and their rows stay.         *)
LEMMA ToldStays ==
    ASSUME AInv, NEW c \in Calls, NEW d \in Calls \ {c}, SettledRowsStay,
           call'[d] = call[d]
    PROVE  AnswerIsRow(d)'
<1>1. Key(d)' = Key(d) /\ Told(d)' = Told(d) /\ call'[d].pc = call[d].pc
  BY DEF Key, Told
<1>2. AnswerIsRow(d)
  BY DEF AInv
<1> QED
  BY <1>1, <1>2 DEF AnswerIsRow, SettledRowsStay

(* A row that is replayed to c is the row of its key.                        *)
LEMMA ReplayTells ==
    ASSUME IInv, NEW c \in Calls, call[c].pc # "idle",
           Answer(c, "IDEMPOTENT_REPLAY", row[Key(c)]), UNCHANGED <<row, settled>>
    PROVE  AnswerIsRow(c)' /\ StepOf(c)
<1> DEFINE k == Key(c)
<1>1. k \in Keys /\ row[k] \in RowType \cup {NoRow}
  BY KeyIsKey DEF IInv, TypeOK
<1>2. /\ StepOf(c) /\ call'[c].pc = "done" /\ call'[c].outcome = "IDEMPOTENT_REPLAY"
      /\ call'[c].row = row[k]
  BY <1>1, AnswerStep
<1>3. Told(c)' = row[k].status /\ Key(c)' = k
  BY <1>2 DEF Told, StepOf, Key
<1>4. row[k].status \in Final => k \in settled
  BY <1>1 DEF IInv, KeysOK, Final
<1> QED
  BY <1>2, <1>3, <1>4 DEF AnswerIsRow

(* The outcome that c recorded is the one it answers.                        *)
LEMMA SettleTells ==
    ASSUME IInv, NEW c \in Calls, Settle(c)
    PROVE  AnswerIsRow(c)' /\ StepOf(c) /\ SettledRowsStay
<1> DEFINE k == Key(c)
<1>1. call[c].pc = "settle" /\ settled' = settled \cup {k}
  BY DEF Settle
<1>2. k \in Keys /\ k \notin settled /\ call[c].outcome \in RowStatuses
  BY <1>1, KeyIsKey DEF IInv, CallKnows
<1>3. row[k] \in RowType
  BY <1>1, <1>2, OwnRow DEF IInv, CallKnows, OwnsRow
<1>4. row'[k].status = call[c].outcome /\ \A j \in Keys \ {k} : row'[j] = row[j]
  BY <1>2, <1>3 DEF Settle, RowType, IInv, TypeOK
<1>5. SettledRowsStay
  BY <1>1, <1>2, <1>4 DEF SettledRowsStay, IInv, TypeOK
<1>6. CASE Answer(c, call[c].outcome, NoRow)
  <2>1. StepOf(c) /\ call'[c].pc = "done" /\ call'[c].outcome = call[c].outcome
    BY <1>1, <1>2, <1>6, AnswerStep
  <2>2. Told(c)' = call[c].outcome /\ Key(c)' = k
    BY <1>2, <2>1 DEF Told, StepOf, Key, RowStatuses
  <2> QED
    BY <1>1, <1>4, <1>5, <2>1, <2>2 DEF AnswerIsRow
<1>7. CASE Goto(c, "error")
  <2>1. StepOf(c) /\ call'[c].pc = "error"
    BY <1>1, <1>7, GotoStep DEF PCs
  <2> QED
    BY <1>5, <2>1 DEF AnswerIsRow
<1> QED
  BY <1>6, <1>7 DEF Settle

(* An insert does not touch a recorded outcome: it writes to free keys.      *)
LEMMA InsertTells ==
    ASSUME IInv, NEW c \in Calls, Insert(c)
    PROVE  AnswerIsRow(c)' /\ StepOf(c) /\ SettledRowsStay
<1> DEFINE k == Key(c)
<1>1. call[c].pc = "insert" /\ UNCHANGED settled
  BY DEF Insert
<1>2. StepOf(c) /\ call'[c].pc \in {"reread", "error"}
  BY <1>1, GotoStep DEF Insert, PCs
<1>3. k \in Keys /\ (row[k] = NoRow => k \notin settled)
  BY <1>1, KeyIsKey DEF IInv, KeysOK
<1>4. \A j \in settled : row'[j] = row[j]
  BY <1>3 DEF Insert, IInv, TypeOK
<1>5. AnswerIsRow(c)'
  BY <1>2 DEF AnswerIsRow
<1> QED
  BY <1>1, <1>2, <1>4, <1>5 DEF SettledRowsStay

(* A call that begins is told nothing of its key: a target that is not       *)
(* listed is rejected, whatever the key holds.                               *)
LEMMA StartTells ==
    ASSUME IInv, NEW c \in Calls, NEW cmd \in Commands, NEW t \in Stamps, Start(c, cmd, t)
    PROVE  AnswerIsRow(c)' /\ \A d \in Calls \ {c} : call'[d] = call[d]
<1> DEFINE rejected == Rejected(cmd, t)
           begun == [NoCall EXCEPT !.pc = "lookup", !.cmd = cmd, !.at = t]
<1>1. rejected.outcome = "REJECTED_TARGET" /\ begun.pc = "lookup"
  BY DEF Rejected, NoCall
<1>2. call' = [call EXCEPT ![c] = rejected] \/ call' = [call EXCEPT ![c] = begun]
  BY DEF Start
<1> HIDE DEF rejected, begun
<1>3. /\ call'[c] = rejected \/ call'[c] = begun
      /\ \A d \in Calls \ {c} : call'[d] = call[d]
  BY <1>2 DEF IInv, TypeOK
<1> QED
  BY <1>1, <1>3 DEF AnswerIsRow, Told, Final

(* A step after which c has no answer, or the one it had.                    *)
LEMMA OnTheWayTells ==
    ASSUME NEW c \in Calls, NEW pc \in PCs \ {"done"}, call'[c].pc = pc
    PROVE  AnswerIsRow(c)'
BY DEF AnswerIsRow

LEMMA AnswersInductive ==
    ASSUME ~SharedStamps, AInv, [Next]_vars
    PROVE  AInv'
<1>0. IInv /\ IInv'
  BY Inductive DEF AInv
<1>1. CASE UNCHANGED vars
  BY <1>0, <1>1 DEF AInv, AnswerIsRow, Told, Key, vars
<1>2. ASSUME NEW c \in Calls, AnswerIsRow(c)', SettledRowsStay,
             \A d \in Calls \ {c} : call'[d] = call[d]
      PROVE  AInv'
  BY <1>0, <1>2, ToldStays DEF AInv
<1>3. ASSUME NEW c \in Calls, NEW cmd \in Commands, NEW t \in Stamps, Start(c, cmd, t)
      PROVE  AInv'
  <2>1. SettledRowsStay
    BY <1>3 DEF Start, SettledRowsStay
  <2> QED
    BY <1>0, <1>2, <1>3, <2>1, StartTells
<1>4. ASSUME NEW c \in Calls, Insert(c) \/ Settle(c)
      PROVE  AInv'
  BY <1>0, <1>2, <1>4, InsertTells, SettleTells DEF StepOf
<1>5. ASSUME NEW c \in Calls, Lookup(c) \/ Reread(c)
      PROVE  AInv'
  <2>1. SettledRowsStay /\ UNCHANGED <<row, settled>> /\ call[c].pc # "idle"
    BY <1>5 DEF Lookup, Reread, SettledRowsStay
  <2>2. CASE Answer(c, "IDEMPOTENT_REPLAY", row[Key(c)])
    <3>1. AnswerIsRow(c)' /\ StepOf(c)
      BY <1>0, <2>1, <2>2, ReplayTells
    <3> QED
      BY <1>2, <2>1, <3>1 DEF StepOf
  <2>3. ASSUME NEW pc \in {"insert", "deliver"}, Goto(c, pc),
               pc = "insert" => call[c].pc = "lookup"
        PROVE  AInv'
    <3>1. StepOf(c) /\ call'[c].pc = pc
      BY <1>0, <2>1, <2>3, GotoStep DEF PCs
    <3> QED
      BY <1>2, <2>1, <3>1, OnTheWayTells DEF StepOf, PCs
  <2>4. CASE Responded(c, "DELIVERY_BLOCKED")
    <3>1. StepOf(c) /\ call'[c].pc = "settle"
      BY <1>0, <2>1, <2>4, RespondedStep DEF RowStatuses
    <3> QED
      BY <1>2, <2>1, <3>1, OnTheWayTells DEF StepOf, PCs
  <2> QED
    BY <1>5, <2>2, <2>3, <2>4 DEF Lookup, Reread, Responded
<1>6. ASSUME NEW c \in Calls, Deliver(c)
      PROVE  AInv'
  <2>1. SettledRowsStay /\ call[c].pc = "deliver"
    BY <1>6 DEF Deliver, SettledRowsStay
  <2>2. PICK outcome \in RowStatuses : Responded(c, outcome)
    BY <1>6 DEF Deliver, RowStatuses
  <2>3. StepOf(c) /\ call'[c].pc = "settle"
    BY <1>0, <2>1, <2>2, RespondedStep
  <2> QED
    BY <1>2, <2>1, <2>3, OnTheWayTells DEF StepOf, PCs
<1>7. ASSUME NEW c \in Calls, Die(c) \/ DieDelivering(c)
      PROVE  AInv'
  <2>1. SettledRowsStay /\ call[c].pc # "idle" /\ Goto(c, "error")
    BY <1>7 DEF Die, DieDelivering, SettledRowsStay
  <2>2. StepOf(c) /\ call'[c].pc = "error"
    BY <1>0, <2>1, GotoStep DEF PCs
  <2> QED
    BY <1>2, <2>1, <2>2, OnTheWayTells DEF StepOf, PCs
<1> QED
  BY <1>1, <1>3, <1>4, <1>5, <1>6, <1>7 DEF Next

(* After one call of a key was told PERSISTED or DELIVERY_BLOCKED, none is   *)
(* told the opposite: the answers of submitIssueBookkeeping, first-hand or   *)
(* replayed before, during or after the delivery, are those of one row.      *)
THEOREM AnswersOfAKeyAgree == ~SharedStamps => (Spec => []AnswersAgree)
<1> SUFFICES ASSUME ~SharedStamps PROVE Spec => []AnswersAgree
  OBVIOUS
<1>1. Init => AInv
  <2> SUFFICES ASSUME Init PROVE AInv
    OBVIOUS
  <2>1. \A c \in Calls : call[c].pc = "idle"
    BY DEF Init, NoCall
  <2> QED
    BY <2>1, InitIInv DEF AInv, AnswerIsRow
<1>2. AInv /\ [Next]_vars => AInv'
  BY AnswersInductive
<1>3. AInv => AnswersAgree
  BY DEF AInv, AnswerIsRow, AnswersAgree, Final
<1> QED
  BY <1>1, <1>2, <1>3, PTL DEF Spec

============================================================================
