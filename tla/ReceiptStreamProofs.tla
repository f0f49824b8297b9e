------------------------ MODULE ReceiptStreamProofs ------------------------
(***************************************************************************)
(* No receipt is skipped, for any requests, any page limit and any number  *)
(* of lost answers: because events are only ever appended, and a page is   *)
(* the run of events that begins right after the cursor it was asked for.  *)
(***************************************************************************)
EXTENDS ReceiptStream, ResearchWorkflowProofs

\* The cursor is the place of an event that exists, or zero.
CursorOK == since \in 0..Len(events)

\* A page on its way holds existing events after the cursor, without a gap, up to
\* a last one.
PageOK ==
    poll.step = "answer" =>
        /\ poll.page \subseteq DOMAIN events
        /\ \A i \in poll.page : since < i /\ i <= since + Limit
        /\ \A i \in poll.page : \A j \in DOMAIN events : since < j /\ j < i => j \in poll.page
        /\ poll.page # {} => \E last \in poll.page : \A i \in poll.page : i <= last

StreamIInv == CursorOK /\ PageOK /\ NothingIsSkipped

----------------------------------------------------------------------------

(* Appending one or two elements makes a sequence no shorter.                *)
LEMMA Longer ==
    ASSUME NEW S, NEW s \in Seq(S), NEW e, NEW f
    PROVE  /\ Len(s) <= Len(Append(s, e))
           /\ Len(s) <= Len(s \o <<e>>)
           /\ Len(s) <= Len(s \o <<e, f>>)
<1> DEFINE T == S \cup {e, f}
<1>1. s \in Seq(T) /\ e \in T /\ f \in T
  OBVIOUS
<1>2. Len(Append(s, e)) = Len(s) + 1
  BY <1>1
<1>3. Len(s \o <<e>>) = Len(s) + 1 /\ Len(s \o <<e, f>>) = Len(s) + 2
  BY <1>1
<1> QED
  BY <1>2, <1>3

Grows == \/ events' = events
         \/ \E e : events' = Append(events, e)
         \/ \E e : events' = events \o <<e>>
         \/ \E e, f : events' = events \o <<e, f>>

(* Handlers append the events of the batch they run, and nothing else writes. *)
LEMMA ClaimGrows ==
    ASSUME NEW r \in Requests, Claim(r)
    PROVE  Grows
<1>1. ASSUME ClaimTerminal(r) \/ ClaimDeferral(r) \/ ClaimConfirm(r) \/ ClaimTerminal2(r)
             \/ ClaimDeferral2(r) \/ ClaimCurrent(r)
      PROVE  events' = events
  BY <1>1 DEF ClaimTerminal, ClaimDeferral, ClaimConfirm, ClaimTerminal2, ClaimDeferral2,
              ClaimCurrent, MoveOn, Answer, Decide, db
<1>2. ASSUME ClaimDenied(r) PROVE Grows
  BY <1>2 DEF ClaimDenied, Grows
<1>3. ASSUME ClaimBatch(r) PROVE Grows
  BY <1>3 DEF ClaimBatch, PreemptEvents, Grows
<1> QED
  BY <1>1, <1>2, <1>3 DEF Claim, Grows

LEMMA SubmitGrows ==
    ASSUME NEW r \in Requests, Submit(r)
    PROVE  Grows
<1>1. ASSUME SubmitKey(r) \/ SubmitLease(r) \/ SubmitFormal(r) \/ SubmitVerify(r)
             \/ SubmitMatch(r) \/ SubmitRace(r) \/ SubmitTerminal(r)
      PROVE  events' = events
  BY <1>1 DEF SubmitKey, SubmitLease, SubmitFormal, SubmitVerify, SubmitMatch, SubmitRace,
              SubmitTerminal, AnswerExisting, MoveOn, Answer, Decide, Throws, db
<1>2. ASSUME SubmitConflict(r) PROVE Grows
  BY <1>2 DEF SubmitConflict, Grows
<1>3. ASSUME SubmitReject(r) PROVE Grows
  BY <1>3 DEF SubmitReject, MoveOn, Throws, db, Grows
<1>4. ASSUME SubmitAccept(r) PROVE Grows
  BY <1>4 DEF SubmitAccept, MoveOn, Throws, db, Grows
<1>5. ASSUME SubmitSynthetic(r) PROVE Grows
  BY <1>5 DEF SubmitSynthetic, Decide, db, Grows
<1> QED
  BY <1>1, <1>2, <1>3, <1>4, <1>5 DEF Submit, Grows

LEMMA DeferGrows ==
    ASSUME NEW r \in Requests, Defer(r)
    PROVE  events' = events
<1>1. ASSUME DeferKey(r) \/ DeferJob(r) \/ DeferRace(r) \/ DeferKey2(r) \/ DeferJob2(r)
             \/ DeferTerminal(r) \/ DeferLease(r)
      PROVE  events' = events
  BY <1>1 DEF DeferKey, DeferJob, DeferRace, DeferKey2, DeferJob2, DeferTerminal,
              DeferLease, ReplayDeferral, MoveOn, Answer, Decide, db
<1>2. ASSUME DeferStatusTerminal(r) \/ DeferStatusLease(r) \/ DeferStatusDeferral(r)
      PROVE  events' = events
  BY <1>2 DEF DeferStatusTerminal, DeferStatusLease, DeferStatusDeferral, WithStatus,
              MoveOn, Answer, Decide, db
<1>3. ASSUME DeferBatch(r) PROVE events' = events
  BY <1>3 DEF DeferBatch, MoveOn, Throws, db
<1> QED
  BY <1>1, <1>2, <1>3 DEF Defer

(* No step of the workflow removes or reorders an event.                     *)
LEMMA EventsGrow ==
    ASSUME TypeOK, Next
    PROVE  Len(events) <= Len(events')
<1>1. events \in Seq(EventRows) /\ Len(events) \in Nat
  BY DEF TypeOK
<1>2. ASSUME Tick PROVE events' = events
  BY <1>2 DEF Tick, db
<1>3. ASSUME NEW r \in Requests, NEW c \in Calls, Start(r, c) PROVE events' = events
  BY <1>3 DEF Start, Enter, db
<1>4. ASSUME NEW r \in Requests, Fail(r) PROVE events' = events
  BY <1>4 DEF Fail, Throws, db
<1>5. Grows
  BY <1>2, <1>3, <1>4, ClaimGrows, SubmitGrows, DeferGrows DEF Next, Grows
<1>6. CASE events' = events
  BY <1>1, <1>6
<1>7. ASSUME NEW e, NEW f,
             \/ events' = Append(events, e)
             \/ events' = events \o <<e>>
             \/ events' = events \o <<e, f>>
      PROVE  Len(events) <= Len(events')
  <2>1. /\ Len(events) <= Len(Append(events, e))
        /\ Len(events) <= Len(events \o <<e>>)
        /\ Len(events) <= Len(events \o <<e, f>>)
    BY <1>1, Longer
  <2> QED
    BY <1>7, <2>1
<1> QED
  BY <1>5, <1>6, <1>7 DEF Grows

----------------------------------------------------------------------------

(* Initially the cursor is at the start.                                     *)
LEMMA StreamInitIInv == StreamInit => StreamIInv
BY DEF StreamInit, Init, StreamIInv, CursorOK, PageOK, NothingIsSkipped, NoPoll, Sequence

(* A step of the workflow only adds events after the cursor and the page.     *)
LEMMA WorkflowStep ==
    ASSUME StreamIInv, TypeOK, TypeOK', Next, UNCHANGED <<since, collected, poll, lost>>
    PROVE  StreamIInv'
<1>1. Len(events) <= Len(events') /\ Len(events) \in Nat /\ Len(events') \in Nat
  BY EventsGrow DEF TypeOK
<1>2. DOMAIN events = 1..Len(events) /\ DOMAIN events' = 1..Len(events')
  BY DEF TypeOK
<1>3. CursorOK' /\ since \in Nat /\ since <= Len(events)
  BY <1>1 DEF StreamIInv, CursorOK
<1>4. PageOK'
  BY <1>1, <1>2, <1>3 DEF StreamIInv, PageOK
<1>5. NothingIsSkipped'
  BY <1>1, <1>2, <1>3 DEF StreamIInv, NothingIsSkipped, Sequence
<1> QED
  BY <1>3, <1>4, <1>5 DEF StreamIInv

(* A page begins right after the cursor.                                     *)
LEMMA ReadPageStep ==
    ASSUME StreamIInv, TypeOK, ReadPage
    PROVE  StreamIInv'
<1>1. DOMAIN events = 1..Len(events) /\ Len(events) \in Nat /\ since \in Nat /\ Limit \in Nat
  BY StreamAssumption DEF TypeOK, StreamIInv, CursorOK
<1>2. UNCHANGED <<events, since, collected>> /\ poll'.page = Page
  BY DEF ReadPage, vars
<1> DEFINE last == IF Len(events) <= since + Limit THEN Len(events) ELSE since + Limit
<1>3. Page = {i \in 1..Len(events) : since < i /\ i <= since + Limit}
  BY <1>1 DEF Page, Sequence
<1>4. Page # {} => last \in Page /\ \A i \in Page : i <= last
  BY <1>1, <1>3
<1> HIDE DEF last
<1>5. PageOK'
  BY <1>1, <1>2, <1>3, <1>4 DEF PageOK
<1> QED
  BY <1>2, <1>5 DEF StreamIInv, CursorOK, NothingIsSkipped

(* The cursor moves to the end of the page, and everything up to there is in   *)
(* the page or was collected before.                                          *)
LEMMA TakeAnswerStep ==
    ASSUME StreamIInv, TypeOK, TakeAnswer
    PROVE  StreamIInv'
<1>1. DOMAIN events = 1..Len(events) /\ Len(events) \in Nat /\ since \in 0..Len(events)
  BY DEF TypeOK, StreamIInv, CursorOK
<1>2. UNCHANGED events /\ poll' = NoPoll /\ collected' = collected \cup poll.page
  BY DEF TakeAnswer, vars
<1>3. /\ poll.page \subseteq DOMAIN events
      /\ \A i \in poll.page : since < i /\ i <= since + Limit
      /\ \A i \in poll.page : \A j \in DOMAIN events : since < j /\ j < i => j \in poll.page
  BY DEF TakeAnswer, StreamIInv, PageOK
<1>4. PageOK'
  BY <1>2 DEF PageOK, NoPoll
<1>5. CASE poll.page = {}
  <2>1. since' = since
    BY <1>5 DEF TakeAnswer
  <2> QED
    BY <1>2, <1>4, <2>1 DEF StreamIInv, CursorOK, NothingIsSkipped
<1>6. CASE poll.page # {}
  <2>1. PICK last \in poll.page : \A i \in poll.page : i <= last
    BY <1>6 DEF TakeAnswer, StreamIInv, PageOK
  <2>2. {Sequence(i) : i \in poll.page} = poll.page
    BY DEF Sequence
  <2>3. since' \in poll.page /\ \A i \in poll.page : i <= since'
    BY <1>6, <2>1, <2>2 DEF TakeAnswer, Sequence
  <2>4. CursorOK'
    BY <1>1, <1>2, <1>3, <2>3 DEF CursorOK
  <2>5. \A i \in DOMAIN events : i <= since' => i \in collected'
    BY <1>1, <1>2, <1>3, <2>3 DEF StreamIInv, NothingIsSkipped, Sequence
  <2> QED
    BY <1>2, <1>4, <2>4, <2>5 DEF StreamIInv, NothingIsSkipped, Sequence
<1> QED
  BY <1>5, <1>6

(* Every step keeps the invariant.                                           *)
LEMMA StreamInductive ==
    ASSUME StreamIInv, TypeOK, TypeOK', [StreamNext]_streamVars
    PROVE  StreamIInv'
<1>1. CASE UNCHANGED streamVars
  BY <1>1 DEF streamVars, vars, StreamIInv, CursorOK, PageOK, NothingIsSkipped, Sequence
<1>2. CASE Poll \/ LoseAnswer
  <2>1. UNCHANGED <<events, since, collected>> /\ poll'.step # "answer"
    BY <1>2 DEF Poll, LoseAnswer, NoPoll, vars
  <2> QED
    BY <2>1 DEF StreamIInv, CursorOK, PageOK, NothingIsSkipped, Sequence
<1> QED
  BY <1>1, <1>2, WorkflowStep, ReadPageStep, TakeAnswerStep DEF StreamNext, Collect

(* No receipt is skipped by the collecting machine, however requests insert   *)
(* events between its pages and whatever answers it loses.                    *)
THEOREM EveryReceiptIsCollected == StreamSpec => []NothingIsSkipped
<1>1. StreamInit => Init
  BY DEF StreamInit
<1>2. [StreamNext]_streamVars => [Next]_vars
  BY DEF StreamNext, streamVars, vars, Collect, Poll, ReadPage, TakeAnswer, LoseAnswer
<1>3. StreamSpec => Spec
  BY <1>1, <1>2, PTL DEF StreamSpec, Spec
<1>4. StreamIInv /\ TypeOK /\ TypeOK' /\ [StreamNext]_streamVars => StreamIInv'
  BY StreamInductive
<1>5. StreamIInv => NothingIsSkipped
  BY DEF StreamIInv
<1> QED
  BY <1>3, <1>4, <1>5, StreamInitIInv, TypeCorrect, PTL DEF StreamSpec

============================================================================
