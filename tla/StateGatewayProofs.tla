-------------------------- MODULE StateGatewayProofs --------------------------
(***************************************************************************)
(* What every run of the State Gateway keeps, for any calls, commands,     *)
(* earlier ledgers and bounds.  The inductive invariant says, beside the   *)
(* checked properties, what a call in flight knows at each of its awaits:  *)
(* that its receipt carries its payload, that it still holds the lease     *)
(* unless the key was taken over, that the comment it names is its own,    *)
(* and what it read of the ledger before it writes.                        *)
(***************************************************************************)
EXTENDS StateGateway, FiniteSetTheorems, SequenceTheorems, WellFoundedInduction, TLAPS

------------------------------------------------------------------------------
(* Types *)

Statuses == {"ABSENT", "PENDING", "OUTCOME_UNKNOWN", "CONFLICT", "FAILED"} \cup Settled

PayloadType == [cmd : Keys \cup Commands \cup {NoCommand}, prev : Nat, preopen : Nat]

ReceiptType ==
    [status : Statuses, sha : PayloadType, owner : Calls \cup {NoCall},
     until : Nat, attempts : Nat, comment : Nat]

Results == {"none"} \cup Settled \cup Errors
Answers == {"none", "ERROR"} \cup Settled \cup Errors

CallType ==
    [pc : Stages, cmd : Commands \cup {NoCommand}, now : Nat, prev : Nat,
     preopen : Nat, base : Nat, comment : Nat, result : Results, answer : Answers]

GatewayTypes ==
    /\ receipts \in [Keys -> ReceiptType]
    /\ ledger \in Seq(CommentType)
    /\ call \in [Calls -> CallType]
    /\ clock \in 0..MaxTime
    /\ faults \in 0..MaxFaults
    /\ takenOver \subseteq Keys

(* Comment ids exist and times have passed. *)
ReceiptBounds(k) ==
    /\ receipts[k].until <= MaxTime + LeaseTTL
    /\ receipts[k].comment <= Len(ledger)
CallBounds(c) ==
    /\ call[c].now <= clock
    /\ call[c].prev <= Len(ledger) /\ call[c].preopen <= Len(ledger)
    /\ call[c].comment <= Len(ledger)
LinksPointBack ==
    \A i \in DOMAIN ledger : ledger[i].prev < i /\ ledger[i].preopen < i

------------------------------------------------------------------------------
(* What a receipt and a call know *)

(* The calls that were at the lease of a key: each counts as one attempt. *)
Early == {"idle", "build", "closeThesis", "closeMarket", "insert", "inspect", "acquire"}
WereAtLease(k) == {c \in Calls : call[c].pc \notin Early /\ KeyOf(c) = k}
AttemptsAreCalls ==
    \A k \in Keys : receipts[k].attempts <= Cardinality(WereAtLease(k))

IsWritten(k) == \E i \in DOMAIN ledger : Identity(ledger[i].cmd) = k

ReceiptKnows(k) ==
    /\ receipts[k].owner \in Calls => receipts[k].status = "PENDING"
    /\ receipts[k].status = "CONFLICT" => IsWritten(k) \/ HasDuplicates(ledger)

HasCommand(c) ==
    /\ call[c].pc \notin {"idle", "done"} => call[c].cmd \in Commands
    /\ call[c].answer \in Settled \cup {"STATE_CONFLICT"} => call[c].cmd \in Commands
    /\ call[c].pc = "done" <=> call[c].answer # "none"
    /\ call[c].pc = "settle" => call[c].result \in Settled
    /\ call[c].pc = "fail" => call[c].result \in Errors
    /\ call[c].pc = "idle" => call[c].cmd = NoCommand
    /\ call[c].pc = "build" => call[c].cmd.channel = "MARKET"

(* From the inspection on, the receipt carries the payload of the call. *)
KnowsReceipt(c) ==
    /\ call[c].pc = "inspect" => Row(c).status # "ABSENT"
    /\ call[c].pc \in {"acquire", "confirm", "read", "post", "readback", "settle"} =>
          Row(c).status # "ABSENT" /\ Row(c).sha = Payload(c)

KnowsComment(c) ==
    call[c].pc \in {"readback", "settle"} \/ call[c].answer \in Settled =>
        /\ call[c].comment \in DOMAIN ledger
        /\ PayloadOf(ledger[call[c].comment]) = Payload(c)

KnowsConflict(c) ==
    /\ call[c].pc = "fail" /\ call[c].result = "STATE_CONFLICT" =>
          IsWritten(KeyOf(c)) \/ HasDuplicates(ledger)
    /\ call[c].answer = "STATE_CONFLICT" =>
          \/ Row(c).status # "ABSENT" /\ Row(c).sha # Payload(c)
          \/ IsWritten(KeyOf(c)) \/ HasDuplicates(ledger)

(* A call that may write holds the lease, unless its key was taken over, and *)
(* writes only a key that is not yet written.                                *)
HoldsLease(c) ==
    call[c].pc \in {"read", "post", "readback", "settle"} /\ KeyOf(c) \notin takenOver =>
        /\ Row(c).owner = c
        /\ call[c].pc = "post" => ~IsWritten(KeyOf(c))

KnowsSupport(c) ==
    call[c].cmd.channel = "CLOSE" =>
        /\ call[c].pc \in {"closeMarket", "insert", "inspect", "acquire", "confirm",
                           "read", "post"} =>
              \E n \in 0..Len(ledger) :
                  ThesisSupports(Prefix(ledger, n), call[c].cmd.body)
        /\ (/\ call[c].pc \in {"insert", "inspect", "acquire", "confirm", "read", "post"}
            /\ NeedsMarket(call[c].cmd.body)) =>
              \E n \in 0..Len(ledger) : MarketSupports(Prefix(ledger, n), call[c].cmd)

KnowsLinks(c) ==
    call[c].pc = "post" /\ call[c].cmd.channel = "MARKET" =>
        \E n \in 0..Len(ledger) : IsReadingOf(Batch(c), Prefix(ledger, n))

CallKnows(c) ==
    /\ HasCommand(c) /\ KnowsReceipt(c) /\ KnowsComment(c) /\ KnowsConflict(c)
    /\ HoldsLease(c) /\ KnowsSupport(c) /\ KnowsLinks(c)

GatewayInv ==
    /\ GatewayTypes
    /\ LinksPointBack /\ AttemptsAreCalls
    /\ \A k \in Keys : ReceiptBounds(k) /\ ReceiptKnows(k)
    /\ \A c \in Calls : CallBounds(c) /\ CallKnows(c)
    /\ ReceiptNamesItsComment /\ SecondCommentNeedsTakeover
    /\ CloseIsSupported /\ CheckpointLinksAreOneReading

------------------------------------------------------------------------------
(* Facts about commands and ledgers *)

(* The calls' commands are typed, and NoCommand is none of them.             *)
LEMMA CommandsTyped ==
    /\ Commands \subseteq CommandType
    /\ NoCommand \notin CommandType
    /\ \A cmd \in Commands : Identity(cmd) \in Keys
BY GatewayAssumption DEF CommandType, NoCommand, StateChannels, InvestmentChannels, Keys

(* A comment of a ledger is typed field by field.                            *)
LEMMA CommentIs ==
    ASSUME NEW l \in Seq(CommentType), NEW i \in DOMAIN l
    PROVE  /\ l[i] \in CommentType /\ i \in 1..Len(l)
           /\ l[i].cmd \in CommandType /\ l[i].prev \in Nat /\ l[i].preopen \in Nat
           /\ l[i].cmd.date \in Nat /\ l[i].cmd.slot \in Nat
           /\ l[i].cmd.version \in Nat
<1>1. l[i] \in CommentType /\ i \in 1..Len(l)
  OBVIOUS
<1>2. l[i].cmd \in CommandType /\ l[i].prev \in Nat /\ l[i].preopen \in Nat
  BY <1>1 DEF CommentType
<1> QED
  BY <1>1, <1>2 DEF CommandType

(* The key of a command is of its channel.  Checkpoints share a key exactly  *)
(* if they are of the same date and slot.                                    *)
LEMMA KeyOfChannel ==
    ASSUME NEW cmd \in CommandType
    PROVE  Identity(cmd).channel = cmd.channel
BY DEF Identity, CommandType

LEMMA SameSlotSameKey ==
    ASSUME NEW a \in CommandType, NEW b \in CommandType, a.channel = "MARKET"
    PROVE  Identity(a) = Identity(b) <=>
              b.channel = "MARKET" /\ b.date = a.date /\ b.slot = a.slot
<1> DEFINE Slot(channel, date, slot) ==
               [channel |-> channel, id |-> "slot", body |-> "none", members |-> "none",
                asOf |-> 0, version |-> 0, date |-> date, slot |-> slot]
<1>1. ASSUME NEW cmd \in CommandType, cmd.channel = "MARKET"
      PROVE  Identity(cmd) = Slot(cmd.channel, cmd.date, cmd.slot)
  <2>1. Identity(cmd) = [cmd EXCEPT !.id = "slot", !.body = "none", !.members = "none",
                                    !.asOf = 0, !.version = 0]
    BY <1>1 DEF Identity
  <2> QED
    BY <2>1 DEF CommandType
<1>2. Identity(b).channel = b.channel /\ Identity(a).channel = a.channel
  BY KeyOfChannel
<1>3. Identity(a) = Slot(a.channel, a.date, a.slot)
  BY <1>1
<1>4. CASE b.channel = "MARKET"
  <2>1. Identity(b) = Slot(b.channel, b.date, b.slot)
    BY <1>1, <1>4
  <2>2. \A x, y, u, v \in Nat : Slot("MARKET", x, y) = Slot("MARKET", u, v) <=> x = u /\ y = v
    OBVIOUS
  <2>3. a.date \in Nat /\ a.slot \in Nat /\ b.date \in Nat /\ b.slot \in Nat
    BY DEF CommandType
  <2> HIDE DEF Slot
  <2> QED
    BY <1>3, <1>4, <2>1, <2>2, <2>3
<1>5. CASE b.channel # "MARKET"
  BY <1>2, <1>5
<1> QED
  BY <1>4, <1>5

(* A set of natural numbers has a least element, and a bounded one a         *)
(* greatest.                                                                 *)
LEMMA LeastOf ==
    ASSUME NEW T, T \subseteq Nat, T # {}
    PROVE  \E m \in T : \A n \in T : m <= n
<1>1. PICK m \in T : \A n \in T : <<n, m>> \notin OpToRel(<, Nat)
  BY NatLessThanWellFounded, WFMin, Zenon
<1>2. \A n \in T : ~(n < m)
  BY <1>1, Zenon DEF OpToRel
<1> QED
  BY <1>2

LEMMA GreatestOf ==
    ASSUME NEW T, T \subseteq Nat, T # {}, NEW b \in Nat, \A n \in T : n <= b
    PROVE  \E m \in T : \A n \in T : n <= m
<1> DEFINE U == {b - n : n \in T}
<1>1. \A n \in T : n \in Nat /\ b - n \in Nat
  OBVIOUS
<1>2. U \subseteq Nat
  BY <1>1
<1>3. U # {}
  OBVIOUS
<1>4. PICK u \in U : \A v \in U : u <= v
  <2> HIDE DEF U
  <2> QED BY <1>2, <1>3, LeastOf
<1>5. PICK m \in T : u = b - m
  BY <1>4
<1>6. ASSUME NEW n \in T PROVE n <= m
  <2>1. b - n \in U
    OBVIOUS
  <2>2. b - m <= b - n
    BY <1>4, <1>5, <2>1
  <2> QED
    BY <1>1, <2>2
<1> QED
  BY <1>6

(* fetchAllComments and the readers of checkpoints name comments that exist. *)
LEMMA CurrentSlotIs ==
    ASSUME NEW l \in Seq(CommentType), NEW date, NEW slot
    PROVE  /\ CheckpointOf(l, date, slot) = {} => CurrentSlot(l, date, slot) = NoComment
           /\ CheckpointOf(l, date, slot) # {} =>
                 CurrentSlot(l, date, slot) \in CheckpointOf(l, date, slot)
           /\ CheckpointOf(l, date, slot) \subseteq 1..Len(l)
<1> DEFINE T == CheckpointOf(l, date, slot)
<1>1. T \subseteq 1..Len(l)
  BY DEF CheckpointOf, Checkpoints, ChannelPositions
<1>2. T = {} => CurrentSlot(l, date, slot) = NoComment
  BY DEF CurrentSlot
<1>3. ASSUME T # {} PROVE CurrentSlot(l, date, slot) \in T
  <2>1. \E m \in T : \A n \in T : m <= n
    BY <1>1, <1>3, LeastOf
  <2>2. Min(T) \in T
    BY <2>1 DEF Min
  <2>3. CurrentSlot(l, date, slot) = Min(T)
    BY <1>3 DEF CurrentSlot
  <2> QED
    BY <2>2, <2>3
<1> QED
  BY <1>1, <1>2, <1>3

LEMMA PreviousCheckpointIs ==
    ASSUME NEW l \in Seq(CommentType), NEW cmd \in CommandType
    PROVE  PreviousCheckpoint(l, cmd) \in 0..Len(l)
<1> DEFINE T == {i \in Checkpoints(l) : l[i].cmd.date = cmd.date /\ l[i].cmd.slot < cmd.slot}
           Later(i, j) == \/ l[i].cmd.date > l[j].cmd.date
                          \/ /\ l[i].cmd.date = l[j].cmd.date
                             /\ \/ l[i].cmd.slot > l[j].cmd.slot
                                \/ l[i].cmd.slot = l[j].cmd.slot /\ i > j
<1>1. T \subseteq 1..Len(l)
  BY DEF Checkpoints, ChannelPositions
<1>2. \A i \in T : l[i].cmd.slot \in Nat /\ l[i].cmd.slot <= cmd.slot
  <2>1. cmd.slot \in Nat
    BY DEF CommandType
  <2>2. \A i \in T : l[i].cmd.slot \in Nat
    BY <1>1, CommentIs
  <2> QED
    BY <2>1, <2>2
<1>3. CASE T = {}
  BY <1>3 DEF PreviousCheckpoint, LastCheckpoint, NoComment
<1>4. CASE T # {}
  <2> DEFINE Slots == {l[i].cmd.slot : i \in T}
  <2>1. Slots \subseteq Nat /\ Slots # {} /\ cmd.slot \in Nat /\ \A n \in Slots : n <= cmd.slot
    BY <1>2, <1>4 DEF CommandType
  <2>2. PICK s \in Slots : \A n \in Slots : n <= s
    <3> HIDE DEF Slots
    <3> QED BY <2>1, GreatestOf
  <2> DEFINE Top == {i \in T : l[i].cmd.slot = s}
  <2>3. Top \subseteq Nat /\ Top # {} /\ \A i \in Top : i <= Len(l)
    BY <1>1, <2>2
  <2>4. PICK m \in Top : \A i \in Top : i <= m
    <3>1. Len(l) \in Nat
      OBVIOUS
    <3> HIDE DEF Top
    <3> QED BY <2>3, <3>1, GreatestOf
  <2>5. ASSUME NEW j \in T \ {m} PROVE Later(m, j)
    <3>1. l[j].cmd.slot <= s /\ l[m].cmd.slot = s /\ l[m].cmd.date = l[j].cmd.date
      BY <2>2, <2>4
    <3>2. CASE l[j].cmd.slot = s
      <4>1. j <= m /\ j # m /\ j \in Nat /\ m \in Nat
        BY <3>2, <2>4, <1>1
      <4> QED BY <3>1, <3>2, <4>1
    <3>3. CASE l[j].cmd.slot < s
      BY <3>1, <3>3
    <3>4. l[j].cmd.slot \in Nat /\ s \in Nat
      BY <1>2, <2>1, <2>2
    <3> QED BY <3>1, <3>2, <3>3, <3>4
  <2>6. \E i \in T : \A j \in T \ {i} : Later(i, j)
    BY <2>4, <2>5
  <2>7. PreviousCheckpoint(l, cmd) = CHOOSE i \in T : \A j \in T \ {i} : Later(i, j)
    BY <1>4 DEF PreviousCheckpoint, LastCheckpoint
  <2> HIDE DEF T, Later, Slots, Top
  <2>8. PreviousCheckpoint(l, cmd) \in T
    BY <2>6, <2>7
  <2>9. PreviousCheckpoint(l, cmd) \in 1..Len(l)
    BY <1>1, <2>8
  <2> QED
    BY <2>9
<1> QED
  BY <1>3, <1>4

LEMMA ExpectedPreopenIs ==
    ASSUME NEW l \in Seq(CommentType), NEW cmd \in CommandType
    PROVE  ExpectedPreopen(l, cmd) \in 0..Len(l)
BY CurrentSlotIs DEF ExpectedPreopen, NoComment

LEMMA TransitionBaseIs ==
    ASSUME NEW l \in Seq(CommentType), NEW cmd \in CommandType
    PROVE  TransitionBase(l, cmd) \in Nat
<1>1. PreviousCheckpoint(l, cmd) \in 0..Len(l)
  BY PreviousCheckpointIs
<1>2. CASE PreviousCheckpoint(l, cmd) = NoComment
  BY <1>2 DEF TransitionBase
<1>3. CASE PreviousCheckpoint(l, cmd) # NoComment
  <2>1. PreviousCheckpoint(l, cmd) \in 1..Len(l)
    BY <1>1, <1>3 DEF NoComment
  <2>2. l[PreviousCheckpoint(l, cmd)].cmd.version \in Nat
    BY <2>1, CommentIs
  <2> QED BY <1>3, <2>2 DEF TransitionBase
<1> QED
  BY <1>2, <1>3
------------------------------------------------------------------------------
(* Steps *)

(* The ledger only grows: comments and earlier readings stay what they were. *)
Grows ==
    /\ ledger' \in Seq(CommentType)
    /\ Len(ledger) <= Len(ledger')
    /\ \A i \in DOMAIN ledger : i \in DOMAIN ledger' /\ ledger'[i] = ledger[i]
    /\ \A n \in 0..Len(ledger) : Prefix(ledger', n) = Prefix(ledger, n)

LEMMA AppendIs ==
    ASSUME NEW S, NEW l \in Seq(S), NEW x \in S
    PROVE  /\ Append(l, x) \in Seq(S)
           /\ Len(Append(l, x)) = Len(l) + 1
           /\ \A i \in 1..Len(l) : Append(l, x)[i] = l[i]
           /\ Append(l, x)[Len(l) + 1] = x
           /\ \A n \in 0..Len(l) : SubSeq(Append(l, x), 1, n) = SubSeq(l, 1, n)
<1>1. /\ Append(l, x) \in Seq(S) /\ Len(Append(l, x)) = Len(l) + 1
      /\ \A i \in 1..Len(l) : Append(l, x)[i] = l[i]
      /\ Append(l, x)[Len(l) + 1] = x
  BY AppendProperties
<1>2. ASSUME NEW n \in 0..Len(l) PROVE SubSeq(Append(l, x), 1, n) = SubSeq(l, 1, n)
  <2>1. CASE n = 0
    BY <2>1, SubSeqEmpty
  <2>2. CASE n # 0
    <3>1. n \in 1..Len(l) /\ 1 \in 1..Len(l) /\ <<x>> \in Seq(S)
      BY <2>2
    <3>2. Append(l, x) = l \o <<x>>
      BY AppendIsConcat
    <3> QED
      BY <3>1, <3>2, SubSeqOfConcat1
  <2> QED
    BY <2>1, <2>2
<1> QED
  BY <1>1, <1>2

LEMMA WritingGrows ==
    ASSUME GatewayTypes, NEW x \in CommentType, ledger' = Append(ledger, x)
    PROVE  /\ Grows
           /\ Len(ledger') = Len(ledger) + 1
           /\ DOMAIN ledger' = DOMAIN ledger \cup {Len(ledger) + 1}
           /\ ledger'[Len(ledger) + 1] = x
<1>1. ledger \in Seq(CommentType)
  BY DEF GatewayTypes
<1>2. /\ ledger' \in Seq(CommentType) /\ Len(ledger') = Len(ledger) + 1
      /\ \A i \in 1..Len(ledger) : ledger'[i] = ledger[i]
      /\ ledger'[Len(ledger) + 1] = x
      /\ \A n \in 0..Len(ledger) : SubSeq(ledger', 1, n) = SubSeq(ledger, 1, n)
  BY <1>1, AppendIs
<1>3. DOMAIN ledger = 1..Len(ledger) /\ DOMAIN ledger' = 1..Len(ledger') /\ Len(ledger) \in Nat
  BY <1>1, <1>2
<1>4. \A n \in 0..Len(ledger) : Prefix(ledger', n) = Prefix(ledger, n)
  BY <1>2 DEF Prefix
<1>5. DOMAIN ledger' = DOMAIN ledger \cup {Len(ledger) + 1}
  BY <1>2, <1>3
<1> QED
  BY <1>2, <1>3, <1>4, <1>5 DEF Grows

LEMMA KeepingGrows ==
    ASSUME GatewayTypes, ledger' = ledger
    PROVE  Grows
BY DEF GatewayTypes, Grows

(* What was written stays written, and duplicates stay.                      *)
LEMMA WrittenStays ==
    ASSUME GatewayTypes, Grows
    PROVE  /\ \A k : IsWritten(k) => IsWritten(k)'
           /\ HasDuplicates(ledger) => HasDuplicates(ledger')
<1>1. \A k : IsWritten(k) => IsWritten(k)'
  BY DEF IsWritten, Grows
<1>2. Checkpoints(ledger) \subseteq Checkpoints(ledger')
  BY DEF Checkpoints, ChannelPositions, Grows
<1>3. \A i \in Checkpoints(ledger) : ledger'[i] = ledger[i]
  BY DEF Checkpoints, ChannelPositions, Grows
<1>4. HasDuplicates(ledger) => HasDuplicates(ledger')
  BY <1>2, <1>3 DEF HasDuplicates
<1> QED
  BY <1>1, <1>4

(* What a step of call c may do to the receipts: payloads stay, settled and  *)
(* conflicting receipts stay, and only a takeover ends a lease of another.   *)
ReceiptsStep(c) ==
    /\ receipts' \in [Keys -> ReceiptType]
    /\ takenOver \subseteq takenOver' /\ takenOver' \subseteq Keys
    /\ \A k \in Keys :
          /\ receipts[k].status # "ABSENT" =>
                receipts'[k].status # "ABSENT" /\ receipts'[k].sha = receipts[k].sha
          /\ receipts[k].status \in Settled \cup {"CONFLICT"} =>
                receipts'[k] = receipts[k]
          /\ receipts[k].owner \in Calls \ {c} =>
                receipts'[k].owner = receipts[k].owner \/ k \in takenOver'

(* A step of call c: the other calls stay, and a comment is only written     *)
(* from "post".                                                              *)
StepOf(c) ==
    /\ call' \in [Calls -> CallType]
    /\ \A d \in Calls \ {c} : call'[d] = call[d]
    /\ ReceiptsStep(c)
    /\ Grows
    /\ ledger' # ledger => call[c].pc = "post" /\ ledger' = Append(ledger, Batch(c))

(* The key and payload of a call depend on its own record only.              *)
LEMMA KeyInKeys ==
    ASSUME GatewayTypes, NEW c \in Calls, call[c].cmd \in Commands
    PROVE  KeyOf(c) \in Keys
BY CommandsTyped DEF KeyOf

(* What another call knows is not disturbed.                                 *)
LEMMA OthersKnow ==
    ASSUME GatewayInv, NEW c \in Calls, StepOf(c), NEW d \in Calls \ {c}
    PROVE  CallKnows(d)'
<1>1. call'[d] = call[d] /\ Grows /\ ReceiptsStep(c) /\ CallKnows(d) /\ GatewayTypes
  BY DEF GatewayInv, StepOf
<1>2. KeyOf(d)' = KeyOf(d) /\ Payload(d)' = Payload(d) /\ Batch(d)' = Batch(d)
  BY <1>1 DEF KeyOf, Payload, Batch
<1>3. call[d].cmd \in Commands => KeyOf(d) \in Keys
  BY <1>1, KeyInKeys
<1>4. Row(d)' = receipts'[KeyOf(d)] /\ Row(d) = receipts[KeyOf(d)]
  BY <1>2 DEF Row
<1>5. HasCommand(d)'
  BY <1>1 DEF CallKnows, HasCommand
<1>6. KnowsReceipt(d)'
  BY <1>1, <1>2, <1>3, <1>4 DEF CallKnows, KnowsReceipt, HasCommand, ReceiptsStep
<1>7. KnowsComment(d)'
  BY <1>1, <1>2 DEF CallKnows, KnowsComment, Grows, PayloadOf
<1>8. KnowsConflict(d)'
  <2>1. \A k : IsWritten(k) => IsWritten(k)'
    BY <1>1, WrittenStays
  <2>2. HasDuplicates(ledger) => HasDuplicates(ledger)'
    BY <1>1, WrittenStays
  <2>3. call[d].answer = "STATE_CONFLICT" => KeyOf(d) \in Keys
    BY <1>1, <1>3 DEF CallKnows, HasCommand
  <2>4. call[d].answer = "STATE_CONFLICT" =>
          \/ Row(d)'.status # "ABSENT" /\ Row(d)'.sha # Payload(d)
          \/ IsWritten(KeyOf(d)) \/ HasDuplicates(ledger)
    BY <1>1, <1>4, <2>3 DEF CallKnows, KnowsConflict, ReceiptsStep
  <2>5. call[d].pc = "fail" /\ call[d].result = "STATE_CONFLICT" =>
          IsWritten(KeyOf(d)) \/ HasDuplicates(ledger)
    BY <1>1 DEF CallKnows, KnowsConflict
  <2> QED
    BY <1>1, <1>2, <2>1, <2>2, <2>4, <2>5 DEF KnowsConflict
<1>9. HoldsLease(d)'
  <2> SUFFICES ASSUME call[d].pc \in {"read", "post", "readback", "settle"},
                      KeyOf(d) \notin takenOver'
               PROVE  /\ Row(d)'.owner = d
                      /\ call[d].pc = "post" => ~IsWritten(KeyOf(d))'
    BY <1>1, <1>2 DEF HoldsLease
  <2>1. KeyOf(d) \in Keys /\ KeyOf(d) \notin takenOver
    BY <1>1, <1>3 DEF CallKnows, HasCommand, ReceiptsStep
  <2>2. receipts[KeyOf(d)].owner = d /\ (call[d].pc = "post" => ~IsWritten(KeyOf(d)))
    BY <1>1, <1>4, <2>1 DEF CallKnows, HoldsLease
  <2>3. Row(d)'.owner = d
    BY <1>1, <1>4, <2>1, <2>2 DEF ReceiptsStep
  <2>4. ASSUME ledger' # ledger PROVE KeyOf(c) # KeyOf(d)
    <3>1. call[c].pc = "post"
      BY <2>4 DEF StepOf
    <3>2. KeyOf(c) \in takenOver \/ receipts[KeyOf(c)].owner = c
      BY <3>1 DEF GatewayInv, CallKnows, HoldsLease, Row
    <3> QED
      BY <2>1, <2>2, <3>2
  <2>5. IsWritten(KeyOf(d))' => IsWritten(KeyOf(d)) \/ (ledger' # ledger /\ KeyOf(c) = KeyOf(d))
    <3>1. CASE ledger' = ledger
      BY <3>1, <1>2 DEF IsWritten
    <3>2. CASE ledger' # ledger
      <4>1. ledger' = Append(ledger, Batch(c)) /\ Batch(c).cmd = call[c].cmd
        BY <3>2 DEF StepOf, Batch
      <4>2. ledger \in Seq(CommentType) /\ ledger' \in Seq(CommentType)
        BY <1>1 DEF GatewayTypes, Grows
      <4>3. \A i \in DOMAIN ledger' : i \in DOMAIN ledger \/ ledger'[i] = Batch(c)
        BY <4>1, <4>2
      <4>4. \A i \in DOMAIN ledger : ledger'[i] = ledger[i]
        BY <1>1 DEF Grows
      <4> QED
        BY <1>2, <3>2, <4>1, <4>3, <4>4 DEF IsWritten, KeyOf
    <3> QED
      BY <3>1, <3>2
  <2> QED
    BY <2>2, <2>3, <2>4, <2>5
<1>10. KnowsSupport(d)'
  <2>1. 0..Len(ledger) \subseteq 0..Len(ledger')
    BY <1>1 DEF Grows, GatewayTypes
  <2>2. \A n \in 0..Len(ledger) : Prefix(ledger, n)' = Prefix(ledger, n)
    BY <1>1 DEF Grows, Prefix
  <2> QED
    BY <1>1, <2>1, <2>2 DEF CallKnows, KnowsSupport
<1>11. KnowsLinks(d)'
  <2>1. 0..Len(ledger) \subseteq 0..Len(ledger')
    BY <1>1 DEF Grows, GatewayTypes
  <2> QED
    BY <1>1, <1>2, <2>1 DEF CallKnows, KnowsLinks, Grows
<1> QED
  BY <1>5, <1>6, <1>7, <1>8, <1>9, <1>10, <1>11 DEF CallKnows

------------------------------------------------------------------------------
(* The parts of the invariant that a step of c keeps, given what it does *)

(* One more attempt counts one more call at the lease.                       *)
LEMMA AttemptsStay ==
    ASSUME GatewayInv, NEW c \in Calls, StepOf(c),
           call[c].pc \notin Early => call'[c].pc \notin Early /\ KeyOf(c)' = KeyOf(c),
           \A k \in Keys :
              \/ receipts'[k].attempts = receipts[k].attempts
              \/ /\ receipts'[k].attempts = receipts[k].attempts + 1
                 /\ k = KeyOf(c)' /\ call[c].pc \in Early /\ call'[c].pc \notin Early
    PROVE  AttemptsAreCalls'
<1> SUFFICES ASSUME NEW k \in Keys
             PROVE  receipts'[k].attempts <= Cardinality(WereAtLease(k)')
  BY DEF AttemptsAreCalls
<1> DEFINE W == WereAtLease(k)
           X == WereAtLease(k)'
<1> SUFFICES receipts'[k].attempts <= Cardinality(X)
  OBVIOUS
<1>1. W \subseteq Calls /\ X \subseteq Calls /\ IsFiniteSet(Calls)
  BY GatewayAssumption DEF WereAtLease
<1>2. IsFiniteSet(W) /\ IsFiniteSet(X)
  BY <1>1, FS_Subset
<1>3. Cardinality(W) \in Nat /\ Cardinality(X) \in Nat
  BY <1>2, FS_CardinalityType
<1>4. receipts[k].attempts \in Nat /\ receipts[k].attempts <= Cardinality(W)
  BY DEF GatewayInv, GatewayTypes, ReceiptType, AttemptsAreCalls
<1>5. W \subseteq X
  <2>1. \A d \in Calls \ {c} : KeyOf(d)' = KeyOf(d) /\ call'[d].pc = call[d].pc
    BY DEF StepOf, KeyOf
  <2> QED
    BY <2>1 DEF WereAtLease
<1>6. CASE receipts'[k].attempts = receipts[k].attempts
  <2> HIDE DEF W, X
  <2>1. Cardinality(W) <= Cardinality(X)
    BY <1>2, <1>5, FS_Subset
  <2> QED
    BY <1>3, <1>4, <1>6, <2>1
<1>7. CASE /\ receipts'[k].attempts = receipts[k].attempts + 1
           /\ k = KeyOf(c)' /\ call[c].pc \in Early /\ call'[c].pc \notin Early
  <2>1. c \notin W /\ c \in X
    BY <1>7 DEF WereAtLease
  <2> HIDE DEF W, X
  <2>2. Cardinality(W \cup {c}) = Cardinality(W) + 1
    BY <1>2, <2>1, FS_AddElement
  <2>3. W \cup {c} \subseteq X
    BY <1>5, <2>1
  <2>4. Cardinality(W \cup {c}) <= Cardinality(X)
    BY <1>2, <2>3, FS_Subset
  <2> QED
    BY <1>3, <1>4, <1>7, <2>2, <2>4
<1> QED
  BY <1>6, <1>7

LEMMA BoundsStay ==
    ASSUME GatewayInv, NEW c \in Calls, StepOf(c), clock' = clock, CallBounds(c)'
    PROVE  \A d \in Calls : CallBounds(d)'
<1>1. ASSUME NEW d \in Calls \ {c} PROVE CallBounds(d)'
  <2>1. call'[d] = call[d] /\ CallBounds(d)
    BY DEF GatewayInv, StepOf
  <2>2. call[d].prev \in Nat /\ call[d].preopen \in Nat /\ call[d].comment \in Nat
    BY DEF GatewayInv, GatewayTypes, CallType
  <2>3. Len(ledger) \in Nat /\ Len(ledger') \in Nat /\ Len(ledger) <= Len(ledger')
    BY DEF StepOf, Grows, GatewayInv, GatewayTypes
  <2> QED
    BY <2>1, <2>2, <2>3 DEF CallBounds
<1> QED
  BY <1>1

(* A step that writes no comment.                                            *)
LEMMA LedgerStays ==
    ASSUME GatewayInv, ledger' = ledger, takenOver \subseteq takenOver'
    PROVE  /\ LinksPointBack' /\ SecondCommentNeedsTakeover'
           /\ CloseIsSupported' /\ CheckpointLinksAreOneReading'
<1>1. LinksPointBack' /\ CloseIsSupported' /\ CheckpointLinksAreOneReading'
  BY DEF GatewayInv, LinksPointBack, CloseIsSupported, CheckpointLinksAreOneReading
<1>2. SecondCommentNeedsTakeover'
  BY DEF GatewayInv, SecondCommentNeedsTakeover
<1> QED
  BY <1>1, <1>2

(* What holds of a receipt as long as it is not changed.                     *)
ReceiptIsGood(k) ==
    /\ ReceiptBounds(k) /\ ReceiptKnows(k)
    /\ receipts[k].status \in Settled =>
          /\ receipts[k].comment \in DOMAIN ledger
          /\ PayloadOf(ledger[receipts[k].comment]) = receipts[k].sha

LEMMA ReceiptStays ==
    ASSUME GatewayInv, Grows, NEW k \in Keys, receipts'[k] = receipts[k]
    PROVE  ReceiptIsGood(k)'
<1>1. ReceiptBounds(k) /\ ReceiptKnows(k) /\ GatewayTypes
  BY DEF GatewayInv
<1>2. ReceiptBounds(k)'
  <2>1. receipts[k].comment \in Nat /\ Len(ledger) \in Nat /\ Len(ledger') \in Nat
        /\ Len(ledger) <= Len(ledger')
    BY DEF GatewayInv, GatewayTypes, ReceiptType, Grows
  <2> QED
    BY <1>1, <2>1 DEF ReceiptBounds
<1>3. ReceiptKnows(k)'
  BY <1>1, WrittenStays DEF ReceiptKnows
<1>4. receipts[k].status \in Settled =>
          /\ receipts[k].comment \in DOMAIN ledger'
          /\ PayloadOf(ledger'[receipts[k].comment]) = receipts[k].sha
  BY DEF GatewayInv, ReceiptNamesItsComment, Grows
<1> QED
  BY <1>2, <1>3, <1>4 DEF ReceiptIsGood

(* A step of c that writes no comment keeps the invariant if the receipts    *)
(* stay good and c knows what it has to know.                                *)
LEMMA StepKeeps ==
    ASSUME GatewayInv, NEW c \in Calls, StepOf(c), ledger' = ledger, clock' = clock,
           faults' \in 0..MaxFaults,
           CallKnows(c)', CallBounds(c)',
           call[c].pc \notin Early => call'[c].pc \notin Early /\ KeyOf(c)' = KeyOf(c),
           \A k \in Keys :
              \/ receipts'[k].attempts = receipts[k].attempts
              \/ /\ receipts'[k].attempts = receipts[k].attempts + 1
                 /\ k = KeyOf(c)' /\ call[c].pc \in Early /\ call'[c].pc \notin Early,
           \A k \in Keys : ReceiptIsGood(k)'
    PROVE  GatewayInv'
<1>1. GatewayTypes'
  BY DEF GatewayInv, GatewayTypes, StepOf, ReceiptsStep, Grows
<1>2. LinksPointBack' /\ SecondCommentNeedsTakeover'
      /\ CloseIsSupported' /\ CheckpointLinksAreOneReading'
  BY LedgerStays DEF StepOf, ReceiptsStep
<1>3. AttemptsAreCalls'
  BY AttemptsStay
<1>4. \A d \in Calls : CallBounds(d)'
  BY BoundsStay
<1>5. \A d \in Calls : CallKnows(d)'
  BY OthersKnow
<1>6. (\A k \in Keys : ReceiptBounds(k) /\ ReceiptKnows(k))'
  BY DEF ReceiptIsGood
<1>7. ReceiptNamesItsComment'
  BY DEF ReceiptIsGood, ReceiptNamesItsComment
<1> QED
  BY <1>1, <1>2, <1>3, <1>4, <1>5, <1>6, <1>7 DEF GatewayInv

(* A step of c that changes nothing but its own record.                      *)
LEMMA QuietStep ==
    ASSUME GatewayInv, NEW c \in Calls,
           UNCHANGED <<receipts, ledger, clock, takenOver>>, faults' \in 0..MaxFaults,
           call' \in [Calls -> CallType], \A d \in Calls \ {c} : call'[d] = call[d],
           CallKnows(c)', CallBounds(c)',
           call[c].pc \notin Early => call'[c].pc \notin Early /\ KeyOf(c)' = KeyOf(c)
    PROVE  GatewayInv'
<1>1. Grows
  BY KeepingGrows DEF GatewayInv
<1>2. StepOf(c)
  BY <1>1 DEF StepOf, ReceiptsStep, GatewayInv, GatewayTypes
<1>3. \A k \in Keys : ReceiptIsGood(k)'
  BY <1>1, ReceiptStays
<1> QED
  BY <1>2, <1>3, StepKeeps

------------------------------------------------------------------------------
(* The next record of a call *)

LEMMA RecordIs ==
    ASSUME GatewayTypes, NEW c \in Calls, NEW new \in CallType,
           call' = [call EXCEPT ![c] = new]
    PROVE  /\ call' \in [Calls -> CallType]
           /\ \A d \in Calls \ {c} : call'[d] = call[d]
           /\ call'[c] = new
BY DEF GatewayTypes

(* c keeps its command and links, hence its key and payload.                 *)
KeepsCommand(c) ==
    /\ call'[c].cmd = call[c].cmd /\ call'[c].now = call[c].now
    /\ call'[c].prev = call[c].prev /\ call'[c].preopen = call[c].preopen

LEMMA KeyStays ==
    ASSUME NEW c \in Calls, KeepsCommand(c)
    PROVE  KeyOf(c)' = KeyOf(c) /\ Payload(c)' = Payload(c)
BY DEF KeepsCommand, KeyOf, Payload

(* The record of c with another pc, outcome or comment.                      *)
OnlyRecord(c) ==
    call' \in [Calls -> CallType] /\ \A d \in Calls \ {c} : call'[d] = call[d]

LEMMA GotoIs ==
    ASSUME GatewayTypes, NEW c \in Calls, NEW next \in Stages, Goto(c, next)
    PROVE  /\ OnlyRecord(c) /\ KeepsCommand(c)
           /\ call'[c].pc = next /\ call'[c].base = call[c].base
           /\ call'[c].comment = call[c].comment
           /\ call'[c].result = call[c].result /\ call'[c].answer = call[c].answer
<1> DEFINE new == [call[c] EXCEPT !.pc = next]
<1>1. call[c] \in CallType
  BY DEF GatewayTypes
<1>2. new \in CallType
  BY <1>1 DEF CallType
<1>3. /\ new.pc = next /\ new.cmd = call[c].cmd /\ new.now = call[c].now
      /\ new.prev = call[c].prev /\ new.preopen = call[c].preopen /\ new.base = call[c].base
      /\ new.comment = call[c].comment
      /\ new.result = call[c].result /\ new.answer = call[c].answer
  BY <1>1 DEF CallType
<1>4. call' = [call EXCEPT ![c] = new]
  BY DEF Goto
<1> HIDE DEF new
<1> QED
  BY <1>2, <1>3, <1>4, RecordIs DEF OnlyRecord, KeepsCommand

LEMMA AnswerIs ==
    ASSUME GatewayTypes, NEW c \in Calls, NEW a \in Answers, Answer(c, a)
    PROVE  /\ OnlyRecord(c) /\ KeepsCommand(c)
           /\ call'[c].pc = "done" /\ call'[c].answer = a
           /\ call'[c].comment = call[c].comment
<1> DEFINE new == [call[c] EXCEPT !.pc = "done", !.answer = a]
<1>1. call[c] \in CallType
  BY DEF GatewayTypes
<1>2. new \in CallType
  BY <1>1 DEF CallType, Stages
<1>3. /\ new.pc = "done" /\ new.answer = a /\ new.cmd = call[c].cmd /\ new.now = call[c].now
      /\ new.prev = call[c].prev /\ new.preopen = call[c].preopen
      /\ new.comment = call[c].comment
  BY <1>1 DEF CallType
<1>4. call' = [call EXCEPT ![c] = new]
  BY DEF Answer
<1> HIDE DEF new
<1> QED
  BY <1>2, <1>3, <1>4, RecordIs DEF OnlyRecord, KeepsCommand

LEMMA AnswerReplayIs ==
    ASSUME GatewayTypes, NEW c \in Calls, NEW row, row.comment \in Nat, AnswerReplay(c, row)
    PROVE  /\ OnlyRecord(c) /\ KeepsCommand(c)
           /\ call'[c].pc = "done" /\ call'[c].answer = "IDEMPOTENT_REPLAY"
           /\ call'[c].comment = row.comment
<1> DEFINE new == [call[c] EXCEPT !.pc = "done", !.answer = "IDEMPOTENT_REPLAY",
                                  !.comment = row.comment]
<1>1. call[c] \in CallType
  BY DEF GatewayTypes
<1>2. new \in CallType
  BY <1>1 DEF CallType, Stages, Answers, Settled
<1>3. /\ new.pc = "done" /\ new.answer = "IDEMPOTENT_REPLAY" /\ new.cmd = call[c].cmd
      /\ new.now = call[c].now /\ new.prev = call[c].prev /\ new.preopen = call[c].preopen
      /\ new.comment = row.comment
  BY <1>1 DEF CallType
<1>4. call' = [call EXCEPT ![c] = new]
  BY DEF AnswerReplay
<1> HIDE DEF new
<1> QED
  BY <1>2, <1>3, <1>4, RecordIs DEF OnlyRecord, KeepsCommand

LEMMA RaiseIs ==
    ASSUME GatewayTypes, NEW c \in Calls, NEW e \in Errors, Raise(c, e)
    PROVE  /\ OnlyRecord(c) /\ KeepsCommand(c)
           /\ call'[c].pc = "fail" /\ call'[c].result = e
           /\ call'[c].comment = call[c].comment /\ call'[c].answer = call[c].answer
<1> DEFINE new == [call[c] EXCEPT !.pc = "fail", !.result = e]
<1>1. call[c] \in CallType
  BY DEF GatewayTypes
<1>2. new \in CallType
  BY <1>1 DEF CallType, Stages, Results
<1>3. /\ new.pc = "fail" /\ new.result = e /\ new.cmd = call[c].cmd
      /\ new.now = call[c].now /\ new.prev = call[c].prev /\ new.preopen = call[c].preopen
      /\ new.comment = call[c].comment /\ new.answer = call[c].answer
  BY <1>1 DEF CallType
<1>4. call' = [call EXCEPT ![c] = new]
  BY DEF Raise
<1> HIDE DEF new
<1> QED
  BY <1>2, <1>3, <1>4, RecordIs DEF OnlyRecord, KeepsCommand

LEMMA FoundIs ==
    ASSUME GatewayTypes, NEW c \in Calls, NEW i \in Nat, FoundAt(c, i)
    PROVE  /\ OnlyRecord(c) /\ KeepsCommand(c)
           /\ call'[c].pc = "settle" /\ call'[c].result = "IDEMPOTENT_REPLAY"
           /\ call'[c].comment = i /\ call'[c].answer = call[c].answer
<1> DEFINE new == [call[c] EXCEPT !.pc = "settle", !.result = "IDEMPOTENT_REPLAY",
                                  !.comment = i]
<1>1. call[c] \in CallType
  BY DEF GatewayTypes
<1>2. new \in CallType
  BY <1>1 DEF CallType, Stages, Results, Settled
<1>3. /\ new.pc = "settle" /\ new.result = "IDEMPOTENT_REPLAY" /\ new.cmd = call[c].cmd
      /\ new.now = call[c].now /\ new.prev = call[c].prev /\ new.preopen = call[c].preopen
      /\ new.comment = i /\ new.answer = call[c].answer
  BY <1>1 DEF CallType
<1>4. call' = [call EXCEPT ![c] = new]
  BY DEF FoundAt
<1> HIDE DEF new
<1> QED
  BY <1>2, <1>3, <1>4, RecordIs DEF OnlyRecord, KeepsCommand

(* A call that only goes on, and keeps command and links.                    *)
LEMMA QuietRecord ==
    ASSUME GatewayInv, NEW c \in Calls, OnlyRecord(c), KeepsCommand(c),
           UNCHANGED <<receipts, ledger, clock, takenOver>>, faults' \in 0..MaxFaults,
           call'[c].comment <= Len(ledger),
           call[c].pc \notin Early => call'[c].pc \notin Early,
           CallKnows(c)'
    PROVE  GatewayInv'
<1>1. CallBounds(c)'
  BY DEF GatewayInv, CallBounds, KeepsCommand
<1>2. KeyOf(c)' = KeyOf(c)
  BY KeyStays
<1> QED
  BY <1>1, <1>2, QuietStep DEF OnlyRecord

------------------------------------------------------------------------------
(* What a call knows at its answer, at its error and at its death *)

LEMMA AnsweredKnows ==
    ASSUME GatewayInv, NEW c \in Calls,
           NEW a \in Answers \ (Settled \cup {"none", "STATE_CONFLICT"}), Answer(c, a)
    PROVE  CallKnows(c)'
<1>1. call'[c].pc = "done" /\ call'[c].answer = a
  BY AnswerIs DEF GatewayInv
<1> QED
  BY <1>1 DEF CallKnows, HasCommand, KnowsReceipt, KnowsComment, KnowsConflict,
              HoldsLease, KnowsSupport, KnowsLinks

LEMMA ConflictKnows ==
    ASSUME GatewayInv, NEW c \in Calls, Answer(c, "STATE_CONFLICT"),
           call[c].cmd \in Commands, Grows,
           \/ Row(c).status # "ABSENT" /\ Row(c).sha # Payload(c) /\ receipts' = receipts
           \/ IsWritten(KeyOf(c)) \/ HasDuplicates(ledger)
    PROVE  CallKnows(c)'
<1>1. /\ call'[c].pc = "done" /\ call'[c].answer = "STATE_CONFLICT"
      /\ KeepsCommand(c)
  BY AnswerIs DEF GatewayInv, Answers, Errors
<1>2. KeyOf(c)' = KeyOf(c) /\ Payload(c)' = Payload(c) /\ call'[c].cmd \in Commands
  BY <1>1, KeyStays DEF KeepsCommand
<1>3. KnowsConflict(c)'
  <2>1. receipts' = receipts => Row(c)' = Row(c)
    BY <1>2 DEF Row
  <2>2. IsWritten(KeyOf(c)) => IsWritten(KeyOf(c))'
    BY <1>2, WrittenStays DEF GatewayInv
  <2>3. HasDuplicates(ledger) => HasDuplicates(ledger)'
    BY WrittenStays DEF GatewayInv
  <2> QED
    BY <1>1, <1>2, <2>1, <2>2, <2>3 DEF KnowsConflict
<1>4. "STATE_CONFLICT" \notin Settled /\ "STATE_CONFLICT" # "none"
  BY DEF Settled
<1> QED
  BY <1>1, <1>2, <1>3, <1>4 DEF CallKnows, HasCommand, KnowsReceipt, KnowsComment,
              HoldsLease, KnowsSupport, KnowsLinks

LEMMA ReplayKnows ==
    ASSUME GatewayInv, NEW c \in Calls, AnswerReplay(c, Row(c)),
           call[c].cmd \in Commands, ledger' = ledger,
           Row(c).status \in Settled, Row(c).sha = Payload(c)
    PROVE  CallKnows(c)' /\ call'[c].comment <= Len(ledger)
<1>1. KeyOf(c) \in Keys /\ Row(c) = receipts[KeyOf(c)] /\ Row(c) \in ReceiptType
  BY KeyInKeys DEF GatewayInv, GatewayTypes, Row
<1>2. Row(c).comment \in Nat
  BY <1>1 DEF ReceiptType
<1>3. /\ call'[c].pc = "done" /\ call'[c].answer = "IDEMPOTENT_REPLAY"
      /\ call'[c].comment = Row(c).comment /\ KeepsCommand(c)
  BY <1>2, AnswerReplayIs DEF GatewayInv
<1>4. KeyOf(c)' = KeyOf(c) /\ Payload(c)' = Payload(c) /\ call'[c].cmd \in Commands
  BY <1>3, KeyStays DEF KeepsCommand
<1>5. /\ Row(c).comment \in DOMAIN ledger
      /\ PayloadOf(ledger[Row(c).comment]) = Payload(c)
  BY <1>1 DEF GatewayInv, ReceiptNamesItsComment
<1>6. KnowsComment(c)'
  BY <1>3, <1>4, <1>5 DEF KnowsComment, PayloadOf
<1>7. call'[c].comment <= Len(ledger)
  BY <1>3, <1>5 DEF GatewayInv, GatewayTypes
<1> QED
  BY <1>3, <1>4, <1>6, <1>7 DEF CallKnows, HasCommand, KnowsReceipt, KnowsConflict,
              HoldsLease, KnowsSupport, KnowsLinks

LEMMA RaisedKnows ==
    ASSUME GatewayInv, NEW c \in Calls, NEW e \in Errors, Raise(c, e),
           call[c].pc \notin {"idle", "done"},
           e = "STATE_CONFLICT" => (IsWritten(KeyOf(c)) \/ HasDuplicates(ledger)),
           Grows
    PROVE  CallKnows(c)'
<1>1. /\ call'[c].pc = "fail" /\ call'[c].result = e /\ KeepsCommand(c)
      /\ call'[c].answer = call[c].answer
  BY RaiseIs DEF GatewayInv
<1>2. KeyOf(c)' = KeyOf(c) /\ call'[c].cmd = call[c].cmd
  BY <1>1, KeyStays DEF KeepsCommand
<1>3. call[c].cmd \in Commands /\ call[c].answer = "none"
  BY DEF GatewayInv, CallKnows, HasCommand
<1>4. "none" \notin Settled
  BY DEF Settled
<1>5. KnowsConflict(c)'
  <2>1. IsWritten(KeyOf(c)) => IsWritten(KeyOf(c))'
    BY <1>2, WrittenStays DEF GatewayInv
  <2>2. HasDuplicates(ledger) => HasDuplicates(ledger)'
    BY WrittenStays DEF GatewayInv
  <2> QED
    BY <1>1, <1>3, <2>1, <2>2 DEF KnowsConflict
<1> QED
  BY <1>1, <1>2, <1>3, <1>4, <1>5 DEF CallKnows, HasCommand, KnowsReceipt, KnowsComment,
              HoldsLease, KnowsSupport, KnowsLinks

LEMMA DeadKnows ==
    ASSUME GatewayInv, NEW c \in Calls, Goto(c, "dead"), call[c].pc \notin {"idle", "done"}
    PROVE  CallKnows(c)'
<1>1. /\ call'[c].pc = "dead" /\ KeepsCommand(c) /\ call'[c].answer = call[c].answer
  BY GotoIs DEF GatewayInv, Stages
<1>2. call'[c].cmd \in Commands /\ call'[c].answer = "none"
  BY <1>1 DEF GatewayInv, CallKnows, HasCommand, KeepsCommand
<1>3. "none" \notin Settled
  BY DEF Settled
<1> QED
  BY <1>1, <1>2, <1>3 DEF CallKnows, HasCommand, KnowsReceipt, KnowsComment, KnowsConflict,
              HoldsLease, KnowsSupport, KnowsLinks

------------------------------------------------------------------------------
(* Steps that end a call, or its attempt, and change nothing else *)

LEMMA FaultBound ==
    ASSUME GatewayInv, Fault \/ NoFault
    PROVE  faults' \in 0..MaxFaults
BY GatewayAssumption DEF GatewayInv, GatewayTypes, Fault, NoFault

LEMMA EarlyStages == {"done", "fail", "dead", "settle", "confirm", "read", "post", "readback"}
                        \cap Early = {}
BY DEF Early

(* The answers that say neither persisted nor conflict.                      *)
LEMMA PlainAnswers ==
    {"ERROR", "STATE_CHAIN_MISMATCH", "STATE_VALIDATION_FAILED", "STATE_UNAVAILABLE",
     "STATE_READBACK_FAILED"} \cup LedgerErrors
        \subseteq Answers \ (Settled \cup {"none", "STATE_CONFLICT"})
BY DEF Answers, Errors, Settled, LedgerErrors

LEMMA QuietAnswer ==
    ASSUME GatewayInv, NEW c \in Calls,
           NEW a \in Answers \ (Settled \cup {"none", "STATE_CONFLICT"}), Answer(c, a),
           UNCHANGED <<receipts, ledger, clock, takenOver>>, Fault \/ NoFault
    PROVE  GatewayInv'
<1>1. CallKnows(c)' /\ faults' \in 0..MaxFaults
  BY AnsweredKnows, FaultBound
<1>2. /\ OnlyRecord(c) /\ KeepsCommand(c) /\ call'[c].pc = "done"
      /\ call'[c].comment = call[c].comment
  BY AnswerIs DEF GatewayInv
<1>3. call[c].comment <= Len(ledger)
  BY DEF GatewayInv, CallBounds
<1> QED
  BY <1>1, <1>2, <1>3, EarlyStages, QuietRecord

LEMMA QuietConflict ==
    ASSUME GatewayInv, NEW c \in Calls, Answer(c, "STATE_CONFLICT"),
           call[c].cmd \in Commands,
           \/ Row(c).status # "ABSENT" /\ Row(c).sha # Payload(c)
           \/ IsWritten(KeyOf(c)) \/ HasDuplicates(ledger),
           UNCHANGED <<receipts, ledger, clock, takenOver>>, Fault \/ NoFault
    PROVE  GatewayInv'
<1>1. CallKnows(c)' /\ faults' \in 0..MaxFaults
  BY ConflictKnows, FaultBound, KeepingGrows DEF GatewayInv
<1>2. /\ OnlyRecord(c) /\ KeepsCommand(c) /\ call'[c].pc = "done"
      /\ call'[c].comment = call[c].comment
  BY AnswerIs DEF GatewayInv, Answers, Errors
<1>3. call[c].comment <= Len(ledger)
  BY DEF GatewayInv, CallBounds
<1> QED
  BY <1>1, <1>2, <1>3, EarlyStages, QuietRecord

LEMMA QuietReplay ==
    ASSUME GatewayInv, NEW c \in Calls, AnswerReplay(c, Row(c)),
           call[c].cmd \in Commands,
           Row(c).status \in Settled, Row(c).sha = Payload(c),
           UNCHANGED <<receipts, ledger, clock, takenOver>>, Fault \/ NoFault
    PROVE  GatewayInv'
<1>1. CallKnows(c)' /\ faults' \in 0..MaxFaults /\ call'[c].comment <= Len(ledger)
  BY ReplayKnows, FaultBound
<1>2. Row(c).comment \in Nat
  BY KeyInKeys DEF GatewayInv, GatewayTypes, ReceiptType, Row
<1>3. OnlyRecord(c) /\ KeepsCommand(c) /\ call'[c].pc = "done"
  BY <1>2, AnswerReplayIs DEF GatewayInv
<1> QED
  BY <1>1, <1>3, EarlyStages, QuietRecord

LEMMA QuietRaise ==
    ASSUME GatewayInv, NEW c \in Calls, NEW e \in Errors, Raise(c, e),
           call[c].pc \notin {"idle", "done"},
           e = "STATE_CONFLICT" => (IsWritten(KeyOf(c)) \/ HasDuplicates(ledger)),
           UNCHANGED <<receipts, ledger, clock, takenOver>>, Fault \/ NoFault
    PROVE  GatewayInv'
<1>1. CallKnows(c)' /\ faults' \in 0..MaxFaults
  BY RaisedKnows, FaultBound, KeepingGrows DEF GatewayInv
<1>2. /\ OnlyRecord(c) /\ KeepsCommand(c) /\ call'[c].pc = "fail"
      /\ call'[c].comment = call[c].comment
  BY RaiseIs DEF GatewayInv
<1>3. call[c].comment <= Len(ledger)
  BY DEF GatewayInv, CallBounds
<1> QED
  BY <1>1, <1>2, <1>3, EarlyStages, QuietRecord

(* A call that goes on to its next await.                                    *)
LEMMA QuietGoto ==
    ASSUME GatewayInv, NEW c \in Calls, NEW next \in Stages, Goto(c, next),
           call[c].pc \notin Early => next \notin Early,
           UNCHANGED <<receipts, ledger, clock, takenOver>>, Fault \/ NoFault,
           CallKnows(c)'
    PROVE  GatewayInv'
<1>1. /\ OnlyRecord(c) /\ KeepsCommand(c) /\ call'[c].pc = next
      /\ call'[c].comment = call[c].comment
  BY GotoIs DEF GatewayInv
<1>2. call[c].comment <= Len(ledger) /\ faults' \in 0..MaxFaults
  BY FaultBound DEF GatewayInv, CallBounds
<1> QED
  BY <1>1, <1>2, QuietRecord

(* What remains to be known by a call that goes on.                          *)
LEMMA GotoKnows ==
    ASSUME GatewayInv, NEW c \in Calls,
           NEW next \in Stages \ {"idle", "done", "build", "readback", "settle", "fail"}, Goto(c, next),
           call[c].pc \notin {"idle", "done"},
           KnowsReceipt(c)', HoldsLease(c)', KnowsSupport(c)', KnowsLinks(c)'
    PROVE  CallKnows(c)'
<1>1. /\ call'[c].pc = next /\ KeepsCommand(c) /\ call'[c].answer = call[c].answer
  BY GotoIs DEF GatewayInv
<1>2. call'[c].cmd \in Commands /\ call'[c].answer = "none"
  BY <1>1 DEF GatewayInv, CallKnows, HasCommand, KeepsCommand
<1>3. "none" \notin Settled
  BY DEF Settled
<1> QED
  BY <1>1, <1>2, <1>3 DEF CallKnows, HasCommand, KnowsComment, KnowsConflict

------------------------------------------------------------------------------
(* Submit and the reads in front of appendStateBatch *)

FirstStage(cmd) ==
    CASE cmd.channel = "MARKET" -> "build"
      [] cmd.channel = "CLOSE" -> "closeThesis"
      [] OTHER -> "insert"

(* A call that begins knows nothing yet.                                     *)
LEMMA BegunKnows ==
    ASSUME GatewayInv, NEW c \in Calls, NEW cmd \in Commands,
           call[c].pc \in {"idle", "build"}, call'[c].cmd = cmd,
           call'[c].answer = call[c].answer,
           \/ call'[c].pc = "build" /\ cmd.channel = "MARKET"
           \/ call'[c].pc = "closeThesis"
           \/ call'[c].pc = "insert" /\ cmd.channel # "CLOSE"
    PROVE  CallKnows(c)'
<1>1. call'[c].answer = "none"
  BY DEF GatewayInv, CallKnows, HasCommand
<1>2. "none" \notin Settled
  BY DEF Settled
<1> QED
  BY <1>1, <1>2 DEF CallKnows, HasCommand, KnowsReceipt, KnowsComment, KnowsConflict,
                    HoldsLease, KnowsSupport, KnowsLinks

LEMMA BeginStep ==
    ASSUME GatewayInv, NEW c \in Calls, NEW cmd \in Commands, call[c].pc = "idle",
           call' = [call EXCEPT ![c].cmd = cmd, ![c].now = clock, ![c].pc = FirstStage(cmd)],
           UNCHANGED <<receipts, ledger, clock, takenOver>>, Fault \/ NoFault
    PROVE  GatewayInv'
<1> DEFINE new == [call[c] EXCEPT !.cmd = cmd, !.now = clock, !.pc = FirstStage(cmd)]
<1>1. call[c] \in CallType /\ clock \in Nat
  BY GatewayAssumption DEF GatewayInv, GatewayTypes
<1>2. /\ FirstStage(cmd) \in {"build", "closeThesis", "insert"}
      /\ FirstStage(cmd) = "insert" => cmd.channel # "CLOSE"
      /\ FirstStage(cmd) = "build" => cmd.channel = "MARKET"
  BY DEF FirstStage
<1>3. new \in CallType
  BY <1>1, <1>2 DEF CallType, Stages
<1>4. /\ new.pc = FirstStage(cmd) /\ new.cmd = cmd /\ new.now = clock
      /\ new.prev = call[c].prev /\ new.preopen = call[c].preopen
      /\ new.comment = call[c].comment /\ new.answer = call[c].answer
  BY <1>1 DEF CallType
<1>9. call' = [call EXCEPT ![c] = new]
  OBVIOUS
<1> HIDE DEF new
<1>5. OnlyRecord(c) /\ call'[c] = new
  BY <1>3, <1>9, RecordIs DEF OnlyRecord, GatewayInv
<1>6. CallBounds(c)'
  BY <1>1, <1>4, <1>5 DEF GatewayInv, CallBounds
<1>7. CallKnows(c)'
  BY <1>2, <1>4, <1>5, BegunKnows
<1> QED
  BY <1>5, <1>6, <1>7, FaultBound, QuietStep DEF OnlyRecord, Early

LEMMA SubmitStep ==
    ASSUME GatewayInv, NEW c \in Calls, NEW cmd \in Commands, Submit(c, cmd)
    PROVE  GatewayInv'
<1>1. call[c].pc = "idle" /\ UNCHANGED <<receipts, ledger, clock, takenOver>> /\ NoFault
  BY DEF Submit, NoFault
<1>2. CASE call' = [call EXCEPT ![c].cmd = cmd, ![c].now = clock, ![c].pc = FirstStage(cmd)]
  BY <1>1, <1>2, BeginStep
<1>3. ASSUME cmd.channel = "MARKET", NEW prev \in DayLinks(cmd.date),
             NEW preopen \in DayLinks(cmd.date),
             call' = [call EXCEPT ![c].cmd = cmd, ![c].now = clock, ![c].prev = prev,
                                  ![c].preopen = preopen, ![c].pc = "insert"]
      PROVE  GatewayInv'
  <2> DEFINE new == [call[c] EXCEPT !.cmd = cmd, !.now = clock, !.prev = prev,
                                    !.preopen = preopen, !.pc = "insert"]
  <2>1. call[c] \in CallType /\ clock \in Nat /\ Len(ledger) \in Nat
    BY GatewayAssumption DEF GatewayInv, GatewayTypes
  <2>2. DayLinks(cmd.date) \subseteq 0..Len(ledger)
    BY DEF DayLinks, Checkpoints, ChannelPositions, NoComment, GatewayInv, GatewayTypes
  <2>3. prev \in Nat /\ preopen \in Nat /\ prev <= Len(ledger) /\ preopen <= Len(ledger)
    BY <2>1, <2>2
  <2>4. new \in CallType
    BY <2>1, <2>3 DEF CallType, Stages
  <2>5. /\ new.pc = "insert" /\ new.cmd = cmd /\ new.now = clock
        /\ new.prev = prev /\ new.preopen = preopen
        /\ new.comment = call[c].comment /\ new.answer = call[c].answer
    BY <2>1 DEF CallType
  <2>9. call' = [call EXCEPT ![c] = new]
    BY <1>3
  <2> HIDE DEF new
  <2>6. OnlyRecord(c) /\ call'[c] = new
    BY <2>4, <2>9, RecordIs DEF OnlyRecord, GatewayInv
  <2>7. CallBounds(c)'
    BY <1>1, <2>1, <2>3, <2>5, <2>6 DEF GatewayInv, CallBounds
  <2>8. CallKnows(c)'
    BY <1>1, <1>3, <2>5, <2>6, BegunKnows
  <2> QED
    BY <1>1, <2>6, <2>7, <2>8, FaultBound, QuietStep DEF OnlyRecord, Early
<1> QED
  BY <1>2, <1>3 DEF Submit, FirstStage

LEMMA BuildMarketStep ==
    ASSUME GatewayInv, NEW c \in Calls, BuildMarket(c)
    PROVE  GatewayInv'
<1>1. call[c].pc = "build" /\ UNCHANGED <<receipts, ledger, clock, takenOver>>
      /\ (Fault \/ NoFault) /\ call[c].cmd \in Commands
  BY DEF BuildMarket, GatewayInv, CallKnows, HasCommand
<1>2. CASE HasDuplicates(ledger) /\ Answer(c, "STATE_CONFLICT")
  BY <1>1, <1>2, QuietConflict
<1>3. CASE Answer(c, "ERROR")
  BY <1>1, <1>3, PlainAnswers, QuietAnswer
<1>4. CASE call' = [call EXCEPT ![c].pc = "insert", ![c].now = clock,
                        ![c].prev = PreviousCheckpoint(ledger, call[c].cmd),
                        ![c].preopen = ExpectedPreopen(ledger, call[c].cmd)]
  <2> DEFINE prev == PreviousCheckpoint(ledger, call[c].cmd)
             preopen == ExpectedPreopen(ledger, call[c].cmd)
             new == [call[c] EXCEPT !.pc = "insert", !.now = clock, !.prev = prev,
                                    !.preopen = preopen]
  <2>1. call[c] \in CallType /\ clock \in Nat /\ ledger \in Seq(CommentType)
    BY GatewayAssumption DEF GatewayInv, GatewayTypes
  <2>2. call[c].cmd \in CommandType
    BY <1>1, CommandsTyped
  <2>3. /\ prev \in Nat /\ prev <= Len(ledger)
        /\ preopen \in Nat /\ preopen <= Len(ledger)
    <3>1. prev \in 0..Len(ledger) /\ preopen \in 0..Len(ledger) /\ Len(ledger) \in Nat
      BY <2>1, <2>2, PreviousCheckpointIs, ExpectedPreopenIs
    <3> HIDE DEF prev, preopen
    <3> QED BY <3>1
  <2> HIDE DEF prev, preopen
  <2>4. /\ new \in CallType /\ new.pc = "insert" /\ new.cmd = call[c].cmd /\ new.now = clock
        /\ new.prev = prev /\ new.preopen = preopen
        /\ new.comment = call[c].comment /\ new.answer = call[c].answer
    BY <2>1, <2>3 DEF CallType, Stages
  <2>5. call' = [call EXCEPT ![c] = new]
    BY <1>4 DEF prev, preopen
  <2> HIDE DEF new
  <2>6. OnlyRecord(c) /\ call'[c] = new
    BY <2>4, <2>5, RecordIs DEF OnlyRecord, GatewayInv
  <2>7. CallBounds(c)'
    BY <1>1, <2>1, <2>3, <2>4, <2>6 DEF GatewayInv, CallBounds
  <2>8. call[c].cmd.channel = "MARKET"
    BY <1>1 DEF GatewayInv, CallKnows, HasCommand
  <2>9. CallKnows(c)'
    BY <1>1, <2>4, <2>6, <2>8, BegunKnows
  <2> QED
    BY <1>1, <2>6, <2>7, <2>9, FaultBound, QuietStep DEF OnlyRecord, Early
<1> QED
  BY <1>2, <1>3, <1>4 DEF BuildMarket

(* validateCloseDependencies reads the ledger as it is now.                  *)
LEMMA ReadsNow ==
    ASSUME GatewayTypes
    PROVE  Len(ledger) \in 0..Len(ledger) /\ Prefix(ledger, Len(ledger)) = ledger
BY SubSeqFull DEF GatewayTypes, Prefix

LEMMA CheckThesisStep ==
    ASSUME GatewayInv, NEW c \in Calls, CheckThesis(c)
    PROVE  GatewayInv'
<1>1. call[c].pc = "closeThesis" /\ UNCHANGED <<receipts, ledger, clock, takenOver>>
      /\ (Fault \/ NoFault)
  BY DEF CheckThesis
<1>2. ASSUME NEW a \in LedgerErrors \cup {"STATE_CHAIN_MISMATCH"}, Answer(c, a)
      PROVE  GatewayInv'
  BY <1>1, <1>2, PlainAnswers, QuietAnswer
<1>3. ASSUME ThesisSupports(ledger, call[c].cmd.body), NEW next,
             next = IF NeedsMarket(call[c].cmd.body) THEN "closeMarket" ELSE "insert",
             Goto(c, next)
      PROVE  GatewayInv'
  <2>1. next \in {"closeMarket", "insert"} /\ (next = "insert" => ~NeedsMarket(call[c].cmd.body))
    BY <1>3
  <2>2. call'[c].pc = next /\ call'[c].cmd = call[c].cmd
    BY <1>3, <2>1, GotoIs DEF GatewayInv, Stages, KeepsCommand
  <2>3. KnowsSupport(c)'
    <3>1. \E n \in 0..Len(ledger) : ThesisSupports(Prefix(ledger, n), call[c].cmd.body)
      BY <1>3, ReadsNow DEF GatewayInv
    <3> QED
      BY <1>1, <2>1, <2>2, <3>1 DEF KnowsSupport, Prefix
  <2>4. KnowsReceipt(c)' /\ HoldsLease(c)' /\ KnowsLinks(c)'
    BY <2>1, <2>2 DEF KnowsReceipt, HoldsLease, KnowsLinks
  <2>5. CallKnows(c)'
    BY <1>1, <1>3, <2>1, <2>3, <2>4, GotoKnows DEF Stages
  <2> QED
    BY <1>1, <1>3, <2>1, <2>5, QuietGoto DEF Stages, Early
<1> QED
  BY <1>1, <1>2, <1>3 DEF CheckThesis

LEMMA CheckMarketStep ==
    ASSUME GatewayInv, NEW c \in Calls, CheckMarket(c)
    PROVE  GatewayInv'
<1>1. call[c].pc = "closeMarket" /\ UNCHANGED <<receipts, ledger, clock, takenOver>>
      /\ (Fault \/ NoFault)
  BY DEF CheckMarket
<1>2. ASSUME NEW a \in LedgerErrors \cup {"STATE_CHAIN_MISMATCH"}, Answer(c, a)
      PROVE  GatewayInv'
  BY <1>1, <1>2, PlainAnswers, QuietAnswer
<1>3. ASSUME MarketSupports(ledger, call[c].cmd), Goto(c, "insert")
      PROVE  GatewayInv'
  <2>1. call'[c].pc = "insert" /\ call'[c].cmd = call[c].cmd
    BY <1>3, GotoIs DEF GatewayInv, Stages, KeepsCommand
  <2>2. KnowsSupport(c)'
    <3>1. \E n \in 0..Len(ledger) : MarketSupports(Prefix(ledger, n), call[c].cmd)
      BY <1>3, ReadsNow DEF GatewayInv
    <3>2. call[c].cmd.channel = "CLOSE" =>
             \E n \in 0..Len(ledger) : ThesisSupports(Prefix(ledger, n), call[c].cmd.body)
      BY <1>1 DEF GatewayInv, CallKnows, KnowsSupport
    <3> QED
      BY <1>1, <2>1, <3>1, <3>2 DEF KnowsSupport, Prefix
  <2>3. KnowsReceipt(c)' /\ HoldsLease(c)' /\ KnowsLinks(c)'
    BY <2>1 DEF KnowsReceipt, HoldsLease, KnowsLinks
  <2>4. CallKnows(c)'
    BY <1>1, <1>3, <2>2, <2>3, GotoKnows DEF Stages
  <2> QED
    BY <1>1, <1>3, <2>4, QuietGoto DEF Stages, Early
<1> QED
  BY <1>1, <1>2, <1>3 DEF CheckMarket

------------------------------------------------------------------------------
(* reserveStateWrite *)

LEMMA PayloadTyped ==
    ASSUME GatewayTypes, NEW c \in Calls, call[c].cmd \in Commands
    PROVE  Payload(c) \in PayloadType
<1>1. Identity(call[c].cmd) \in Keys /\ call[c].prev \in Nat /\ call[c].preopen \in Nat
  BY CommandsTyped DEF GatewayTypes, CallType
<1>2. CASE call[c].cmd.channel # "MARKET" /\ call[c].cmd.id = "CMD"
  BY <1>1, <1>2 DEF Payload, PayloadType, NoComment
<1>3. CASE ~(call[c].cmd.channel # "MARKET" /\ call[c].cmd.id = "CMD")
  <2>1. Payload(c) = [cmd |-> call[c].cmd, prev |-> call[c].prev, preopen |-> call[c].preopen]
    BY <1>3 DEF Payload
  <2> QED
    BY <1>1, <2>1 DEF PayloadType
<1> QED
  BY <1>2, <1>3

(* A step of c that replaces one receipt, writes no comment and keeps the    *)
(* receipt true to the ledger.                                               *)
LEMMA RowStep ==
    ASSUME GatewayInv, NEW c \in Calls, NEW k \in Keys, NEW new \in ReceiptType,
           receipts' = [receipts EXCEPT ![k] = new], ledger' = ledger,
           takenOver \subseteq takenOver', takenOver' \subseteq Keys,
           receipts[k].status \notin Settled \cup {"CONFLICT"},
           receipts[k].status # "ABSENT" =>
              new.status # "ABSENT" /\ new.sha = receipts[k].sha,
           receipts[k].owner \in Calls \ {c} =>
              new.owner = receipts[k].owner \/ k \in takenOver',
           new.until <= MaxTime + LeaseTTL, new.comment <= Len(ledger),
           new.owner \in Calls => new.status = "PENDING",
           new.status = "CONFLICT" => IsWritten(k) \/ HasDuplicates(ledger),
           new.status \in Settled => /\ new.comment \in DOMAIN ledger
                                     /\ PayloadOf(ledger[new.comment]) = new.sha
    PROVE  /\ ReceiptsStep(c) /\ Grows
           /\ \A j \in Keys : ReceiptIsGood(j)'
           /\ \A j \in Keys \ {k} : receipts'[j] = receipts[j]
           /\ receipts'[k] = new
<1>1. Grows
  BY KeepingGrows DEF GatewayInv
<1>2. /\ receipts' \in [Keys -> ReceiptType] /\ receipts'[k] = new
      /\ \A j \in Keys \ {k} : receipts'[j] = receipts[j]
  BY DEF GatewayInv, GatewayTypes
<1>3. ReceiptsStep(c)
  <2>1. ASSUME NEW j \in Keys \ {k}
        PROVE  receipts'[j] = receipts[j]
    BY <1>2
  <2> QED
    BY <1>2, <2>1 DEF ReceiptsStep
<1>4. ReceiptIsGood(k)'
  BY <1>2 DEF ReceiptIsGood, ReceiptBounds, ReceiptKnows, IsWritten, PayloadOf
<1>5. \A j \in Keys \ {k} : ReceiptIsGood(j)'
  BY <1>1, <1>2, ReceiptStays
<1> QED
  BY <1>1, <1>2, <1>3, <1>4, <1>5

Inserted(c) ==
    IF Row(c).status # "ABSENT" THEN receipts
    ELSE [receipts EXCEPT ![KeyOf(c)].status = "PENDING", ![KeyOf(c)].sha = Payload(c)]

LEMMA InsertedRow ==
    ASSUME GatewayInv, NEW c \in Calls, call[c].cmd \in Commands,
           receipts' \in {receipts, Inserted(c)}, ledger' = ledger, takenOver' = takenOver
    PROVE  /\ ReceiptsStep(c) /\ Grows
           /\ \A j \in Keys : ReceiptIsGood(j)' /\ receipts'[j].attempts = receipts[j].attempts
           /\ receipts' = Inserted(c) => receipts'[KeyOf(c)].status # "ABSENT"
<1> DEFINE k == KeyOf(c)
           new == [receipts[k] EXCEPT !.status = "PENDING", !.sha = Payload(c)]
<1>1. k \in Keys /\ Row(c) = receipts[k] /\ receipts[k] \in ReceiptType
  BY KeyInKeys DEF GatewayInv, GatewayTypes, Row
<1>2. CASE receipts' = receipts
  <2>1. Grows
    BY KeepingGrows DEF GatewayInv
  <2>2. ReceiptsStep(c)
    BY <1>2 DEF ReceiptsStep, GatewayInv, GatewayTypes
  <2>3. \A j \in Keys : ReceiptIsGood(j)'
    BY <1>2, <2>1, ReceiptStays
  <2>4. receipts' = Inserted(c) => receipts'[k].status # "ABSENT"
    <3>1. CASE Row(c).status # "ABSENT"
      BY <1>1, <1>2, <3>1
    <3>2. CASE Row(c).status = "ABSENT"
      <4>1. Inserted(c)[k].status = "PENDING"
        BY <1>1, <3>2 DEF Inserted, GatewayInv, GatewayTypes, ReceiptType
      <4> QED
        BY <4>1
    <3> QED
      BY <3>1, <3>2
  <2> QED
    BY <1>2, <2>1, <2>2, <2>3, <2>4
<1>3. CASE receipts' # receipts
  <2>1. Row(c).status = "ABSENT"
    BY <1>3 DEF Inserted
  <2>2. /\ new \in ReceiptType /\ new.status = "PENDING"
        /\ new.owner = receipts[k].owner /\ new.until = receipts[k].until
        /\ new.comment = receipts[k].comment /\ new.attempts = receipts[k].attempts
    BY <1>1, PayloadTyped DEF GatewayInv, ReceiptType, Statuses
  <2>3. receipts' = [receipts EXCEPT ![k] = new]
    BY <1>3, <2>1 DEF Inserted
  <2>4. ReceiptBounds(k) /\ ReceiptKnows(k)
    BY <1>1 DEF GatewayInv
  <2>5. "PENDING" \notin Settled /\ "ABSENT" \notin Settled
    BY DEF Settled
  <2>7. new.until <= MaxTime + LeaseTTL /\ new.comment <= Len(ledger)
    BY <2>2, <2>4 DEF ReceiptBounds
  <2>8. takenOver \subseteq takenOver' /\ takenOver' \subseteq Keys
    BY DEF GatewayInv, GatewayTypes
  <2>9. receipts[k].status = "ABSENT"
    BY <1>1, <2>1
  <2> HIDE DEF k, new
  <2>10. k \in Keys /\ new \in ReceiptType /\ receipts' = [receipts EXCEPT ![k] = new]
    BY <1>1, <2>2, <2>3
  <2>11. receipts[k].status \notin Settled \cup {"CONFLICT"}
    BY <2>5, <2>9
  <2>12. receipts[k].owner \in Calls \ {c} =>
              new.owner = receipts[k].owner \/ k \in takenOver'
    BY <2>2
  <2>13. /\ new.owner \in Calls => new.status = "PENDING"
         /\ new.status = "CONFLICT" => IsWritten(k) \/ HasDuplicates(ledger)
         /\ new.status \in Settled => /\ new.comment \in DOMAIN ledger
                                       /\ PayloadOf(ledger[new.comment]) = new.sha
    BY <2>2, <2>5
  <2>6. /\ ReceiptsStep(c) /\ Grows
        /\ \A j \in Keys : ReceiptIsGood(j)'
        /\ \A j \in Keys \ {k} : receipts'[j] = receipts[j]
        /\ receipts'[k] = new
    BY <2>7, <2>8, <2>9, <2>10, <2>11, <2>12, <2>13, RowStep
  <2> QED
    BY <1>1, <2>2, <2>6 DEF k
<1> QED
  BY <1>2, <1>3

LEMMA InsertStep ==
    ASSUME GatewayInv, NEW c \in Calls, Insert(c)
    PROVE  GatewayInv'
<1>1. /\ call[c].pc = "insert" /\ UNCHANGED <<ledger, clock, takenOver>>
      /\ Fault \/ NoFault
      /\ call[c].cmd \in Commands
  BY DEF Insert, GatewayInv, CallKnows, HasCommand
<1>2. receipts' \in {receipts, Inserted(c)}
  BY DEF Insert, Inserted
<1>3. /\ ReceiptsStep(c) /\ Grows
      /\ \A j \in Keys : ReceiptIsGood(j)' /\ receipts'[j].attempts = receipts[j].attempts
      /\ receipts' = Inserted(c) => receipts'[KeyOf(c)].status # "ABSENT"
  BY <1>1, <1>2, InsertedRow
<1>4. faults' \in 0..MaxFaults
  BY <1>1, FaultBound
<1>5. CASE Answer(c, "ERROR")
  <2>1. CallKnows(c)'
    BY <1>5, PlainAnswers, AnsweredKnows
  <2>2. OnlyRecord(c) /\ KeepsCommand(c) /\ call'[c].comment = call[c].comment
        /\ call'[c].pc = "done"
    BY <1>5, PlainAnswers, AnswerIs DEF GatewayInv
  <2>3. CallBounds(c)'
    BY <1>1, <2>2 DEF GatewayInv, CallBounds, KeepsCommand
  <2>4. StepOf(c)
    BY <1>1, <1>3, <2>2 DEF StepOf, OnlyRecord
  <2> QED
    BY <1>1, <1>3, <1>4, <2>1, <2>3, <2>4, StepKeeps DEF Early
<1>6. CASE receipts' = Inserted(c) /\ Goto(c, "inspect")
  <2>1. OnlyRecord(c) /\ KeepsCommand(c) /\ call'[c].comment = call[c].comment
        /\ call'[c].pc = "inspect"
    BY <1>6, GotoIs DEF GatewayInv, Stages
  <2>2. KeyOf(c)' = KeyOf(c) /\ Row(c)' = receipts'[KeyOf(c)]
    BY <2>1, KeyStays DEF Row
  <2>3. KnowsReceipt(c)'
    BY <1>3, <1>6, <2>1, <2>2 DEF KnowsReceipt
  <2>4. KnowsSupport(c)'
    BY <1>1, <2>1 DEF GatewayInv, CallKnows, KnowsSupport, KeepsCommand, Prefix
  <2>5. HoldsLease(c)' /\ KnowsLinks(c)'
    BY <2>1 DEF HoldsLease, KnowsLinks
  <2>6. CallKnows(c)'
    BY <1>1, <1>6, <2>3, <2>4, <2>5, GotoKnows DEF Stages
  <2>7. CallBounds(c)'
    BY <1>1, <2>1 DEF GatewayInv, CallBounds, KeepsCommand
  <2>8. StepOf(c)
    BY <1>1, <1>3, <2>1 DEF StepOf, OnlyRecord
  <2> QED
    BY <1>1, <1>3, <1>4, <2>6, <2>7, <2>8, StepKeeps DEF Early
<1> QED
  BY <1>1, <1>5, <1>6 DEF Insert, Inserted

LEMMA InspectStep ==
    ASSUME GatewayInv, NEW c \in Calls, Inspect(c)
    PROVE  GatewayInv'
<1>1. /\ call[c].pc = "inspect" /\ UNCHANGED <<receipts, ledger, clock, takenOver>>
      /\ Fault \/ NoFault
      /\ call[c].cmd \in Commands /\ Row(c).status # "ABSENT"
  BY DEF Inspect, GatewayInv, CallKnows, HasCommand, KnowsReceipt
<1>2. CASE Row(c).sha # Payload(c) /\ Answer(c, "STATE_CONFLICT")
  BY <1>1, <1>2, QuietConflict
<1>3. CASE Row(c).sha = Payload(c) /\ Row(c).status \in Settled /\ AnswerReplay(c, Row(c))
  BY <1>1, <1>3, QuietReplay
<1>4. CASE Answer(c, "ERROR")
  BY <1>1, <1>4, PlainAnswers, QuietAnswer
<1>5. CASE Row(c).sha = Payload(c) /\ Goto(c, "acquire")
  <2>1. call'[c].pc = "acquire" /\ KeepsCommand(c)
    BY <1>5, GotoIs DEF GatewayInv, Stages
  <2>2. Payload(c)' = Payload(c) /\ Row(c)' = Row(c)
    BY <1>1, <2>1, KeyStays DEF Row
  <2>3. KnowsReceipt(c)'
    BY <1>1, <1>5, <2>1, <2>2 DEF KnowsReceipt
  <2>4. KnowsSupport(c)'
    BY <1>1, <2>1 DEF GatewayInv, CallKnows, KnowsSupport, KeepsCommand, Prefix
  <2>5. HoldsLease(c)' /\ KnowsLinks(c)'
    BY <2>1 DEF HoldsLease, KnowsLinks
  <2>6. CallKnows(c)'
    BY <1>1, <1>5, <2>3, <2>4, <2>5, GotoKnows DEF Stages
  <2> QED
    BY <1>1, <1>5, <2>6, QuietGoto DEF Stages, Early
<1> QED
  BY <1>2, <1>3, <1>4, <1>5 DEF Inspect

(* The lease that a call takes: free, its own, or lapsed and then taken over. *)
LeaseOf(row, c, until) ==
    [row EXCEPT !.status = "PENDING", !.attempts = @ + 1, !.owner = c, !.until = until]

LEMMA LeaseIs ==
    ASSUME NEW row \in ReceiptType, NEW c \in Calls, NEW until \in Nat, NEW new,
           new = LeaseOf(row, c, until)
    PROVE  /\ new \in ReceiptType /\ new.status = "PENDING" /\ new.owner = c
           /\ new.until = until /\ new.sha = row.sha
           /\ new.comment = row.comment /\ new.attempts = row.attempts + 1
<1> DEFINE n == row.attempts + 1
<1>1. /\ row.sha \in PayloadType /\ n \in Nat /\ row.comment \in Nat
      /\ "PENDING" \in Statuses /\ c \in Calls \cup {NoCall}
  BY DEF ReceiptType, Statuses
<1>2. new = [row EXCEPT !.status = "PENDING", !.attempts = n, !.owner = c, !.until = until]
  BY DEF LeaseOf
<1> HIDE DEF n
<1>3. new = [status |-> "PENDING", sha |-> row.sha, owner |-> c, until |-> until,
             attempts |-> n, comment |-> row.comment]
  BY <1>2 DEF ReceiptType
<1>4. new \in ReceiptType
  BY <1>1, <1>3 DEF ReceiptType
<1> QED
  BY <1>3, <1>4 DEF n

LEMMA LeasedRow ==
    ASSUME GatewayInv, NEW c \in Calls, call[c].pc = "acquire", MayAcquire(c),
           receipts' = [receipts EXCEPT ![KeyOf(c)] = Lease(c)], ledger' = ledger,
           takenOver' = IF Row(c).owner \in {NoCall, c} THEN takenOver
                        ELSE takenOver \cup {KeyOf(c)}
    PROVE  /\ ReceiptsStep(c) /\ Grows
           /\ \A j \in Keys : ReceiptIsGood(j)'
           /\ \A j \in Keys \ {KeyOf(c)} : receipts'[j] = receipts[j]
           /\ receipts'[KeyOf(c)].attempts = receipts[KeyOf(c)].attempts + 1
<1> DEFINE k == KeyOf(c)
           new == Lease(c)
<1>1. call[c].cmd \in Commands /\ Row(c).status # "ABSENT"
  BY DEF GatewayInv, CallKnows, HasCommand, KnowsReceipt
<1>2. k \in Keys /\ Row(c) = receipts[k] /\ receipts[k] \in ReceiptType
  BY <1>1, KeyInKeys DEF GatewayInv, GatewayTypes, Row
<1>3. /\ call[c].now \in Nat /\ call[c].now <= MaxTime /\ call[c].now + LeaseTTL \in Nat
      /\ call[c].now + LeaseTTL <= MaxTime + LeaseTTL
  <2>1. call[c].now \in Nat /\ call[c].now <= clock /\ clock \in 0..MaxTime
    BY DEF GatewayInv, GatewayTypes, CallType, CallBounds
  <2> QED
    BY <2>1, GatewayAssumption
<1>4. /\ new \in ReceiptType /\ new.status = "PENDING" /\ new.owner = c
      /\ new.until = call[c].now + LeaseTTL /\ new.sha = receipts[k].sha
      /\ new.comment = receipts[k].comment /\ new.attempts = receipts[k].attempts + 1
  <2>1. new = LeaseOf(receipts[k], c, call[c].now + LeaseTTL)
    BY <1>2 DEF Lease, LeaseOf
  <2> HIDE DEF new, k
  <2> QED
    BY <1>2, <1>3, <2>1, LeaseIs
<1>5. receipts[k].comment <= Len(ledger)
  BY <1>2 DEF GatewayInv, ReceiptBounds
<1>6. takenOver \subseteq takenOver' /\ takenOver' \subseteq Keys
  BY <1>2 DEF GatewayInv, GatewayTypes
<1>7. receipts[k].owner \in Calls \ {c} => k \in takenOver'
  BY <1>2, GatewayAssumption
<1>8. receipts[k].status \notin Settled \cup {"CONFLICT"}
  BY <1>2 DEF MayAcquire
<1>9. "PENDING" \notin Settled /\ receipts' = [receipts EXCEPT ![k] = new]
  BY DEF Settled
<1>10. receipts[k].status # "ABSENT" => new.status # "ABSENT" /\ new.sha = receipts[k].sha
  BY <1>4
<1> HIDE DEF k, new
<1>11. /\ new.until <= MaxTime + LeaseTTL /\ new.comment <= Len(ledger)
       /\ new.owner \in Calls => new.status = "PENDING"
       /\ new.status = "CONFLICT" => IsWritten(k) \/ HasDuplicates(ledger)
       /\ new.status \in Settled => /\ new.comment \in DOMAIN ledger
                                    /\ PayloadOf(ledger[new.comment]) = new.sha
  BY <1>3, <1>4, <1>5, <1>9
<1>12. k \in Keys /\ new \in ReceiptType /\ receipts' = [receipts EXCEPT ![k] = new]
  BY <1>2, <1>4, <1>9
<1>14. /\ receipts[k].status \notin Settled \cup {"CONFLICT"}
       /\ receipts[k].owner \in Calls \ {c} =>
              new.owner = receipts[k].owner \/ k \in takenOver'
  BY <1>7, <1>8
<1>13. /\ ReceiptsStep(c) /\ Grows
       /\ \A j \in Keys : ReceiptIsGood(j)'
       /\ \A j \in Keys \ {k} : receipts'[j] = receipts[j]
       /\ receipts'[k] = new
  BY <1>6, <1>10, <1>11, <1>12, <1>14, RowStep
<1> QED
  BY <1>4, <1>13 DEF k

LEMMA AcquireStep ==
    ASSUME GatewayInv, NEW c \in Calls, Acquire(c)
    PROVE  GatewayInv'
<1>1. /\ call[c].pc = "acquire" /\ UNCHANGED <<ledger, clock>>
      /\ Fault \/ NoFault
      /\ call[c].cmd \in Commands /\ Row(c).status # "ABSENT" /\ Row(c).sha = Payload(c)
  BY DEF Acquire, GatewayInv, CallKnows, HasCommand, KnowsReceipt
<1>2. faults' \in 0..MaxFaults
  BY <1>1, FaultBound
<1>3. /\ Answer(c, "ERROR") \/ Goto(c, "confirm")
  BY DEF Acquire
<1>4. OnlyRecord(c) /\ KeepsCommand(c) /\ call'[c].comment = call[c].comment
      /\ call'[c].pc \in {"done", "confirm"}
  <2>1. CASE Answer(c, "ERROR")
    BY <2>1, PlainAnswers, AnswerIs DEF GatewayInv
  <2>2. CASE Goto(c, "confirm")
    BY <2>2, GotoIs DEF GatewayInv, Stages
  <2> QED
    BY <1>3, <2>1, <2>2
<1>5. CallBounds(c)'
  BY <1>1, <1>4 DEF GatewayInv, CallBounds, KeepsCommand
<1>6. KeyOf(c)' = KeyOf(c) /\ Payload(c)' = Payload(c) /\ Row(c)' = receipts'[KeyOf(c)]
  BY <1>4, KeyStays DEF Row
<1>7. KeyOf(c) \in Keys /\ Row(c) = receipts[KeyOf(c)]
  BY <1>1, KeyInKeys DEF GatewayInv, Row
<1>8. ASSUME ReceiptsStep(c) PROVE CallKnows(c)'
  <2>1. CASE Answer(c, "ERROR")
    BY <2>1, PlainAnswers, AnsweredKnows
  <2>2. CASE Goto(c, "confirm")
    <3>1. call'[c].pc = "confirm"
      BY <2>2, GotoIs DEF GatewayInv, Stages
    <3>2. KnowsReceipt(c)'
      BY <1>1, <1>6, <1>7, <1>8, <3>1 DEF KnowsReceipt, ReceiptsStep
    <3>3. KnowsSupport(c)'
      BY <1>1, <1>4, <3>1 DEF GatewayInv, CallKnows, KnowsSupport, KeepsCommand, Prefix
    <3>4. HoldsLease(c)' /\ KnowsLinks(c)'
      BY <3>1 DEF HoldsLease, KnowsLinks
    <3> QED
      BY <1>1, <2>2, <3>2, <3>3, <3>4, GotoKnows DEF Stages
  <2> QED
    BY <1>3, <2>1, <2>2
<1>9. CASE UNCHANGED <<receipts, takenOver>>
  <2>1. ReceiptsStep(c)
    BY <1>9 DEF ReceiptsStep, GatewayInv, GatewayTypes
  <2> QED
    BY <1>1, <1>2, <1>4, <1>5, <1>6, <1>8, <1>9, <2>1, QuietRecord DEF GatewayInv, CallBounds, Early
<1>10. CASE /\ MayAcquire(c)
            /\ receipts' = [receipts EXCEPT ![KeyOf(c)] = Lease(c)]
            /\ takenOver' = IF Row(c).owner \in {NoCall, c} THEN takenOver
                            ELSE takenOver \cup {KeyOf(c)}
  <2>1. /\ ReceiptsStep(c) /\ Grows
        /\ \A j \in Keys : ReceiptIsGood(j)'
        /\ \A j \in Keys \ {KeyOf(c)} : receipts'[j] = receipts[j]
        /\ receipts'[KeyOf(c)].attempts = receipts[KeyOf(c)].attempts + 1
    BY <1>1, <1>10, LeasedRow
  <2>2. StepOf(c)
    BY <1>1, <1>4, <2>1 DEF StepOf, OnlyRecord
  <2>3. CallKnows(c)'
    BY <1>8, <2>1
  <2>4. \A j \in Keys :
            \/ receipts'[j].attempts = receipts[j].attempts
            \/ /\ receipts'[j].attempts = receipts[j].attempts + 1
               /\ j = KeyOf(c)' /\ call[c].pc \in Early /\ call'[c].pc \notin Early
    BY <1>1, <1>4, <1>6, <2>1 DEF Early
  <2> QED
    BY <1>1, <1>2, <1>5, <2>1, <2>2, <2>3, <2>4, StepKeeps DEF Early
<1> QED
  BY <1>9, <1>10 DEF Acquire
LEMMA ConfirmStep ==
    ASSUME GatewayInv, NEW c \in Calls, Confirm(c)
    PROVE  GatewayInv'
<1>1. /\ call[c].pc = "confirm" /\ UNCHANGED <<receipts, ledger, clock, takenOver>>
      /\ Fault \/ NoFault
      /\ call[c].cmd \in Commands /\ Row(c).status # "ABSENT" /\ Row(c).sha = Payload(c)
  BY DEF Confirm, GatewayInv, CallKnows, HasCommand, KnowsReceipt
<1>2. KeyOf(c) \in Keys /\ Row(c) = receipts[KeyOf(c)]
  BY <1>1, KeyInKeys DEF GatewayInv, Row
<1>3. CASE Row(c).status = "CONFLICT" /\ Answer(c, "STATE_CONFLICT")
  <2>1. IsWritten(KeyOf(c)) \/ HasDuplicates(ledger)
    BY <1>2, <1>3 DEF GatewayInv, ReceiptKnows
  <2> QED
    BY <1>1, <1>3, <2>1, QuietConflict
<1>4. CASE Row(c).owner = c /\ Goto(c, "read")
  <2>1. call'[c].pc = "read" /\ KeepsCommand(c)
    BY <1>4, GotoIs DEF GatewayInv, Stages
  <2>2. Payload(c)' = Payload(c) /\ Row(c)' = Row(c)
    BY <1>1, <2>1, KeyStays DEF Row
  <2>3. KnowsReceipt(c)'
    BY <1>1, <2>1, <2>2 DEF KnowsReceipt
  <2>4. KnowsSupport(c)'
    BY <1>1, <2>1 DEF GatewayInv, CallKnows, KnowsSupport, KeepsCommand, Prefix
  <2>5. HoldsLease(c)' /\ KnowsLinks(c)'
    BY <1>4, <2>1, <2>2 DEF HoldsLease, KnowsLinks
  <2>6. CallKnows(c)'
    BY <1>1, <1>4, <2>3, <2>4, <2>5, GotoKnows DEF Stages
  <2> QED
    BY <1>1, <1>4, <2>6, QuietGoto DEF Stages, Early
<1>5. CASE Row(c).status \in Settled /\ AnswerReplay(c, Row(c))
  BY <1>1, <1>5, QuietReplay
<1>6. CASE Answer(c, "ERROR") \/ Answer(c, "STATE_UNAVAILABLE")
  BY <1>1, <1>6, PlainAnswers, QuietAnswer
<1> QED
  BY <1>3, <1>4, <1>5, <1>6 DEF Confirm

------------------------------------------------------------------------------
(* The reads of the ledger *)

LEMMA ReadFailsStep ==
    ASSUME GatewayInv, NEW c \in Calls, ReadFails(c), call[c].pc = "read",
           UNCHANGED <<receipts, ledger, clock, takenOver>>
    PROVE  GatewayInv'
<1>1. PICK e \in LedgerErrors : Raise(c, e)
  BY DEF ReadFails
<1>2. e \in Errors /\ e # "STATE_CONFLICT" /\ (Fault \/ NoFault)
  BY DEF Errors, LedgerErrors, ReadFails
<1> QED
  BY <1>1, <1>2, QuietRaise

(* A call that found its own batch in the ledger.                            *)
LEMMA FoundStep ==
    ASSUME GatewayInv, NEW c \in Calls, call[c].pc = "read",
           NEW i \in DOMAIN ledger, FoundAt(c, i), PayloadOf(ledger[i]) = Payload(c),
           UNCHANGED <<receipts, ledger, clock, takenOver>>, Fault \/ NoFault
    PROVE  GatewayInv'
<1>1. i \in Nat /\ i <= Len(ledger)
  BY DEF GatewayInv, GatewayTypes
<1>2. /\ OnlyRecord(c) /\ KeepsCommand(c) /\ call'[c].pc = "settle"
      /\ call'[c].result = "IDEMPOTENT_REPLAY"
      /\ call'[c].comment = i /\ call'[c].answer = call[c].answer
  BY <1>1, FoundIs DEF GatewayInv
<1>3. KeyOf(c)' = KeyOf(c) /\ Payload(c)' = Payload(c) /\ Row(c)' = Row(c)
  BY <1>2, KeyStays DEF Row
<1>4. /\ call'[c].cmd \in Commands /\ call'[c].answer = "none"
      /\ Row(c).status # "ABSENT" /\ Row(c).sha = Payload(c)
  BY <1>2 DEF GatewayInv, CallKnows, HasCommand, KnowsReceipt, KeepsCommand
<1>5. "none" \notin Settled /\ "IDEMPOTENT_REPLAY" \in Settled
  BY DEF Settled
<1>6. HasCommand(c)' /\ KnowsReceipt(c)'
  BY <1>2, <1>3, <1>4, <1>5 DEF HasCommand, KnowsReceipt
<1>7. KnowsComment(c)' /\ KnowsConflict(c)'
  BY <1>2, <1>3, <1>4, <1>5 DEF KnowsComment, KnowsConflict, PayloadOf
<1>8. HoldsLease(c)'
  BY <1>2, <1>3 DEF GatewayInv, CallKnows, HoldsLease
<1>9. KnowsSupport(c)' /\ KnowsLinks(c)'
  BY <1>2 DEF KnowsSupport, KnowsLinks
<1>10. CallKnows(c)'
  BY <1>6, <1>7, <1>8, <1>9 DEF CallKnows
<1> QED
  BY <1>1, <1>2, <1>10, FaultBound, EarlyStages, QuietRecord

(* The payload of a comment is that of the batch it carries.                 *)
LEMMA BatchPayload ==
    ASSUME NEW c, NEW comment, comment.cmd = call[c].cmd, comment.prev = call[c].prev,
           comment.preopen = call[c].preopen
    PROVE  PayloadOf(comment) = Payload(c)
BY DEF PayloadOf, Payload

LEMMA ReadInvestmentStep ==
    ASSUME GatewayInv, NEW c \in Calls, ReadInvestment(c)
    PROVE  GatewayInv'
<1>1. /\ call[c].pc = "read" /\ call[c].cmd.channel # "MARKET"
      /\ UNCHANGED <<receipts, ledger, clock, takenOver>>
      /\ Fault \/ NoFault
      /\ call[c].cmd \in Commands /\ Row(c).status # "ABSENT" /\ Row(c).sha = Payload(c)
  BY DEF ReadInvestment, ReadFails, GatewayInv, CallKnows, HasCommand, KnowsReceipt
<1> DEFINE same == Positions(ledger, call[c].cmd)
<1>2. same = {} <=> ~IsWritten(KeyOf(c))
  BY DEF Positions, IsWritten, KeyOf
<1>3. CASE same = {} /\ Goto(c, "post")
  <2>1. call'[c].pc = "post" /\ KeepsCommand(c)
    BY <1>3, GotoIs DEF GatewayInv, Stages
  <2>2. KeyOf(c)' = KeyOf(c) /\ Payload(c)' = Payload(c) /\ Row(c)' = Row(c)
    BY <1>1, <2>1, KeyStays DEF Row
  <2>3. KnowsReceipt(c)'
    BY <1>1, <2>1, <2>2 DEF KnowsReceipt
  <2>4. KnowsSupport(c)'
    BY <1>1, <2>1 DEF GatewayInv, CallKnows, KnowsSupport, KeepsCommand, Prefix
  <2>5. HoldsLease(c)'
    <3>1. ~IsWritten(KeyOf(c))'
      BY <1>1, <1>2, <1>3, <2>2 DEF IsWritten
    <3>2. KeyOf(c) \notin takenOver => Row(c).owner = c
      BY <1>1 DEF GatewayInv, CallKnows, HoldsLease
    <3> QED
      BY <1>1, <2>2, <3>1, <3>2 DEF HoldsLease
  <2>6. KnowsLinks(c)'
    BY <1>1, <2>1 DEF KnowsLinks, KeepsCommand
  <2>7. CallKnows(c)'
    BY <1>1, <1>3, <2>3, <2>4, <2>5, <2>6, GotoKnows DEF Stages
  <2> QED
    BY <1>1, <1>3, <2>7, QuietGoto DEF Stages, Early
<1>4. ASSUME NEW i \in same, ledger[i] = Batch(c), FoundAt(c, i)
      PROVE  GatewayInv'
  <2>1. i \in DOMAIN ledger
    BY DEF Positions
  <2>2. PayloadOf(ledger[i]) = Payload(c)
    BY <1>4, BatchPayload DEF Batch
  <2> QED
    BY <1>1, <1>4, <2>1, <2>2, FoundStep
<1>5. CASE same # {} /\ Raise(c, "STATE_CONFLICT")
  BY <1>1, <1>2, <1>5, QuietRaise DEF Errors
<1>6. CASE ReadFails(c)
  BY <1>1, <1>6, ReadFailsStep
<1> QED
  BY <1>3, <1>4, <1>5, <1>6 DEF ReadInvestment

(* A slot has a current checkpoint exactly if its key is written.            *)
LEMMA CurrentIsWritten ==
    ASSUME GatewayTypes, NEW c \in Calls, call[c].cmd \in Commands,
           call[c].cmd.channel = "MARKET"
    PROVE  LET current == CurrentSlot(ledger, call[c].cmd.date, call[c].cmd.slot)
           IN  /\ current = NoComment => ~IsWritten(KeyOf(c))
               /\ current # NoComment => IsWritten(KeyOf(c)) /\ current \in DOMAIN ledger
<1> DEFINE cmd == call[c].cmd
           current == CurrentSlot(ledger, cmd.date, cmd.slot)
           same == CheckpointOf(ledger, cmd.date, cmd.slot)
<1>1. cmd \in CommandType /\ ledger \in Seq(CommentType)
  BY CommandsTyped DEF GatewayTypes
<1>2. /\ same = {} => current = NoComment
      /\ same # {} => current \in same
      /\ same \subseteq 1..Len(ledger)
  BY <1>1, CurrentSlotIs
<1>3. \A i \in DOMAIN ledger : Identity(ledger[i].cmd) = KeyOf(c) <=> i \in same
  <2> SUFFICES ASSUME NEW i \in DOMAIN ledger
               PROVE  Identity(ledger[i].cmd) = Identity(cmd) <=> i \in same
    BY DEF KeyOf
  <2>1. ledger[i].cmd \in CommandType
    BY <1>1, CommentIs
  <2>2. Identity(cmd) = Identity(ledger[i].cmd) <=>
           /\ ledger[i].cmd.channel = "MARKET"
           /\ ledger[i].cmd.date = cmd.date /\ ledger[i].cmd.slot = cmd.slot
    BY <1>1, <2>1, SameSlotSameKey
  <2>3. i \in same <=> /\ ledger[i].cmd.channel = "MARKET"
                       /\ ledger[i].cmd.date = cmd.date /\ ledger[i].cmd.slot = cmd.slot
    BY DEF CheckpointOf, Checkpoints, ChannelPositions
  <2> QED
    BY <2>2, <2>3
<1>4. DOMAIN ledger = 1..Len(ledger)
  BY <1>1
<1>5. IsWritten(KeyOf(c)) <=> same # {}
  <2> HIDE DEF same
  <2> QED
    BY <1>2, <1>3, <1>4 DEF IsWritten
<1>6. NoComment \notin same
  BY <1>2 DEF NoComment
<1> HIDE DEF same
<1> QED
  BY <1>2, <1>4, <1>5, <1>6

(* What a checkpoint is about to be posted with was read at once.            *)
LEMMA PostMarket ==
    ASSUME GatewayInv, NEW c \in Calls, call[c].pc = "read",
           call[c].cmd.channel = "MARKET", call[c].cmd \in Commands,
           ~IsWritten(KeyOf(c)), TransitionIsValid(ledger, call[c].cmd),
           call[c].prev = PreviousCheckpoint(ledger, call[c].cmd),
           call[c].preopen = ExpectedPreopen(ledger, call[c].cmd),
           call' = [call EXCEPT ![c].pc = "post",
                                ![c].base = TransitionBase(ledger, call[c].cmd)],
           UNCHANGED <<receipts, ledger, clock, takenOver>>, Fault \/ NoFault
    PROVE  GatewayInv'
<1> DEFINE base == TransitionBase(ledger, call[c].cmd)
           new == [call[c] EXCEPT !.pc = "post", !.base = base]
<1>1. call[c] \in CallType /\ call[c].cmd \in CommandType /\ base \in Nat
  BY CommandsTyped, TransitionBaseIs DEF GatewayInv, GatewayTypes
<1>2. call' = [call EXCEPT ![c] = new]
  OBVIOUS
<1> HIDE DEF base
<1>3. /\ new \in CallType /\ new.pc = "post" /\ new.cmd = call[c].cmd
      /\ new.now = call[c].now /\ new.prev = call[c].prev /\ new.preopen = call[c].preopen
      /\ new.base = base /\ new.comment = call[c].comment /\ new.answer = call[c].answer
  BY <1>1 DEF CallType, Stages
<1> HIDE DEF new
<1>4. OnlyRecord(c) /\ call'[c] = new /\ KeepsCommand(c)
  BY <1>2, <1>3, RecordIs DEF OnlyRecord, GatewayInv, KeepsCommand
<1>5. KeyOf(c)' = KeyOf(c) /\ Payload(c)' = Payload(c) /\ Row(c)' = Row(c)
  BY <1>4, KeyStays DEF Row
<1>6. /\ call'[c].pc = "post" /\ call'[c].cmd \in Commands /\ call'[c].answer = "none"
      /\ call'[c].cmd.channel = "MARKET" /\ call'[c].comment <= Len(ledger)
      /\ Row(c).status # "ABSENT" /\ Row(c).sha = Payload(c)
      /\ KeyOf(c) \notin takenOver => Row(c).owner = c
  BY <1>3, <1>4 DEF GatewayInv, CallKnows, HasCommand, KnowsReceipt, HoldsLease, CallBounds
<1>7. "none" \notin Settled
  BY DEF Settled
<1>8. HasCommand(c)' /\ KnowsReceipt(c)' /\ KnowsComment(c)' /\ KnowsConflict(c)'
  BY <1>5, <1>6, <1>7 DEF HasCommand, KnowsReceipt, KnowsComment, KnowsConflict
<1>9. HoldsLease(c)' /\ KnowsSupport(c)'
  BY <1>5, <1>6 DEF HoldsLease, IsWritten, KnowsSupport
<1>10. KnowsLinks(c)'
  <2>1. Batch(c)' = [cmd |-> call[c].cmd, prev |-> call[c].prev,
                     preopen |-> call[c].preopen, base |-> base]
    BY <1>3, <1>4 DEF Batch
  <2>2. IsReadingOf(Batch(c)', ledger)
    BY <2>1 DEF IsReadingOf, base
  <2>3. Len(ledger) \in 0..Len(ledger) /\ Prefix(ledger, Len(ledger)) = ledger
    BY ReadsNow DEF GatewayInv
  <2>4. \E n \in 0..Len(ledger) : IsReadingOf(Batch(c)', Prefix(ledger, n))
    BY <2>2, <2>3
  <2> QED
    BY <2>4 DEF KnowsLinks
<1>11. CallKnows(c)'
  BY <1>8, <1>9, <1>10 DEF CallKnows
<1> QED
  BY <1>4, <1>6, <1>11, FaultBound, EarlyStages, QuietRecord

LEMMA ReadMarketStep ==
    ASSUME GatewayInv, NEW c \in Calls, ReadMarket(c)
    PROVE  GatewayInv'
<1> DEFINE cmd == call[c].cmd
           batch == [Batch(c) EXCEPT !.base = TransitionBase(ledger, cmd)]
           current == CurrentSlot(ledger, cmd.date, cmd.slot)
<1>1. /\ call[c].pc = "read" /\ cmd.channel = "MARKET"
      /\ UNCHANGED <<receipts, ledger, clock, takenOver>>
      /\ Fault \/ NoFault
      /\ cmd \in Commands
  BY DEF ReadMarket, ReadFails, GatewayInv, CallKnows, HasCommand
<1>2. /\ current = NoComment => ~IsWritten(KeyOf(c))
      /\ current # NoComment => IsWritten(KeyOf(c)) /\ current \in DOMAIN ledger
  BY <1>1, CurrentIsWritten DEF GatewayInv
<1>3. /\ batch.cmd = cmd /\ batch.prev = call[c].prev /\ batch.preopen = call[c].preopen
      /\ batch.base = TransitionBase(ledger, cmd)
  BY DEF Batch
<1>4. CASE HasDuplicates(ledger) /\ Raise(c, "STATE_CONFLICT")
  BY <1>1, <1>4, QuietRaise DEF Errors
<1>5. CASE Raise(c, "STATE_VALIDATION_FAILED")
  BY <1>1, <1>5, QuietRaise DEF Errors
<1>6. CASE current # NoComment /\ ledger[current] = batch /\ FoundAt(c, current)
  <2>1. PayloadOf(ledger[current]) = Payload(c)
    BY <1>3, <1>6, BatchPayload
  <2> QED
    BY <1>1, <1>2, <1>6, <2>1, FoundStep
<1>7. CASE current # NoComment /\ Raise(c, "STATE_CONFLICT")
  BY <1>1, <1>2, <1>7, QuietRaise DEF Errors
<1>8. CASE /\ current = NoComment /\ TransitionIsValid(ledger, cmd)
           /\ batch.prev = PreviousCheckpoint(ledger, cmd)
           /\ batch.preopen = ExpectedPreopen(ledger, cmd)
           /\ call' = [call EXCEPT ![c].pc = "post", ![c].base = batch.base]
  BY <1>1, <1>2, <1>3, <1>8, PostMarket
<1>9. CASE Raise(c, "STATE_CHAIN_MISMATCH")
  BY <1>1, <1>9, QuietRaise DEF Errors
<1>10. CASE ReadFails(c)
  BY <1>1, <1>10, ReadFailsStep
<1> HIDE DEF batch, current
<1>11. \/ ReadFails(c) \/ Raise(c, "STATE_CHAIN_MISMATCH") \/ Raise(c, "STATE_VALIDATION_FAILED")
       \/ HasDuplicates(ledger) /\ Raise(c, "STATE_CONFLICT")
       \/ current # NoComment /\ Raise(c, "STATE_CONFLICT")
       \/ current # NoComment /\ ledger[current] = batch /\ FoundAt(c, current)
       \/ /\ current = NoComment /\ TransitionIsValid(ledger, cmd)
          /\ batch.prev = PreviousCheckpoint(ledger, cmd)
          /\ batch.preopen = ExpectedPreopen(ledger, cmd)
          /\ call' = [call EXCEPT ![c].pc = "post", ![c].base = batch.base]
  BY DEF ReadMarket, batch, current
<1> QED
  BY <1>4, <1>5, <1>6, <1>7, <1>8, <1>9, <1>10, <1>11

------------------------------------------------------------------------------
(* The write *)

LEMMA BatchTyped ==
    ASSUME GatewayTypes, NEW c \in Calls, call[c].cmd \in Commands
    PROVE  /\ Batch(c) \in CommentType /\ Batch(c).cmd = call[c].cmd
           /\ Batch(c).prev = call[c].prev /\ Batch(c).preopen = call[c].preopen
<1>1. /\ call[c].cmd \in CommandType /\ call[c].prev \in Nat /\ call[c].preopen \in Nat
      /\ call[c].base \in Nat
  BY CommandsTyped DEF GatewayTypes, CallType
<1> QED
  BY <1>1 DEF Batch, CommentType

(* The comment that a call writes is the second of its key only after a      *)
(* takeover, and what it rests on was read before.                           *)
LEMMA WrittenIsGood ==
    ASSUME GatewayInv, NEW c \in Calls, call[c].pc = "post",
           ledger' = Append(ledger, Batch(c)), takenOver' = takenOver
    PROVE  /\ LinksPointBack' /\ SecondCommentNeedsTakeover'
           /\ CloseIsSupported' /\ CheckpointLinksAreOneReading'
<1> DEFINE last == Len(ledger) + 1
<1>1. GatewayTypes /\ call[c].cmd \in Commands
  BY DEF GatewayInv, CallKnows, HasCommand
<1>2. /\ Batch(c) \in CommentType /\ Batch(c).cmd = call[c].cmd
      /\ Batch(c).prev = call[c].prev /\ Batch(c).preopen = call[c].preopen
  BY <1>1, BatchTyped
<1>3. /\ Grows /\ DOMAIN ledger' = DOMAIN ledger \cup {last} /\ ledger'[last] = Batch(c)
  BY <1>1, <1>2, WritingGrows
<1>4. /\ DOMAIN ledger = 1..Len(ledger) /\ Len(ledger) \in Nat
      /\ \A i \in DOMAIN ledger : ledger'[i] = ledger[i]
      /\ \A n \in 0..Len(ledger) : Prefix(ledger', n) = Prefix(ledger, n)
  BY <1>1, <1>3 DEF GatewayTypes, Grows
<1>5. /\ last - 1 = Len(ledger) /\ last \in Nat
      /\ \A i \in DOMAIN ledger : \A n \in 0..(i - 1) : n \in 0..Len(ledger)
  BY <1>4
<1>6. LinksPointBack'
  <2>1. /\ call[c].prev \in Nat /\ call[c].preopen \in Nat
        /\ call[c].prev <= Len(ledger) /\ call[c].preopen <= Len(ledger)
    BY DEF GatewayInv, GatewayTypes, CallType, CallBounds
  <2>2. call[c].prev < last /\ call[c].preopen < last
    BY <1>4, <2>1
  <2> HIDE DEF last
  <2> QED
    BY <1>2, <1>3, <1>4, <2>2 DEF GatewayInv, LinksPointBack
<1>7. SecondCommentNeedsTakeover'
  <2> HIDE DEF last
  <2>1. \A i \in DOMAIN ledger : Identity(ledger[i].cmd) = KeyOf(c) => KeyOf(c) \in takenOver
    BY DEF GatewayInv, CallKnows, HoldsLease, IsWritten
  <2>2. Identity(ledger'[last].cmd) = KeyOf(c)
    BY <1>2, <1>3 DEF KeyOf
  <2>3. SecondCommentNeedsTakeover
    BY DEF GatewayInv
  <2>4. ASSUME NEW i \in DOMAIN ledger', NEW j \in DOMAIN ledger', i # j,
               Identity(ledger'[i].cmd) = Identity(ledger'[j].cmd)
        PROVE  Identity(ledger'[i].cmd) \in takenOver
    <3>1. CASE i \in DOMAIN ledger /\ j \in DOMAIN ledger
      BY <1>4, <2>3, <2>4, <3>1 DEF SecondCommentNeedsTakeover
    <3>2. CASE i = last /\ j \in DOMAIN ledger
      BY <1>4, <2>1, <2>2, <2>4, <3>2
    <3>3. CASE j = last /\ i \in DOMAIN ledger
      BY <1>4, <2>1, <2>2, <2>4, <3>3
    <3> QED
      BY <1>3, <2>4, <3>1, <3>2, <3>3
  <2> QED
    BY <2>4 DEF SecondCommentNeedsTakeover
<1>8. CloseIsSupported'
  <2> DEFINE Supported(i) ==
        ledger'[i].cmd.channel = "CLOSE" =>
          /\ \E n \in 0..(i - 1) : ThesisSupports(Prefix(ledger', n), ledger'[i].cmd.body)
          /\ NeedsMarket(ledger'[i].cmd.body) =>
                \E n \in 0..(i - 1) : MarketSupports(Prefix(ledger', n), ledger'[i].cmd)
  <2>1. ASSUME NEW i \in DOMAIN ledger PROVE Supported(i)
    BY <1>4, <1>5 DEF GatewayInv, CloseIsSupported, ClosesAreSupported
  <2>2. Supported(last)
    <3> SUFFICES ASSUME call[c].cmd.channel = "CLOSE"
                 PROVE  /\ \E n \in 0..Len(ledger) :
                              ThesisSupports(Prefix(ledger', n), call[c].cmd.body)
                        /\ NeedsMarket(call[c].cmd.body) =>
                              \E n \in 0..Len(ledger) :
                                  MarketSupports(Prefix(ledger', n), call[c].cmd)
      BY <1>2, <1>3, <1>5
    <3> QED
      BY <1>4 DEF GatewayInv, CallKnows, KnowsSupport
  <2> HIDE DEF Supported, last
  <2>3. \A i \in DOMAIN ledger' : Supported(i)
    BY <1>3, <2>1, <2>2
  <2> QED
    BY <2>3 DEF CloseIsSupported, ClosesAreSupported, Supported
<1>9. CheckpointLinksAreOneReading'
  <2> DEFINE Read(i) == \E n \in 0..(i - 1) : IsReadingOf(ledger'[i], Prefix(ledger', n))
  <2>1. ASSUME NEW i \in Checkpoints(ledger) PROVE Read(i)
    <3>1. i \in DOMAIN ledger
      BY DEF Checkpoints, ChannelPositions
    <3> QED
      BY <1>4, <1>5, <3>1
      DEF GatewayInv, CheckpointLinksAreOneReading, CheckpointsAreReadings
  <2>2. call[c].cmd.channel = "MARKET" => Read(last)
    <3> SUFFICES ASSUME call[c].cmd.channel = "MARKET"
                 PROVE  \E n \in 0..Len(ledger) : IsReadingOf(Batch(c), Prefix(ledger', n))
      BY <1>3, <1>5
    <3> QED
      BY <1>4 DEF GatewayInv, CallKnows, KnowsLinks
  <2> HIDE DEF Read, last
  <2>3. \A i \in Checkpoints(ledger') :
           i \in Checkpoints(ledger) \/ (i = last /\ call[c].cmd.channel = "MARKET")
    BY <1>2, <1>3, <1>4 DEF Checkpoints, ChannelPositions
  <2>4. \A i \in Checkpoints(ledger') : Read(i)
    BY <2>1, <2>2, <2>3
  <2> QED
    BY <2>4 DEF CheckpointLinksAreOneReading, CheckpointsAreReadings, Read
<1> QED
  BY <1>6, <1>7, <1>8, <1>9

LEMMA WriteKeeps ==
    ASSUME GatewayInv, NEW c \in Calls, call[c].pc = "post",
           ledger' = Append(ledger, Batch(c)), UNCHANGED <<receipts, clock, takenOver>>,
           faults' \in 0..MaxFaults, OnlyRecord(c), KeepsCommand(c),
           call'[c].pc \notin Early, call'[c].comment <= Len(ledger'), CallKnows(c)'
    PROVE  GatewayInv'
<1>1. GatewayTypes /\ call[c].cmd \in Commands
  BY DEF GatewayInv, CallKnows, HasCommand
<1>2. Grows /\ Len(ledger') = Len(ledger) + 1 /\ Len(ledger) \in Nat
  BY <1>1, BatchTyped, WritingGrows DEF GatewayTypes
<1>3. ReceiptsStep(c)
  BY <1>1 DEF ReceiptsStep, GatewayTypes
<1>4. StepOf(c)
  BY <1>2, <1>3 DEF StepOf, OnlyRecord
<1>5. GatewayTypes'
  BY <1>1, <1>2, <1>4 DEF GatewayTypes, StepOf, Grows
<1>6. LinksPointBack' /\ SecondCommentNeedsTakeover'
      /\ CloseIsSupported' /\ CheckpointLinksAreOneReading'
  BY WrittenIsGood
<1>7. AttemptsAreCalls'
  BY <1>4, KeyStays, AttemptsStay
<1>8. CallBounds(c)'
  <2>1. /\ call[c].now <= clock /\ call[c].prev \in Nat /\ call[c].preopen \in Nat
        /\ call[c].prev <= Len(ledger) /\ call[c].preopen <= Len(ledger)
    BY DEF GatewayInv, GatewayTypes, CallType, CallBounds
  <2> QED
    BY <1>2, <2>1 DEF CallBounds, KeepsCommand
<1>9. \A d \in Calls : CallBounds(d)'
  BY <1>4, <1>8, BoundsStay
<1>10. \A d \in Calls : CallKnows(d)'
  BY <1>4, OthersKnow
<1>11. \A k \in Keys : ReceiptIsGood(k)'
  BY <1>2, ReceiptStays
<1>12. (\A k \in Keys : ReceiptBounds(k) /\ ReceiptKnows(k))' /\ ReceiptNamesItsComment'
  BY <1>11 DEF ReceiptIsGood, ReceiptNamesItsComment
<1> QED
  BY <1>5, <1>6, <1>7, <1>9, <1>10, <1>12 DEF GatewayInv

LEMMA PostStep ==
    ASSUME GatewayInv, NEW c \in Calls, Post(c)
    PROVE  GatewayInv'
<1>1. /\ call[c].pc = "post" /\ UNCHANGED <<receipts, clock, takenOver>>
      /\ Fault \/ NoFault
      /\ call[c].cmd \in Commands /\ Row(c).status # "ABSENT" /\ Row(c).sha = Payload(c)
      /\ call[c].answer = "none"
      /\ KeyOf(c) \notin takenOver => Row(c).owner = c
  BY DEF Post, GatewayInv, CallKnows, HasCommand, KnowsReceipt, HoldsLease
<1>2. faults' \in 0..MaxFaults
  BY <1>1, FaultBound
<1>3. /\ Batch(c) \in CommentType /\ Batch(c).cmd = call[c].cmd
      /\ Batch(c).prev = call[c].prev /\ Batch(c).preopen = call[c].preopen
  BY <1>1, BatchTyped DEF GatewayInv
<1>4. CASE /\ ledger' = Append(ledger, Batch(c))
           /\ call' = [call EXCEPT ![c].pc = "readback", ![c].comment = Len(ledger) + 1]
  <2> DEFINE last == Len(ledger) + 1
             new == [call[c] EXCEPT !.pc = "readback", !.comment = last]
  <2>1. /\ Len(ledger') = last /\ last \in DOMAIN ledger' /\ ledger'[last] = Batch(c)
        /\ last \in Nat
    BY <1>3, <1>4, WritingGrows DEF GatewayInv, GatewayTypes
  <2>2. call' = [call EXCEPT ![c] = new]
    BY <1>4
  <2> HIDE DEF last
  <2>3. /\ new \in CallType /\ new.pc = "readback" /\ new.cmd = call[c].cmd
        /\ new.now = call[c].now /\ new.prev = call[c].prev
        /\ new.preopen = call[c].preopen
        /\ new.comment = last /\ new.answer = call[c].answer
    BY <2>1 DEF GatewayInv, GatewayTypes, CallType, Stages
  <2> HIDE DEF new
  <2>4. OnlyRecord(c) /\ call'[c] = new /\ KeepsCommand(c)
    BY <2>2, <2>3, RecordIs DEF OnlyRecord, GatewayInv, KeepsCommand
  <2>5. KeyOf(c)' = KeyOf(c) /\ Payload(c)' = Payload(c) /\ Row(c)' = Row(c)
    BY <1>1, <2>4, KeyStays DEF Row
  <2>6. PayloadOf(ledger'[last]) = Payload(c)
    BY <1>3, <2>1, BatchPayload
  <2>7. "none" \notin Settled
    BY DEF Settled
  <2>8. /\ call'[c].pc = "readback" /\ call'[c].cmd \in Commands /\ call'[c].answer = "none"
        /\ call'[c].comment = last
    BY <1>1, <2>3, <2>4
  <2>9. HasCommand(c)' /\ KnowsReceipt(c)' /\ KnowsConflict(c)' /\ HoldsLease(c)'
    BY <1>1, <2>5, <2>7, <2>8 DEF HasCommand, KnowsReceipt, KnowsConflict, HoldsLease
  <2>10. KnowsComment(c)' /\ KnowsSupport(c)' /\ KnowsLinks(c)'
    BY <2>1, <2>5, <2>6, <2>8 DEF KnowsComment, KnowsSupport, KnowsLinks, PayloadOf
  <2>11. CallKnows(c)'
    BY <2>9, <2>10 DEF CallKnows
  <2>12. call'[c].comment <= Len(ledger')
    BY <2>1, <2>8
  <2> QED
    BY <1>1, <1>2, <1>4, <2>4, <2>8, <2>11, <2>12, EarlyStages, WriteKeeps
<1>5. ASSUME NEW e \in LedgerErrors, Raise(c, e), ledger' = ledger PROVE GatewayInv'
  BY <1>1, <1>5, QuietRaise DEF Errors, LedgerErrors
<1>6. CASE ledger' = Append(ledger, Batch(c)) /\ Raise(c, "STATE_OUTCOME_UNKNOWN")
  <2>1. Grows /\ Len(ledger') = Len(ledger) + 1
    BY <1>3, <1>6, WritingGrows DEF GatewayInv
  <2>2. /\ OnlyRecord(c) /\ KeepsCommand(c) /\ call'[c].pc = "fail"
        /\ call'[c].comment = call[c].comment
    BY <1>6, RaiseIs DEF GatewayInv, Errors, LedgerErrors
  <2>3. CallKnows(c)'
    BY <1>1, <1>6, <2>1, RaisedKnows DEF Errors, LedgerErrors
  <2>4. call'[c].comment <= Len(ledger')
    BY <2>1, <2>2 DEF GatewayInv, GatewayTypes, CallType, CallBounds
  <2> QED
    BY <1>1, <1>2, <1>6, <2>2, <2>3, <2>4, EarlyStages, WriteKeeps
<1> QED
  BY <1>4, <1>5, <1>6 DEF Post

LEMMA ReadbackStep ==
    ASSUME GatewayInv, NEW c \in Calls, Readback(c)
    PROVE  GatewayInv'
<1>1. /\ call[c].pc = "readback" /\ UNCHANGED <<receipts, ledger, clock, takenOver>>
      /\ Fault \/ NoFault
      /\ call[c].cmd \in Commands /\ Row(c).status # "ABSENT" /\ Row(c).sha = Payload(c)
      /\ call[c].answer = "none" /\ call[c].comment <= Len(ledger)
  BY DEF Readback, GatewayInv, CallKnows, HasCommand, KnowsReceipt, CallBounds
<1>2. CASE call' = [call EXCEPT ![c].pc = "settle", ![c].result = "PERSISTED"]
  <2> DEFINE new == [call[c] EXCEPT !.pc = "settle", !.result = "PERSISTED"]
  <2>1. call' = [call EXCEPT ![c] = new]
    BY <1>2
  <2>2. /\ new \in CallType /\ new.pc = "settle" /\ new.cmd = call[c].cmd
        /\ new.now = call[c].now /\ new.prev = call[c].prev
        /\ new.preopen = call[c].preopen /\ new.result = "PERSISTED"
        /\ new.comment = call[c].comment /\ new.answer = call[c].answer
    BY DEF GatewayInv, GatewayTypes, CallType, Stages, Results, Settled
  <2> HIDE DEF new
  <2>3. OnlyRecord(c) /\ call'[c] = new /\ KeepsCommand(c)
    BY <2>1, <2>2, RecordIs DEF OnlyRecord, GatewayInv, KeepsCommand
  <2>4. KeyOf(c)' = KeyOf(c) /\ Payload(c)' = Payload(c) /\ Row(c)' = Row(c)
    BY <1>1, <2>3, KeyStays DEF Row
  <2>5. "none" \notin Settled /\ "PERSISTED" \in Settled
    BY DEF Settled
  <2>6. /\ call'[c].pc = "settle" /\ call'[c].cmd \in Commands /\ call'[c].answer = "none"
        /\ call'[c].comment = call[c].comment /\ call'[c].result = "PERSISTED"
    BY <1>1, <2>2, <2>3
  <2>7. HasCommand(c)' /\ KnowsReceipt(c)' /\ KnowsConflict(c)'
    BY <1>1, <2>4, <2>5, <2>6 DEF HasCommand, KnowsReceipt, KnowsConflict
  <2>8. HoldsLease(c)' /\ KnowsSupport(c)' /\ KnowsLinks(c)'
    BY <1>1, <2>4, <2>6 DEF GatewayInv, CallKnows, HoldsLease, KnowsSupport, KnowsLinks
  <2>9. KnowsComment(c)'
    BY <1>1, <2>4, <2>6 DEF GatewayInv, CallKnows, KnowsComment, PayloadOf
  <2>10. CallKnows(c)'
    BY <2>7, <2>8, <2>9 DEF CallKnows
  <2> QED
    BY <1>1, <2>3, <2>6, <2>10, FaultBound, EarlyStages, QuietRecord
<1>3. CASE Raise(c, "STATE_READBACK_FAILED")
  BY <1>1, <1>3, QuietRaise DEF Errors
<1> QED
  BY <1>2, <1>3 DEF Readback

------------------------------------------------------------------------------
(* finalizeStateWriteReceipt *)

FinalOf(row, status, comment) ==
    [row EXCEPT !.status = status, !.comment = comment, !.owner = NoCall, !.until = 0]

LEMMA FinalIs ==
    ASSUME NEW row \in ReceiptType, NEW status \in Statuses, NEW comment \in Nat, NEW new,
           new = FinalOf(row, status, comment)
    PROVE  /\ new \in ReceiptType /\ new.status = status /\ new.comment = comment
           /\ new.owner = NoCall /\ new.until = 0 /\ new.sha = row.sha
           /\ new.attempts = row.attempts
<1>1. /\ row.sha \in PayloadType /\ row.attempts \in Nat
      /\ 0 \in Nat /\ NoCall \in Calls \cup {NoCall}
  BY DEF ReceiptType
<1>2. new = [status |-> status, sha |-> row.sha, owner |-> NoCall, until |-> 0,
             attempts |-> row.attempts, comment |-> comment]
  BY DEF FinalOf, ReceiptType
<1>3. new \in ReceiptType
  BY <1>1, <1>2 DEF ReceiptType
<1> QED
  BY <1>2, <1>3

LEMMA FinalizedRow ==
    ASSUME GatewayInv, NEW c \in Calls, call[c].cmd \in Commands,
           NEW status \in Statuses \ {"ABSENT"}, NEW comment \in Nat, comment <= Len(ledger),
           receipts' \in {receipts, Finalized(c, status, comment)},
           ledger' = ledger, takenOver' = takenOver,
           status = "CONFLICT" => IsWritten(KeyOf(c)) \/ HasDuplicates(ledger),
           status \in Settled => /\ comment \in DOMAIN ledger
                                 /\ PayloadOf(ledger[comment]) = Row(c).sha
    PROVE  /\ ReceiptsStep(c) /\ Grows
           /\ \A j \in Keys : ReceiptIsGood(j)' /\ receipts'[j].attempts = receipts[j].attempts
<1> DEFINE k == KeyOf(c)
           new == FinalOf(receipts[k], status, comment)
<1>1. k \in Keys /\ Row(c) = receipts[k] /\ receipts[k] \in ReceiptType
  BY KeyInKeys DEF GatewayInv, GatewayTypes, Row
<1>2. CASE receipts' = receipts
  <2>1. Grows
    BY KeepingGrows DEF GatewayInv
  <2>2. ReceiptsStep(c)
    BY <1>2 DEF ReceiptsStep, GatewayInv, GatewayTypes
  <2>3. \A j \in Keys : ReceiptIsGood(j)'
    BY <1>2, <2>1, ReceiptStays
  <2> QED
    BY <1>2, <2>1, <2>2, <2>3
<1>3. CASE receipts' # receipts
  <2>1. /\ receipts[k].owner = c
        /\ receipts' = [receipts EXCEPT ![k].status = status, ![k].comment = comment,
                                        ![k].owner = NoCall, ![k].until = 0]
    BY <1>1, <1>3 DEF Finalized
  <2>2. receipts' = [receipts EXCEPT ![k] = new]
    BY <2>1 DEF FinalOf
  <2>3. /\ new \in ReceiptType /\ new.status = status /\ new.comment = comment
        /\ new.owner = NoCall /\ new.until = 0 /\ new.sha = receipts[k].sha
        /\ new.attempts = receipts[k].attempts
    BY <1>1, FinalIs
  <2>4. receipts[k].status = "PENDING"
    BY <1>1, <2>1 DEF GatewayInv, ReceiptKnows
  <2>5. "PENDING" \notin Settled /\ NoCall \notin Calls /\ 0 <= MaxTime + LeaseTTL
    BY GatewayAssumption DEF Settled
  <2>6. status = "CONFLICT" => IsWritten(k) \/ HasDuplicates(ledger)
    OBVIOUS
  <2>7. status \in Settled => /\ comment \in DOMAIN ledger
                              /\ PayloadOf(ledger[comment]) = receipts[k].sha
    BY <1>1
  <2> HIDE DEF k, new
  <2>8. takenOver \subseteq takenOver' /\ takenOver' \subseteq Keys
    BY DEF GatewayInv, GatewayTypes
  <2>9. receipts[k].status \notin Settled \cup {"CONFLICT"}
    BY <2>4, <2>5
  <2>10. /\ receipts[k].status # "ABSENT" =>
              new.status # "ABSENT" /\ new.sha = receipts[k].sha
         /\ receipts[k].owner \in Calls \ {c} =>
              new.owner = receipts[k].owner \/ k \in takenOver'
    BY <2>1, <2>3
  <2>11. /\ new.until <= MaxTime + LeaseTTL /\ new.comment <= Len(ledger)
         /\ new.owner \in Calls => new.status = "PENDING"
    BY <2>3, <2>5
  <2>12. /\ new.status = "CONFLICT" => IsWritten(k) \/ HasDuplicates(ledger)
         /\ new.status \in Settled => /\ new.comment \in DOMAIN ledger
                                      /\ PayloadOf(ledger[new.comment]) = new.sha
    BY <2>3, <2>6, <2>7
  <2>13. k \in Keys /\ new \in ReceiptType
    BY <1>1, <2>3
  <2>14. /\ ReceiptsStep(c) /\ Grows
         /\ \A j \in Keys : ReceiptIsGood(j)'
         /\ \A j \in Keys \ {k} : receipts'[j] = receipts[j]
         /\ receipts'[k] = new
    BY <2>2, <2>8, <2>9, <2>10, <2>11, <2>12, <2>13, RowStep
  <2> QED
    BY <2>3, <2>14
<1> QED
  BY <1>2, <1>3

(* A step that finalizes keeps the invariant if the call knows its outcome.  *)
LEMMA FinalStep ==
    ASSUME GatewayInv, NEW c \in Calls, call[c].pc \in {"settle", "fail"},
           OnlyRecord(c), KeepsCommand(c), call'[c].comment = call[c].comment,
           call'[c].pc \in {"done", "fail"}, CallKnows(c)',
           ReceiptsStep(c), Grows,
           \A j \in Keys : ReceiptIsGood(j)' /\ receipts'[j].attempts = receipts[j].attempts,
           UNCHANGED <<ledger, clock, takenOver>>, Fault \/ NoFault
    PROVE  GatewayInv'
<1>1. CallBounds(c)'
  BY DEF GatewayInv, CallBounds, KeepsCommand
<1>2. StepOf(c)
  BY DEF StepOf, OnlyRecord
<1>3. call[c].pc \notin Early => (call'[c].pc \notin Early /\ KeyOf(c)' = KeyOf(c))
  BY EarlyStages, KeyStays
<1>4. faults' \in 0..MaxFaults
  BY FaultBound
<1> QED
  BY <1>1, <1>2, <1>3, <1>4, StepKeeps

LEMMA SettleStep ==
    ASSUME GatewayInv, NEW c \in Calls, Settle(c)
    PROVE  GatewayInv'
<1> DEFINE result == call[c].result
           comment == call[c].comment
<1>1. /\ call[c].pc = "settle" /\ UNCHANGED <<ledger, clock, takenOver>>
      /\ Fault \/ NoFault
      /\ receipts' \in {receipts, Finalized(c, result, comment)}
      /\ call[c].cmd \in Commands /\ Row(c).status # "ABSENT" /\ Row(c).sha = Payload(c)
      /\ result \in Settled /\ comment \in DOMAIN ledger
      /\ PayloadOf(ledger[comment]) = Payload(c)
  BY DEF Settle, GatewayInv, CallKnows, HasCommand, KnowsReceipt, KnowsComment
<1>2. comment \in Nat /\ comment <= Len(ledger)
  BY DEF GatewayInv, GatewayTypes, CallType, CallBounds
<1>3. result \in Statuses \ {"ABSENT"} /\ result # "CONFLICT" /\ result \in Answers
  BY <1>1 DEF Statuses, Settled, Answers
<1>4. /\ ReceiptsStep(c) /\ Grows
      /\ \A j \in Keys : ReceiptIsGood(j)' /\ receipts'[j].attempts = receipts[j].attempts
  <2> HIDE DEF result, comment
  <2> QED
    BY <1>1, <1>2, <1>3, FinalizedRow
<1>5. CASE Answer(c, result)
  <2>1. /\ OnlyRecord(c) /\ KeepsCommand(c) /\ call'[c].pc = "done"
        /\ call'[c].answer = result /\ call'[c].comment = comment
    BY <1>3, <1>5, AnswerIs DEF GatewayInv
  <2>2. Payload(c)' = Payload(c) /\ call'[c].cmd \in Commands
    BY <1>1, <2>1, KeyStays DEF KeepsCommand
  <2>3. result # "STATE_CONFLICT" /\ result # "none"
    BY <1>1 DEF Settled
  <2>4. KnowsComment(c)'
    BY <1>1, <2>1, <2>2 DEF KnowsComment, PayloadOf
  <2>5. CallKnows(c)'
    BY <2>1, <2>2, <2>3, <2>4 DEF CallKnows, HasCommand, KnowsReceipt, KnowsConflict,
              HoldsLease, KnowsSupport, KnowsLinks
  <2> QED
    BY <1>1, <1>4, <2>1, <2>5, FinalStep
<1>6. CASE Raise(c, "STATE_UNAVAILABLE")
  <2>1. /\ OnlyRecord(c) /\ KeepsCommand(c) /\ call'[c].pc = "fail"
        /\ call'[c].comment = comment
    BY <1>6, RaiseIs DEF GatewayInv, Errors
  <2>2. CallKnows(c)'
    BY <1>1, <1>4, <1>6, RaisedKnows DEF Errors
  <2> QED
    BY <1>1, <1>4, <2>1, <2>2, FinalStep
<1> QED
  BY <1>5, <1>6 DEF Settle

LEMMA FailStep ==
    ASSUME GatewayInv, NEW c \in Calls, Fail(c)
    PROVE  GatewayInv'
<1> DEFINE result == call[c].result
           status == FailureStatus(result)
<1>1. /\ call[c].pc = "fail" /\ UNCHANGED <<ledger, clock, takenOver>>
      /\ Fault \/ NoFault
      /\ receipts' \in {receipts, Finalized(c, status, NoComment)}
      /\ call[c].cmd \in Commands /\ result \in Errors
      /\ result = "STATE_CONFLICT" => IsWritten(KeyOf(c)) \/ HasDuplicates(ledger)
  BY DEF Fail, GatewayInv, CallKnows, HasCommand, KnowsConflict
<1>2. /\ status \in {"CONFLICT", "OUTCOME_UNKNOWN", "FAILED"}
      /\ status = "CONFLICT" => result = "STATE_CONFLICT"
  BY DEF FailureStatus
<1>3. status \in Statuses \ {"ABSENT"} /\ status \notin Settled
  BY <1>2 DEF Statuses, Settled
<1>4. NoComment \in Nat /\ NoComment <= Len(ledger)
  BY DEF NoComment, GatewayInv, GatewayTypes
<1>5. /\ ReceiptsStep(c) /\ Grows
      /\ \A j \in Keys : ReceiptIsGood(j)' /\ receipts'[j].attempts = receipts[j].attempts
  <2>1. status = "CONFLICT" => IsWritten(KeyOf(c)) \/ HasDuplicates(ledger)
    BY <1>1, <1>2
  <2> HIDE DEF status
  <2> QED
    BY <1>1, <1>3, <1>4, <2>1, FinalizedRow
<1>6. ASSUME NEW a \in Answers \ (Settled \cup {"none", "STATE_CONFLICT"}), Answer(c, a)
      PROVE  GatewayInv'
  <2>1. /\ OnlyRecord(c) /\ KeepsCommand(c) /\ call'[c].pc = "done"
        /\ call'[c].comment = call[c].comment
    BY <1>6, AnswerIs DEF GatewayInv
  <2>2. CallKnows(c)'
    BY <1>6, AnsweredKnows
  <2> QED
    BY <1>1, <1>5, <2>1, <2>2, FinalStep
<1>7. CASE result = "STATE_CONFLICT" /\ Answer(c, "STATE_CONFLICT")
  <2>1. /\ OnlyRecord(c) /\ KeepsCommand(c) /\ call'[c].pc = "done"
        /\ call'[c].comment = call[c].comment
    BY <1>7, AnswerIs DEF GatewayInv, Answers, Errors
  <2>2. CallKnows(c)'
    BY <1>1, <1>5, <1>7, ConflictKnows
  <2> QED
    BY <1>1, <1>5, <2>1, <2>2, FinalStep
<1>8. result # "STATE_CONFLICT" =>
         result \in Answers \ (Settled \cup {"none", "STATE_CONFLICT"})
  BY <1>1, PlainAnswers DEF Errors
<1> QED
  BY <1>6, <1>7, <1>8, PlainAnswers DEF Fail

------------------------------------------------------------------------------
(* The remaining steps, and the invariant *)

LEMMA DieStep ==
    ASSUME GatewayInv, NEW c \in Calls, Die(c)
    PROVE  GatewayInv'
<1>1. CallKnows(c)'
  BY DeadKnows DEF Die
<1> QED
  BY <1>1, EarlyStages, QuietGoto DEF Die, Stages

(* Whatever does not read the clock or the fault counter stays.              *)
LEMMA TickStep ==
    ASSUME GatewayInv, UNCHANGED <<receipts, ledger, call, takenOver>>,
           clock' \in clock..MaxTime, faults' \in 0..MaxFaults
    PROVE  GatewayInv'
<1>1. clock \in Nat /\ MaxTime \in Nat /\ clock' \in 0..MaxTime /\ clock <= clock'
  BY GatewayAssumption DEF GatewayInv, GatewayTypes
<1>2. GatewayTypes'
  BY <1>1 DEF GatewayInv, GatewayTypes
<1>3. LinksPointBack' /\ SecondCommentNeedsTakeover'
      /\ CloseIsSupported' /\ CheckpointLinksAreOneReading'
  BY LedgerStays
<1>4. Grows
  BY KeepingGrows DEF GatewayInv
<1>5. \A k \in Keys : ReceiptIsGood(k)'
  BY <1>4, ReceiptStays
<1>6. (\A k \in Keys : ReceiptBounds(k) /\ ReceiptKnows(k))' /\ ReceiptNamesItsComment'
  BY <1>5 DEF ReceiptIsGood, ReceiptNamesItsComment
<1>7. AttemptsAreCalls'
  BY DEF GatewayInv, AttemptsAreCalls, WereAtLease, KeyOf
<1>8. ASSUME NEW c \in Calls PROVE CallBounds(c)'
  <2>1. call[c].now \in Nat /\ CallBounds(c)
    BY DEF GatewayInv, GatewayTypes, CallType
  <2> QED
    BY <1>1, <2>1 DEF CallBounds
<1>9. ASSUME NEW c \in Calls PROVE CallKnows(c)'
  <2>1. KeyOf(c)' = KeyOf(c) /\ Payload(c)' = Payload(c) /\ Row(c)' = Row(c)
        /\ Batch(c)' = Batch(c)
    BY DEF KeyOf, Payload, Row, Batch
  <2>2. CallKnows(c)
    BY DEF GatewayInv
  <2>3. HasCommand(c)' /\ KnowsReceipt(c)' /\ KnowsComment(c)'
    BY <2>1, <2>2 DEF CallKnows, HasCommand, KnowsReceipt, KnowsComment, PayloadOf
  <2>4. KnowsConflict(c)' /\ HoldsLease(c)'
    BY <2>1, <2>2 DEF CallKnows, KnowsConflict, HoldsLease, IsWritten
  <2>5. KnowsSupport(c)' /\ KnowsLinks(c)'
    BY <2>1, <2>2 DEF CallKnows, KnowsSupport, KnowsLinks, Prefix
  <2> QED
    BY <2>3, <2>4, <2>5 DEF CallKnows
<1> QED
  BY <1>2, <1>3, <1>6, <1>7, <1>8, <1>9 DEF GatewayInv

LEMMA CallStepKeeps ==
    ASSUME GatewayInv, NEW c \in Calls, CallStep(c)
    PROVE  GatewayInv'
BY BuildMarketStep, CheckThesisStep, CheckMarketStep, InsertStep, InspectStep, AcquireStep,
   ConfirmStep, ReadInvestmentStep, ReadMarketStep, PostStep, ReadbackStep, SettleStep,
   FailStep, DieStep
DEF CallStep

LEMMA GatewayInitInv == GatewayInit => GatewayInv
<1> SUFFICES ASSUME GatewayInit PROVE GatewayInv
  OBVIOUS
<1>1. /\ ledger \in Seq(CommentType) /\ LinksPointBack /\ SecondCommentNeedsTakeover
      /\ CloseIsSupported /\ CheckpointLinksAreOneReading
  BY HistoriesAreLinked, HistoriesWroteOnce, HistoriesAreSupported
  DEF GatewayInit, LinksPointBack, SecondCommentNeedsTakeover, CloseIsSupported,
      CheckpointLinksAreOneReading
<1>2. NoPayload \in PayloadType
  BY DEF NoPayload, PayloadType, NoComment
<1>3. NoReceipt \in ReceiptType /\ \A k \in Keys : receipts[k] = NoReceipt
  BY <1>2 DEF GatewayInit, NoReceipt, ReceiptType, Statuses, NoComment
<1>4. Idle \in CallType /\ \A c \in Calls : call[c] = Idle
  BY DEF GatewayInit, Idle, CallType, Stages, Results, Answers, NoComment
<1>5. GatewayTypes
  BY <1>1, <1>3, <1>4, GatewayAssumption DEF GatewayInit, GatewayTypes
<1>6. Len(ledger) \in Nat /\ MaxTime + LeaseTTL \in Nat
  BY <1>1, GatewayAssumption
<1>7. "none" \notin Settled /\ "ABSENT" \notin Settled /\ NoCall \notin Calls
      /\ NoCommand.channel = "none"
  BY GatewayAssumption DEF Settled, NoCommand
<1>8. \A k \in Keys : ReceiptBounds(k) /\ ReceiptKnows(k)
  BY <1>3, <1>6, <1>7 DEF NoReceipt, ReceiptBounds, ReceiptKnows, NoComment
<1>9. ReceiptNamesItsComment
  BY <1>3, <1>7 DEF NoReceipt, ReceiptNamesItsComment
<1>10. AttemptsAreCalls
  <2> SUFFICES ASSUME NEW k \in Keys PROVE 0 <= Cardinality(WereAtLease(k))
    BY <1>3 DEF AttemptsAreCalls, NoReceipt
  <2>1. IsFiniteSet(WereAtLease(k))
    BY GatewayAssumption, FS_Subset DEF WereAtLease
  <2> QED
    BY <2>1, FS_CardinalityType
<1>11. ASSUME NEW c \in Calls PROVE CallBounds(c) /\ CallKnows(c)
  <2>1. /\ call[c].pc = "idle" /\ call[c].cmd = NoCommand /\ call[c].now = 0
        /\ call[c].prev = 0 /\ call[c].preopen = 0 /\ call[c].comment = 0
        /\ call[c].answer = "none" /\ clock = 0
    BY <1>4 DEF Idle, NoComment, GatewayInit
  <2>2. CallBounds(c)
    BY <1>6, <2>1 DEF CallBounds
  <2>3. CallKnows(c)
    BY <1>7, <2>1 DEF CallKnows, HasCommand, KnowsReceipt, KnowsComment, KnowsConflict,
                      HoldsLease, KnowsSupport, KnowsLinks
  <2> QED
    BY <2>2, <2>3
<1> QED
  BY <1>1, <1>5, <1>8, <1>9, <1>10, <1>11 DEF GatewayInv

LEMMA GatewayInvStep == GatewayInv /\ [GatewayNext]_gatewayVars => GatewayInv'
<1> SUFFICES ASSUME GatewayInv, [GatewayNext]_gatewayVars PROVE GatewayInv'
  OBVIOUS
<1>1. clock \in 0..MaxTime /\ faults \in 0..MaxFaults
  BY DEF GatewayInv, GatewayTypes
<1>2. ASSUME NEW c \in Calls, CallStep(c) PROVE GatewayInv'
  BY <1>2, CallStepKeeps
<1>3. ASSUME NEW c \in Calls, NEW cmd \in Commands, Submit(c, cmd) PROVE GatewayInv'
  BY <1>3, SubmitStep
<1>4. CASE Tick
  <2>1. clock' \in clock..MaxTime
    BY <1>1, <1>4, GatewayAssumption DEF Tick
  <2> QED
    BY <1>1, <1>4, <2>1, TickStep DEF Tick
<1>5. CASE UNCHANGED gatewayVars
  BY <1>1, <1>5, TickStep DEF gatewayVars
<1> QED
  BY <1>2, <1>3, <1>4, <1>5 DEF GatewayNext

(* The invariant of appendStateBatch, for every set of calls and commands.   *)
THEOREM GatewayInvariant == GatewaySpec => []GatewayInv
<1>1. GatewayInit => GatewayInv
  BY GatewayInitInv
<1>2. GatewayInv /\ [GatewayNext]_gatewayVars => GatewayInv'
  BY GatewayInvStep
<1> QED
  BY <1>1, <1>2, PTL DEF GatewaySpec

------------------------------------------------------------------------------
(* The properties that the runs check *)

LEMMA GatewayInvTypeOK == GatewayInv => GatewayTypeOK
<1> SUFFICES ASSUME GatewayInv PROVE GatewayTypeOK
  OBVIOUS
<1>1. /\ clock \in 0..MaxTime /\ faults \in 0..MaxFaults
      /\ takenOver \subseteq Keys
      /\ DOMAIN receipts = Keys /\ DOMAIN call = Calls
      /\ DOMAIN ledger = 1..Len(ledger) /\ Len(ledger) \in Nat /\ ledger \in Seq(CommentType)
      /\ MaxTime + LeaseTTL \in Nat /\ clock \in Nat
  BY GatewayAssumption DEF GatewayInv, GatewayTypes
<1>2. ASSUME NEW k \in Keys
      PROVE  /\ receipts[k].status \in {"ABSENT", "PENDING", "OUTCOME_UNKNOWN",
                                        "CONFLICT", "FAILED"} \cup Settled
             /\ receipts[k].owner \in Calls \cup {NoCall}
             /\ receipts[k].until \in 0..(MaxTime + LeaseTTL)
             /\ receipts[k].attempts \in 0..Cardinality(Calls)
             /\ receipts[k].comment \in 0..Len(ledger)
  <2>1. receipts[k] \in ReceiptType
    BY DEF GatewayInv, GatewayTypes
  <2>2. /\ receipts[k].status \in Statuses /\ receipts[k].owner \in Calls \cup {NoCall}
        /\ receipts[k].until \in Nat /\ receipts[k].attempts \in Nat
        /\ receipts[k].comment \in Nat
    BY <2>1 DEF ReceiptType
  <2>3. ReceiptBounds(k) /\ receipts[k].attempts <= Cardinality(WereAtLease(k))
    BY DEF GatewayInv, AttemptsAreCalls
  <2>4. /\ Cardinality(WereAtLease(k)) <= Cardinality(Calls)
        /\ Cardinality(WereAtLease(k)) \in Nat /\ Cardinality(Calls) \in Nat
    <3>1. WereAtLease(k) \subseteq Calls /\ IsFiniteSet(Calls)
      BY GatewayAssumption DEF WereAtLease
    <3> QED
      BY <3>1, FS_Subset, FS_CardinalityType
  <2>5. receipts[k].attempts \in 0..Cardinality(Calls)
    BY <2>2, <2>3, <2>4
  <2> QED
    BY <1>1, <2>2, <2>3, <2>5 DEF ReceiptBounds, Statuses
<1>3. ASSUME NEW i \in DOMAIN ledger
      PROVE  ledger[i].prev \in 0..(i - 1) /\ ledger[i].preopen \in 0..(i - 1)
  <2>1. ledger[i].prev \in Nat /\ ledger[i].preopen \in Nat /\ i \in Nat
    BY <1>1, CommentIs
  <2>2. ledger[i].prev < i /\ ledger[i].preopen < i
    BY DEF GatewayInv, LinksPointBack
  <2> QED
    BY <2>1, <2>2
<1>4. ASSUME NEW c \in Calls
      PROVE  /\ call[c].pc \in Stages
             /\ call[c].now \in 0..clock
             /\ call[c].comment \in 0..Len(ledger)
             /\ call[c].answer \in {"none", "ERROR"} \cup Settled \cup Errors
             /\ (call[c].pc = "done") <=> (call[c].answer # "none")
  <2>1. /\ call[c].pc \in Stages /\ call[c].now \in Nat /\ call[c].comment \in Nat
        /\ call[c].answer \in Answers
    BY DEF GatewayInv, GatewayTypes, CallType
  <2>2. CallBounds(c) /\ HasCommand(c)
    BY DEF GatewayInv, CallKnows
  <2> QED
    BY <1>1, <2>1, <2>2 DEF CallBounds, HasCommand, Answers
<1> QED
  BY <1>1, <1>2, <1>3, <1>4 DEF GatewayTypeOK

(* STATE_CONFLICT has one of its three causes.                               *)
LEMMA GatewayInvConflict == GatewayInv => ConflictHasCause
<1> SUFFICES ASSUME GatewayInv, NEW c \in Calls, call[c].answer = "STATE_CONFLICT"
             PROVE  \/ /\ call[c].pc = "done" /\ Row(c).status # "ABSENT"
                       /\ Row(c).sha # Payload(c)
                    \/ Positions(ledger, call[c].cmd) # {}
                    \/ HasDuplicates(ledger)
  BY DEF ConflictHasCause
<1>1. HasCommand(c) /\ KnowsConflict(c)
  BY DEF GatewayInv, CallKnows
<1>2. IsWritten(KeyOf(c)) => Positions(ledger, call[c].cmd) # {}
  BY DEF IsWritten, KeyOf, Positions
<1> QED
  BY <1>1, <1>2 DEF HasCommand, KnowsConflict

LEMMA GatewayInvAnswer == GatewayInv => AnswerNamesItsComment
BY DEF GatewayInv, CallKnows, KnowsComment, AnswerNamesItsComment

(* Receipts, comments, calls and the bounds of each keep their types; the    *)
(* attempts of a receipt never outnumber the calls that came to its lease.   *)
THEOREM GatewayTypeCorrect == GatewaySpec => []GatewayTypeOK
<1>1. GatewayInv => GatewayTypeOK
  BY GatewayInvTypeOK
<1> QED
  BY <1>1, GatewayInvariant, PTL

(* A settled receipt names a comment with its payload, whichever calls raced,*)
(* died or lost their lease (finalizeStateWriteReceipt).                     *)
THEOREM ReceiptsNameTheirComments == GatewaySpec => []ReceiptNamesItsComment
<1>1. GatewayInv => ReceiptNamesItsComment
  BY DEF GatewayInv
<1> QED
  BY <1>1, GatewayInvariant, PTL

(* persisted: true is answered with a comment that carries what the call     *)
(* submitted (stateWriteReplay, appendStateBatch).                           *)
THEOREM AnswersNameTheirComments == GatewaySpec => []AnswerNamesItsComment
<1>1. GatewayInv => AnswerNamesItsComment
  BY GatewayInvAnswer
<1> QED
  BY <1>1, GatewayInvariant, PTL

(* Only the takeover of a lapsed lease can write a key twice: neither lost   *)
(* answers nor retries nor dead calls duplicate a comment.                   *)
THEOREM DuplicatesNeedATakeover == GatewaySpec => []SecondCommentNeedsTakeover
<1>1. GatewayInv => SecondCommentNeedsTakeover
  BY DEF GatewayInv
<1> QED
  BY <1>1, GatewayInvariant, PTL

(* STATE_CONFLICT is only answered for a key in use otherwise.               *)
THEOREM ConflictsHaveACause == GatewaySpec => []ConflictHasCause
<1>1. GatewayInv => ConflictHasCause
  BY GatewayInvConflict
<1> QED
  BY <1>1, GatewayInvariant, PTL

(* validateCloseDependencies: every CLOSE comment was supported by a state   *)
(* of the ledger before it.                                                  *)
THEOREM ClosesWereSupported == GatewaySpec => []CloseIsSupported
<1>1. GatewayInv => CloseIsSupported
  BY DEF GatewayInv
<1> QED
  BY <1>1, GatewayInvariant, PTL

(* appendMarketCheckpoint: links and transition of a checkpoint come from    *)
(* one state of the ledger before it.                                        *)
THEOREM CheckpointsAreOneReading == GatewaySpec => []CheckpointLinksAreOneReading
<1>1. GatewayInv => CheckpointLinksAreOneReading
  BY DEF GatewayInv
<1> QED
  BY <1>1, GatewayInvariant, PTL

------------------------------------------------------------------------------
(* What a step may do to a receipt *)

(* The three statements on a receipt: INSERT OR IGNORE, the lease, finalize. *)
LEMMA ReceiptsChange ==
    ASSUME GatewayInv, [GatewayNext]_gatewayVars, receipts' # receipts
    PROVE  \E c \in Calls :
              /\ call[c].cmd \in Commands
              /\ \/ Row(c).status = "ABSENT" /\ receipts' = Inserted(c)
                 \/ MayAcquire(c) /\ receipts' = [receipts EXCEPT ![KeyOf(c)] = Lease(c)]
                 \/ /\ Row(c).owner = c /\ call[c].pc \in {"settle", "fail"}
                    /\ call'[c].pc # call[c].pc
                    /\ \E status, comment : receipts' = Finalized(c, status, comment)
<1>1. ASSUME NEW c \in Calls, Insert(c)
      PROVE  call[c].cmd \in Commands /\ Row(c).status = "ABSENT" /\ receipts' = Inserted(c)
  BY <1>1 DEF Insert, Inserted, GatewayInv, CallKnows, HasCommand
<1>2. ASSUME NEW c \in Calls, Acquire(c)
      PROVE  /\ call[c].cmd \in Commands /\ MayAcquire(c)
             /\ receipts' = [receipts EXCEPT ![KeyOf(c)] = Lease(c)]
  BY <1>2 DEF Acquire, GatewayInv, CallKnows, HasCommand
<1>3. ASSUME NEW c \in Calls, Settle(c) \/ Fail(c)
      PROVE  /\ call[c].cmd \in Commands /\ Row(c).owner = c
             /\ call[c].pc \in {"settle", "fail"} /\ call'[c].pc # call[c].pc
             /\ \E status, comment : receipts' = Finalized(c, status, comment)
  <2>1. /\ call[c].pc \in {"settle", "fail"} /\ call[c].cmd \in Commands
        /\ \E status, comment : receipts' = Finalized(c, status, comment)
    BY <1>3 DEF Settle, Fail, GatewayInv, CallKnows, HasCommand
  <2>2. Row(c).owner = c
    BY <2>1 DEF Finalized
  <2>3. call[c].result \in Answers
    BY <2>1 DEF GatewayInv, CallKnows, HasCommand, Answers
  <2>4. "ERROR" \in Answers /\ "STATE_UNAVAILABLE" \in Errors
    BY DEF Answers, Errors
  <2>5. call'[c].pc = "done" \/ (call[c].pc = "settle" /\ call'[c].pc = "fail")
    BY <1>3, <2>3, <2>4, AnswerIs, RaiseIs DEF Settle, Fail, GatewayInv
  <2> QED
    BY <2>1, <2>2, <2>5
<1>4. ASSUME NEW c \in Calls, CallStep(c) PROVE Insert(c) \/ Acquire(c) \/ Settle(c) \/ Fail(c)
  BY <1>4 DEF CallStep, BuildMarket, CheckThesis, CheckMarket, Inspect, Confirm,
              ReadInvestment, ReadMarket, Post, Readback, Die
<1>5. ASSUME NEW c \in Calls, NEW cmd \in Commands, Submit(c, cmd) PROVE FALSE
  BY <1>5 DEF Submit
<1> QED
  BY <1>1, <1>2, <1>3, <1>4, <1>5 DEF GatewayNext, Tick, gatewayVars

(* A receipt that is settled or in conflict never changes again.             *)
LEMMA ReceiptIsFinalStep ==
    ASSUME GatewayInv, [GatewayNext]_gatewayVars, NEW k \in Keys,
           receipts[k].status \in Settled \cup {"CONFLICT"}
    PROVE  receipts'[k] = receipts[k]
<1> SUFFICES ASSUME receipts' # receipts PROVE receipts'[k] = receipts[k]
  OBVIOUS
<1>1. PICK c \in Calls :
        /\ call[c].cmd \in Commands
        /\ \/ Row(c).status = "ABSENT" /\ receipts' = Inserted(c)
           \/ MayAcquire(c) /\ receipts' = [receipts EXCEPT ![KeyOf(c)] = Lease(c)]
           \/ /\ Row(c).owner = c
              /\ \E status, comment : receipts' = Finalized(c, status, comment)
  BY ReceiptsChange
<1>2. KeyOf(c) \in Keys /\ Row(c) = receipts[KeyOf(c)] /\ receipts \in [Keys -> ReceiptType]
  BY <1>1, KeyInKeys DEF GatewayInv, GatewayTypes, Row
<1>3. KeyOf(c) # k
  <2>1. "ABSENT" \notin Settled \cup {"CONFLICT"} /\ "PENDING" \notin Settled \cup {"CONFLICT"}
    BY DEF Settled
  <2>2. receipts[k].owner \notin Calls
    BY <2>1 DEF GatewayInv, ReceiptKnows
  <2> QED
    BY <1>1, <1>2, <2>1, <2>2 DEF MayAcquire
<1>4. \A j \in Keys \ {KeyOf(c)} : receipts'[j] = receipts[j]
  BY <1>1, <1>2 DEF Inserted, Finalized
<1> QED
  BY <1>3, <1>4

(* No late call with a lapsed lease and no retry reopens a settled receipt.  *)
THEOREM SettledReceiptsAreFinal == GatewaySpec => SettledReceiptIsFinal
<1>1. GatewayInv /\ [GatewayNext]_gatewayVars =>
        [\A k \in Keys : receipts[k].status \in Settled \cup {"CONFLICT"} =>
            receipts'[k] = receipts[k]]_gatewayVars
  BY ReceiptIsFinalStep
<1> QED
  BY <1>1, GatewayInvariant, PTL DEF GatewaySpec, SettledReceiptIsFinal

(* A lease ends by its holder's finalize or after its time.                  *)
LEMMA LeaseEnds ==
    ASSUME GatewayInv, [GatewayNext]_gatewayVars, NEW k \in Keys, NEW c \in Calls,
           receipts[k].owner = c, receipts'[k].owner # c
    PROVE  \/ call[c].pc \in {"settle", "fail"} /\ call'[c] # call[c]
           \/ receipts[k].until < clock
<1>1. PICK d \in Calls :
        /\ call[d].cmd \in Commands
        /\ \/ Row(d).status = "ABSENT" /\ receipts' = Inserted(d)
           \/ MayAcquire(d) /\ receipts' = [receipts EXCEPT ![KeyOf(d)] = Lease(d)]
           \/ /\ Row(d).owner = d /\ call[d].pc \in {"settle", "fail"}
              /\ call'[d].pc # call[d].pc
              /\ \E status, comment : receipts' = Finalized(d, status, comment)
  BY ReceiptsChange
<1>2. KeyOf(d) \in Keys /\ Row(d) = receipts[KeyOf(d)] /\ receipts \in [Keys -> ReceiptType]
  BY <1>1, KeyInKeys DEF GatewayInv, GatewayTypes, Row
<1>3. KeyOf(d) = k
  <2>1. \A j \in Keys \ {KeyOf(d)} : receipts'[j] = receipts[j]
    BY <1>1, <1>2 DEF Inserted, Finalized
  <2> QED
    BY <2>1
<1>4. CASE Row(d).status = "ABSENT"
  <2>1. receipts[k].status = "PENDING"
    BY DEF GatewayInv, ReceiptKnows
  <2> QED
    BY <1>2, <1>3, <1>4, <2>1
<1>5. CASE MayAcquire(d) /\ receipts' = [receipts EXCEPT ![KeyOf(d)] = Lease(d)]
  <2>1. receipts[k] \in ReceiptType
    BY <1>2
  <2>2. receipts'[k].owner = d
    <3>1. receipts'[k] = Lease(d)
      BY <1>2, <1>3, <1>5
    <3>2. Lease(d) = LeaseOf(receipts[k], d, call[d].now + LeaseTTL)
      BY <1>2, <1>3 DEF Lease, LeaseOf
    <3>3. call[d].now + LeaseTTL \in Nat
      BY GatewayAssumption DEF GatewayInv, GatewayTypes, CallType
    <3> QED
      BY <2>1, <3>1, <3>2, <3>3, LeaseIs
  <2>3. receipts[k].owner \in {NoCall, d} \/ receipts[k].until < call[d].now
    BY <1>2, <1>3, <1>5 DEF MayAcquire, LeaseIsFree
  <2>4. receipts[k].owner # NoCall
    BY GatewayAssumption
  <2>5. /\ call[d].now \in Nat /\ clock \in Nat /\ call[d].now <= clock
        /\ receipts[k].until \in Nat
    BY <2>1, GatewayAssumption
    DEF GatewayInv, GatewayTypes, CallType, CallBounds, ReceiptType
  <2> QED
    BY <2>2, <2>3, <2>4, <2>5
<1>6. CASE /\ Row(d).owner = d /\ call[d].pc \in {"settle", "fail"}
           /\ call'[d].pc # call[d].pc
  BY <1>2, <1>3, <1>6
<1> QED
  BY <1>1, <1>4, <1>5, <1>6

(* No other call takes or releases a receipt that is still held.             *)
THEOREM LeasesEndByHolderOrTime == GatewaySpec => LeaseEndsByHolderOrTime
<1>1. GatewayInv /\ [GatewayNext]_gatewayVars =>
        [\A k \in Keys : \A c \in Calls :
            (receipts[k].owner = c /\ receipts'[k].owner # c) =>
                \/ call[c].pc \in {"settle", "fail"} /\ call'[c] # call[c]
                \/ receipts[k].until < clock]_gatewayVars
  BY LeaseEnds
<1> QED
  BY <1>1, GatewayInvariant, PTL DEF GatewaySpec, LeaseEndsByHolderOrTime
===============================================================================
