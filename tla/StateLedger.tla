----------------------------- MODULE StateLedger -----------------------------
(***************************************************************************)
(* The two GitHub issues that hold the investment ledger (INDUSTRY,        *)
(* COMPANY and CLOSE batches, issue 3) and the MARKET checkpoint ledger    *)
(* (issue 2), as one sequence of comments in creation order, and the       *)
(* functions with which the Collector reads it.  A comment is never edited *)
(* nor deleted by the code, so a position in the sequence is a comment id. *)
(*                                                                         *)
(* A command is what a caller submits, after the server filled in its own  *)
(* fields: one event on one symbol for an investment channel, the records  *)
(* of one slot for MARKET.                                                 *)
(*   id       "CMD" for an owned command, whose event id is the digest of  *)
(*            its events, otherwise the event id the caller chose          *)
(*   body     the business content: the R proposal or the effective R      *)
(*            state of the event, "confirmed" or not for a checkpoint      *)
(*   asOf     the timestamp the caller stamps on the batch                 *)
(*   version  portfolio version and LIVE universe hash at submission       *)
(*   members  the ACTIVE instruments of a checkpoint                       *)
(*   date, slot   trading date (of as_of for CLOSE) and MARKET slot        *)
(* A comment adds the links the server derived: the comments of the        *)
(* previous and of the first checkpoint of the day, and base, the version  *)
(* of the previous checkpoint against which universe_transition was made.  *)
(***************************************************************************)
EXTENDS Integers, Sequences, FiniteSets, FiniteSetsExt

CONSTANT LastSlot      \* index of the 16:45 slot; the first slot is 1 (09:10)

ASSUME LastSlotAssumption == LastSlot \in Nat \ {0, 1}

InvestmentChannels == {"INDUSTRY", "COMPANY", "CLOSE"}
StateChannels == InvestmentChannels \cup {"MARKET"}
NoComment == 0
NoCommand == [channel |-> "none", id |-> "none", body |-> "none",
              members |-> "none", asOf |-> 0, version |-> 0,
              date |-> 0, slot |-> 0]

Text == STRING

CommandType ==
    [channel : StateChannels, id : Text, body : Text, members : Text,
     asOf : Nat, version : Nat, date : Nat, slot : Nat]

CommentType == [cmd : CommandType, prev : Nat, preopen : Nat, base : Nat]

(***************************************************************************)
(* What the key of a write depends on: an owned investment command on its  *)
(* channel and events only, so that a new timestamp is the same write; a   *)
(* batch with its own event id on that id; a checkpoint on date and slot.  *)
(* The other fields are masked.                                            *)
(***************************************************************************)
Identity(cmd) ==
    IF cmd.channel = "MARKET"
      THEN [cmd EXCEPT !.id = "slot", !.body = "none", !.members = "none",
                       !.asOf = 0, !.version = 0]
      ELSE [cmd EXCEPT !.body = IF cmd.id = "CMD" THEN @ ELSE "none",
                       !.members = "none", !.asOf = 0, !.version = 0,
                       !.date = 0, !.slot = 0]

Positions(ledger, cmd) ==
    {i \in DOMAIN ledger : Identity(ledger[i].cmd) = Identity(cmd)}

------------------------------------------------------------------------------
(* Reading the investment ledger *)

ChannelPositions(ledger, channel) ==
    {i \in DOMAIN ledger : ledger[i].cmd.channel = channel}

(* validRoleComments sorts by as_of, then by creation. *)
SortsAfter(ledger, i, j) ==
    \/ ledger[i].cmd.asOf > ledger[j].cmd.asOf
    \/ ledger[i].cmd.asOf = ledger[j].cmd.asOf /\ i > j

(* latest_by_symbol: the body of the last event of a channel. *)
LatestBody(ledger, channel) ==
    LET all == ChannelPositions(ledger, channel)
    IN  IF all = {} THEN "none"
        ELSE LET last == CHOOSE i \in all :
                            \A j \in all \ {i} : SortsAfter(ledger, i, j)
             IN  ledger[last].cmd.body

(* What the effective state of a CLOSE event needs from the other ledgers. *)
NeedsIndustry(body) == body = "R1"
NeedsCompany(body) == body \in {"R2", "R3", "R4", "R4_CANDIDATE"}
NeedsMarket(body) == body \in {"R4", "R4_CANDIDATE"}
NeedsPreviousClose(body) == body = "R4"

ThesisSupports(ledger, body) ==
    /\ NeedsIndustry(body) => LatestBody(ledger, "INDUSTRY") = "R1"
    /\ NeedsCompany(body) => LatestBody(ledger, "COMPANY") = "R2"

------------------------------------------------------------------------------
(* Reading the MARKET ledger *)

Checkpoints(ledger) == ChannelPositions(ledger, "MARKET")

CheckpointOf(ledger, date, slot) ==
    {i \in Checkpoints(ledger) :
        ledger[i].cmd.date = date /\ ledger[i].cmd.slot = slot}

(* The first comment of a slot in creation order stands for it. *)
CurrentSlot(ledger, date, slot) ==
    LET same == CheckpointOf(ledger, date, slot)
    IN  IF same = {} THEN NoComment ELSE Min(same)

(* buildState reports duplicates of any checkpoint, not only of this slot. *)
HasDuplicates(ledger) ==
    \E i, j \in Checkpoints(ledger) :
        i # j /\ Identity(ledger[i].cmd) = Identity(ledger[j].cmd)

(* Last of a set of checkpoints in the order of date, slot and creation. *)
LastCheckpoint(ledger, set) ==
    IF set = {} THEN NoComment
    ELSE CHOOSE i \in set : \A j \in set \ {i} :
            \/ ledger[i].cmd.date > ledger[j].cmd.date
            \/ /\ ledger[i].cmd.date = ledger[j].cmd.date
               /\ \/ ledger[i].cmd.slot > ledger[j].cmd.slot
                  \/ ledger[i].cmd.slot = ledger[j].cmd.slot /\ i > j

PreviousCheckpoint(ledger, cmd) ==
    LastCheckpoint(ledger, {i \in Checkpoints(ledger) :
        ledger[i].cmd.date = cmd.date /\ ledger[i].cmd.slot < cmd.slot})

ExpectedPreopen(ledger, cmd) ==
    IF cmd.slot = 1 THEN NoComment ELSE CurrentSlot(ledger, cmd.date, 1)

PreviousClose(ledger, date) ==
    LastCheckpoint(ledger, {i \in Checkpoints(ledger) :
        ledger[i].cmd.date < date /\ ledger[i].cmd.slot = LastSlot})

Confirms(ledger, i) == i # NoComment /\ ledger[i].cmd.body = "confirmed"

(* R4 needs the same-day close, a formal R4 the close of the day before too. *)
MarketSupports(ledger, cmd) ==
    /\ Confirms(ledger, CurrentSlot(ledger, cmd.date, LastSlot))
    /\ NeedsPreviousClose(cmd.body) =>
          Confirms(ledger, PreviousClose(ledger, cmd.date))

(* universe_transition: the version it is made against, and the check that *)
(* the membership only changes together with the universe hash.            *)
TransitionBase(ledger, cmd) ==
    LET prev == PreviousCheckpoint(ledger, cmd)
    IN  IF prev = NoComment THEN 0 ELSE ledger[prev].cmd.version

TransitionIsValid(ledger, cmd) ==
    LET prev == PreviousCheckpoint(ledger, cmd)
    IN  \/ prev = NoComment
        \/ ledger[prev].cmd.members = cmd.members
        \/ ledger[prev].cmd.version # cmd.version

==============================================================================
