---------------------------- MODULE MCStateGateway ---------------------------
(* Small instances of StateGateway: commands, earlier ledgers, symmetry. *)
EXTENDS StateGateway, TLC

CallSymmetry == Permutations(Calls)

Command(channel, id, body, asOf, date, slot) ==
    [channel |-> channel, id |-> id, body |-> body, members |-> "m1",
     asOf |-> asOf, version |-> 1, date |-> date, slot |-> slot]

Comment(cmd, prev, preopen, base) ==
    [cmd |-> cmd, prev |-> prev, preopen |-> preopen, base |-> base]

(* One owned COMPANY event under two timestamps, and two batches that share *)
(* an event id.                                                             *)
ReceiptCommands ==
    {Command("COMPANY", "CMD", "R2", 1, 1, 0),
     Command("COMPANY", "CMD", "R2", 2, 1, 0),
     Command("COMPANY", "e1", "R2", 1, 1, 0),
     Command("COMPANY", "e1", "R0", 1, 1, 0)}

EmptyLedger == {<<>>}

Checkpoint(body, date, slot) == Command("MARKET", "CMD", body, 1, date, slot)

(* The rest of a trading day (an intraday slot, also from a caller that      *)
(* chooses its own links, and the 16:45 slot with and without a universe     *)
(* hash that explains its new member), CLOSE events, and INDUSTRY updates    *)
(* whose timestamps disagree with their order of arrival.                    *)
DayCommands ==
    {Checkpoint("confirmed", 2, 2),
     [Checkpoint("plain", 2, 2) EXCEPT !.id = "caller"],
     [Checkpoint("confirmed", 2, 3) EXCEPT !.members = "m2", !.version = 2],
     [Checkpoint("confirmed", 2, 3) EXCEPT !.members = "m2"],
     Command("CLOSE", "CMD", "R1", 2, 2, 0),
     Command("CLOSE", "CMD", "R4", 2, 2, 0),
     Command("INDUSTRY", "CMD", "R0", 2, 2, 0),
     Command("INDUSTRY", "CMD", "R1", 1, 2, 0)}

(* The day before closed with a confirmation, the company thesis stands and  *)
(* today's 09:10 plan is written.                                            *)
StartOfDay ==
    {<<Comment(Checkpoint("confirmed", 1, 3), 0, 0, 0),
       Comment(Command("COMPANY", "CMD", "R2", 1, 1, 0), 0, 0, 0),
       Comment(Checkpoint("plain", 2, 1), 0, 0, 0)>>}
==============================================================================
