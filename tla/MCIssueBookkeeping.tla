-------------------------- MODULE MCIssueBookkeeping --------------------------
(* Small instances of IssueBookkeeping. *)
EXTENDS IssueBookkeeping

CONSTANTS k1, k2

Command(k, op, target) == [key |-> k, operation |-> op, target |-> target]

\* Two intents under one key, one under another, one for a target that is not listed.
MCCommands == {Command(k1, "COMMENT", "state"), Command(k1, "CLOSE", "state"),
               Command(k2, "COMMENT", "state"), Command(k2, "COMMENT", "other")}

\* One deployment lists a target, in the other a second entry is mistyped.
Entry(target, valid) == [target |-> target, valid |-> valid]
MCWhitelists == {{Entry("state", TRUE)}, {Entry("state", TRUE), Entry("other", FALSE)}}
=============================================================================
