------------------------------- MODULE Reaper -------------------------------
(***************************************************************************)
(* The server's reaper (workers/reaper.go) around the tables of module     *)
(* Store: three statements in a row, over and over, first when the server  *)
(* starts and then at every tick.  One that fails is logged and the next   *)
(* one runs.  A module using it says what else its steps leave alone.      *)
(***************************************************************************)
EXTENDS Store

VARIABLE reaper   \* the statement that Reaper.run executes next

Statements == {"expired", "orphaned", "stuck"}

ReapExpiredCommands ==
    /\ reaper = "expired" /\ reaper' = "orphaned"
    /\ FailExpiredCommands
    /\ UNCHANGED runners

ReapOrphanedRunners ==
    /\ reaper = "orphaned" /\ reaper' = "stuck"
    /\ MarkOrphanedRunners
    /\ UNCHANGED commands

ReapStuckCommands ==
    /\ reaper = "stuck" /\ reaper' = "expired"
    /\ FailStuckCommands
    /\ UNCHANGED runners

ReaperStatementFails ==
    /\ reaper' = CASE reaper = "expired"  -> "orphaned"
                   [] reaper = "orphaned" -> "stuck"
                   [] reaper = "stuck"    -> "expired"
    /\ UNCHANGED <<commands, runners>>

ReaperStep ==
    \/ ReapExpiredCommands \/ ReapOrphanedRunners \/ ReapStuckCommands
    \/ ReaperStatementFails

ReaperTypeOK == reaper \in Statements
=============================================================================
