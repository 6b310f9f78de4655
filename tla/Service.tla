------------------------------ MODULE Service ------------------------------
(***************************************************************************)
(* The whole server: Dispatch with the reaper at work beside it, on the    *)
(* same two tables, while last_seen grows old.  Dispatch leaves both out;  *)
(* this module states that it may.                                         *)
(***************************************************************************)
EXTENDS Dispatch, Reaper

requestVars == <<note, to, stream, flush, clientVars, reportVars, history>>
serviceVars == <<vars, reaper>>

ServiceInit == Init /\ reaper = "expired"

Reap == ReaperStep /\ UNCHANGED requestVars

(* Five minutes pass without a sign of the runner; a request, which times  *)
(* out after seconds, is not on its way for so long.                       *)
Age(r) ==
    /\ r \notin byes
    /\ AgeLastSeen(r)
    /\ UNCHANGED <<commands, requestVars, reaper>>

(* The reaper dies and starts with its server.                             *)
Restart == ServerCrash /\ reaper' = "expired"

Serve == /\ \/ \E c \in Commands : CommandStep(c)
            \/ \E k \in Conns : StreamStep(k)
            \/ \E r \in Runners : RunnerStep(r)
         /\ UNCHANGED reaper

ServiceNext == Serve \/ Reap \/ Restart \/ \E r \in Runners : Age(r)

ServiceSpec == ServiceInit /\ [][ServiceNext]_serviceVars

(* The tickers of the clients and of the reaper tick on, and a heartbeat   *)
(* or a statement that is tried again and again succeeds in the end.       *)
ServiceFairness ==
    /\ \A r \in Runners : SF_serviceVars(up[r] /\ Heartbeat(r) /\ UNCHANGED reaper)
    /\ WF_serviceVars(Reap)
    /\ SF_serviceVars(ReapOrphanedRunners /\ UNCHANGED requestVars)

LiveService == ServiceSpec /\ ServiceFairness
-----------------------------------------------------------------------------
(* Properties.                                                             *)

(* A row of runners as it would be without the reaper and without time.    *)
Unreaped(row) == [row EXCEPT !.status = IF @ = "orphaned" THEN "offline" ELSE @,
                             !.fresh = (row.status # "absent"),
                             !.orphanedAt = FALSE]

unreaped == [r \in Runners |-> Unreaped(runners[r])]

AsDispatch == INSTANCE Dispatch WITH runners <- unreaped

(* What the reaper does shows in the statuses of absent runners only:      *)
(* clients, streams and handlers behave as in Dispatch, and no row of      *)
(* commands changes under their hands.                                     *)
ReaperIsInvisible == AsDispatch!Spec

(* What FailExpiredCommands is for (store.go, "marks commands past their   *)
(* deadline as failed"; reaper.go and README.md alike): once it has run,   *)
(* no command past its deadline is unfinished.                             *)
ExpiredAreFailed ==
    [][ReapExpiredCommands =>
          \A c \in Commands : commands[c].deadline = "past" => commands'[c].status \in Finished]_serviceVars

(* A runner that was orphaned, or put offline by a late deregistration of  *)
(* an earlier process, is online again after a heartbeat of its client.    *)
RunningComesOnline ==
    \A r \in Runners : up[r] ~> (~up[r] \/ runners[r].status = "online")

(* A runner that went offline and is not seen again for the first time is  *)
(* found by the reaper, unless it comes back.                              *)
Missing(r) == runners[r].status = "offline" /\ ~runners[r].fresh

FirstAbsenceDetected ==
    \A r \in Runners : Missing(r) /\ ~runners[r].orphanedAt ~> ~Missing(r)
=============================================================================
