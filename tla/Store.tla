------------------------------- MODULE Store -------------------------------
(***************************************************************************)
(* The two PostgreSQL tables the server's handlers, its SSE streams and    *)
(* its reaper share (server/internal/store/postgres/store.go), with one    *)
(* operator per SQL statement.  A statement is atomic: each is a single    *)
(* UPDATE or INSERT run outside a transaction.  An operator that changes a *)
(* table constrains the primed copy of that table alone, so that a module  *)
(* using it says what else its step does.                                  *)
(*                                                                         *)
(* Row identity: ids are handed out in insertion order, so the order of    *)
(* ids is the order of created_at that ClaimNextCommand sorts by.          *)
(*                                                                         *)
(* Time: a deadline is "none", still "ahead" of now(), or "past"; last_seen*)
(* is kept as whether it is newer than the reaper's cutoff ("fresh").      *)
(***************************************************************************)
EXTENDS Integers

CONSTANTS Runners,      \* runner slugs
          Tags,         \* runner tags
          TagSets,      \* per runner: the tag sets its clients are started with
          Finished,     \* the statuses a result may carry
          MaxCommands,  \* bound: rows the commands table may hold
          None          \* SQL NULL

ASSUME TagsAssumption    == TagSets \in [Runners -> SUBSET (SUBSET Tags)]
(* The handler writes whatever status a request carries; its documented     *)
(* values (openapi.yaml: success, failed, cancelled) are none of those the *)
(* statements below test for.                                              *)
ASSUME ResultAssumption ==
    /\ "failed" \in Finished
    /\ Finished \cap {"absent", "queued", "claimed", "pending", "running"} = {}
ASSUME CommandAssumption == MaxCommands \in Nat \ {0}
ASSUME NullAssumption    == None \notin Runners \cup Tags

VARIABLES commands, runners

Commands == 1 .. MaxCommands

TargetTypes == {"slug", "runner", "tag"}
Deadlines   == {"none", "ahead", "past"}
(* A row that does not exist yet has the status "absent".  The statements   *)
(* also test for "pending" and "running", which no code of the repository   *)
(* ever writes by itself.                                                  *)
CommandStatus == {"absent", "queued", "claimed"} \cup Finished
RunnerStatus  == {"absent", "online", "offline", "orphaned"}

Command == [status: CommandStatus, type: TargetTypes \cup {None},
            value: Runners \cup Tags \cup {None}, deadline: Deadlines,
            assigned: Runners \cup {None}, kill: BOOLEAN]
Runner  == [status: RunnerStatus, tags: SUBSET Tags, active: Int,
            fresh: BOOLEAN, orphanedAt: BOOLEAN]

NoCommand == [status |-> "absent", type |-> None, value |-> None,
              deadline |-> "none", assigned |-> None, kill |-> FALSE]
NoRunner  == [status |-> "absent", tags |-> {}, active |-> 0,
              fresh |-> FALSE, orphanedAt |-> FALSE]

StoreInit == /\ commands = [c \in Commands |-> NoCommand]
             /\ runners  = [r \in Runners |-> NoRunner]

Exists(r) == runners[r].status # "absent"
-----------------------------------------------------------------------------
(* Statements on the runners table.                                        *)

(* Faulty variants for the mutation runs: a heartbeat that only notes the  *)
(* time, and a reaper that takes the runners it should spare, or does not  *)
(* ask whether they had said goodbye.                                      *)
HeartbeatNotesTime(r) ==
    /\ Exists(r)
    /\ runners' = [runners EXCEPT ![r].fresh = TRUE]

MarkFreshRunners ==
    runners' = [r \in Runners |->
                  IF runners[r].status = "offline" /\ runners[r].fresh /\ ~runners[r].orphanedAt
                  THEN [runners[r] EXCEPT !.status = "orphaned", !.orphanedAt = TRUE]
                  ELSE runners[r]]

MarkSilentRunners ==
    runners' = [r \in Runners |->
                  IF runners[r].status # "absent" /\ ~runners[r].fresh /\ ~runners[r].orphanedAt
                  THEN [runners[r] EXCEPT !.status = "orphaned", !.orphanedAt = TRUE]
                  ELSE runners[r]]

(* A second registration overwrites tags, status and last_seen but neither *)
(* active_count nor orphaned_at.                                           *)
UpsertRunner(r, tags) ==
    runners' = [runners EXCEPT ![r].status = "online", ![r].tags = tags, ![r].fresh = TRUE]

UpdateRunnerHeartbeat(r) ==
    /\ Exists(r)
    /\ runners' = [runners EXCEPT ![r].status = "online", ![r].fresh = TRUE]

UpdateRunnerStatus(r, status) ==
    /\ Exists(r)
    /\ runners' = [runners EXCEPT ![r].status = status]

IncrementRunnerActiveCount(r, delta) ==
    /\ Exists(r)
    /\ runners' = [runners EXCEPT ![r].active = @ + delta]

(* ListRunners(ctx, []string{tag}, "online").                              *)
OnlineWithTag(tag) ==
    {r \in Runners : runners[r].status = "online" /\ tag \in runners[r].tags}

MarkOrphanedRunners ==
    LET Orphans == {r \in Runners : /\ runners[r].status = "offline"
                                    /\ ~runners[r].fresh
                                    /\ ~runners[r].orphanedAt}
    IN  runners' = [r \in Runners |->
                      IF r \in Orphans
                      THEN [runners[r] EXCEPT !.status = "orphaned", !.orphanedAt = TRUE]
                      ELSE runners[r]]
-----------------------------------------------------------------------------
(* Statements on the commands table.                                       *)

InsertCommand(c, type, value, deadline) ==
    /\ commands[c].status = "absent"
    /\ \A d \in Commands : d < c => commands[d].status # "absent"
    /\ commands' = [commands EXCEPT ![c] = [NoCommand EXCEPT
                      !.status = "queued", !.type = type,
                      !.value = value, !.deadline = deadline]]

(* Faulty variants of the two definitions that follow, for the mutation    *)
(* runs: a claim that also takes rows claimed before, one that does not    *)
(* compare the slug, and one that takes a NULL deadline for a past one.    *)
ClaimableAgain(c, r, tags) ==
    /\ commands[c].status \in {"queued", "claimed"}
    /\ commands[c].type = "slug" /\ commands[c].value = r

ClaimableByAnyone(c, r, tags) ==
    commands[c].status = "queued" /\ commands[c].type \in {"slug", "tag"}

ClaimNextDated(c, r, tags, locked) ==
    /\ commands[c].status = "queued" /\ commands[c].deadline = "ahead"
    /\ commands' = [commands EXCEPT ![c].status = "claimed", ![c].assigned = r]

(* The WHERE clause of ClaimNextCommand, whose caller passes the runner's  *)
(* tags.  It knows the target types "slug" and "tag" only: a command sent  *)
(* to type "runner" never matches.                                         *)
Claimable(c, r, tags) ==
    /\ commands[c].status = "queued"
    /\ \/ commands[c].type = "slug" /\ commands[c].value = r
       \/ commands[c].type = "tag"  /\ commands[c].value \in tags
    /\ commands[c].deadline # "past"

(* ORDER BY created_at LIMIT 1 FOR UPDATE SKIP LOCKED: c is the oldest of  *)
(* the claimable rows that no other statement has locked.                  *)
ClaimNextCommand(c, r, tags, locked) ==
    /\ Claimable(c, r, tags)
    /\ \A d \in Commands : d < c /\ Claimable(d, r, tags) => d \in locked
    /\ commands' = [commands EXCEPT ![c].status = "claimed", ![c].assigned = r]

(* No condition on the status the row already has.                         *)
UpdateCommandStatus(c, status) ==
    /\ commands[c].status # "absent"
    /\ commands' = [commands EXCEPT ![c].status = status]

Killable(c) == commands[c].status \in {"claimed", "running"}

SetCommandKillRequested(c) ==
    /\ Killable(c)
    /\ commands' = [commands EXCEPT ![c].kill = TRUE]

FailExpiredCommands ==
    commands' = [c \in Commands |->
        IF commands[c].status \in {"pending", "running"} /\ commands[c].deadline = "past"
        THEN [commands[c] EXCEPT !.status = "failed"] ELSE commands[c]]

FailStuckCommands ==
    commands' = [c \in Commands |->
        IF /\ commands[c].status = "running"
           /\ \E r \in Runners : /\ commands[c].assigned = r
                                 /\ runners[r].status \in {"offline", "orphaned"}
        THEN [commands[c] EXCEPT !.status = "failed"] ELSE commands[c]]
-----------------------------------------------------------------------------
(* The passage of time.                                                    *)

PassDeadline(c) ==
    /\ commands[c].deadline = "ahead"
    /\ commands' = [commands EXCEPT ![c].deadline = "past"]

AgeLastSeen(r) ==
    /\ runners[r].fresh
    /\ runners' = [runners EXCEPT ![r].fresh = FALSE]

StoreTypeOK == /\ commands \in [Commands -> Command]
               /\ runners  \in [Runners -> Runner]
=============================================================================
