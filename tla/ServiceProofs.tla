---------------------------- MODULE ServiceProofs ----------------------------
(***************************************************************************)
(* The server with its reaper implements Dispatch, which knows of none, so *)
(* what is proved of Dispatch holds of the whole server.                   *)
(***************************************************************************)
EXTENDS Service, DeliveryProofs

(* No row has a status that the two UPDATEs of the reaper look for.        *)
LEMMA ReaperFindsNothing ==
    ASSUME StoreTypeOK, ReaperStep
    PROVE  UNCHANGED commands
<1>1. \A c \in Commands : commands[c].status \notin {"pending", "running"}
  BY ResultAssumption DEF StoreTypeOK, Command, CommandStatus
<1>2. commands = [c \in Commands |-> commands[c]]
  BY DEF StoreTypeOK
<1>3. CASE ReapExpiredCommands
  BY <1>1, <1>2, <1>3 DEF ReapExpiredCommands, FailExpiredCommands
<1>4. CASE ReapStuckCommands
  BY <1>1, <1>2, <1>4 DEF ReapStuckCommands, FailStuckCommands
<1> QED
  BY <1>3, <1>4 DEF ReaperStep, ReapOrphanedRunners, ReaperStatementFails

(* The statement of the reaper that writes runners, and time, leave the    *)
(* table well typed and the mapped table as it is.                         *)
LEMMA ReapedRows ==
    ASSUME StoreTypeOK,
           UNCHANGED runners \/ MarkOrphanedRunners \/ \E r \in Runners : AgeLastSeen(r)
    PROVE  runners' \in [Runners -> Runner] /\ UNCHANGED unreaped
<1>t. runners \in [Runners -> Runner]
  BY DEF StoreTypeOK
<1>1. CASE UNCHANGED runners
  BY <1>t, <1>1 DEF unreaped, Unreaped
<1>2. CASE MarkOrphanedRunners
  <2>1. \A r \in Runners : /\ runners'[r] \in Runner
                           /\ Unreaped(runners'[r]) = Unreaped(runners[r])
    BY <1>t, <1>2 DEF MarkOrphanedRunners, Unreaped, Runner, RunnerStatus
  <2>2. runners' \in [Runners -> Runner]
    BY <2>1, <1>2 DEF MarkOrphanedRunners
  <2> QED
    BY <2>1, <2>2 DEF unreaped
<1>3. ASSUME NEW r \in Runners, AgeLastSeen(r)
      PROVE  runners' \in [Runners -> Runner] /\ UNCHANGED unreaped
  <2>1. runners' \in [Runners -> Runner]
    BY <1>t, <1>3 DEF AgeLastSeen, Runner
  <2>2. \A s \in Runners : Unreaped(runners'[s]) = Unreaped(runners[s])
    BY <1>t, <1>3 DEF AgeLastSeen, Unreaped, Runner
  <2> QED
    BY <2>1, <2>2 DEF unreaped
<1> QED
  BY <1>1, <1>2, <1>3

(* A step of the reaper or of time leaves commands and mapped table alone, *)
(* and the table typed.                                                    *)
LEMMA ReapOrAge ==
    ASSUME StoreTypeOK, Reap \/ \E r \in Runners : Age(r)
    PROVE  /\ UNCHANGED <<commands, unreaped, requestVars>>
           /\ runners' \in [Runners -> Runner]
<1>1. CASE Reap
  <2>1. UNCHANGED commands
    BY <1>1, ReaperFindsNothing DEF Reap
  <2>2. UNCHANGED runners \/ MarkOrphanedRunners
    BY <1>1 DEF Reap, ReaperStep, ReapExpiredCommands, ReapOrphanedRunners, ReapStuckCommands,
                ReaperStatementFails
  <2> QED
    BY <1>1, <2>1, <2>2, ReapedRows DEF Reap
<1>2. CASE \E r \in Runners : Age(r)
  BY <1>2, ReapedRows DEF Age
<1> QED
  BY <1>1, <1>2

(* A step of the service is one of Dispatch, or one of reaper and time.    *)
LEMMA ServiceSteps ==
    [ServiceNext]_serviceVars =>
        [Next]_vars \/ Reap \/ \E r \in Runners : Age(r)
  BY DEF ServiceNext, serviceVars, Serve, Restart, Next

(* Types.                                                                  *)
LEMMA ServiceTypeNext ==
    TypeOK /\ ReaperTypeOK /\ [ServiceNext]_serviceVars => TypeOK' /\ ReaperTypeOK'
<1> SUFFICES ASSUME TypeOK, ReaperTypeOK, [ServiceNext]_serviceVars
             PROVE  TypeOK' /\ ReaperTypeOK'
  OBVIOUS
<1>1. ReaperTypeOK'
  <2>1. CASE ReaperStep
    BY <2>1 DEF ReaperTypeOK, Statements, ReaperStep, ReapExpiredCommands, ReapOrphanedRunners,
                ReapStuckCommands, ReaperStatementFails
  <2>2. CASE reaper' = reaper \/ reaper' = "expired"
    BY <2>2 DEF ReaperTypeOK, Statements
  <2>3. ReaperStep \/ reaper' = reaper \/ reaper' = "expired"
    BY DEF ServiceNext, serviceVars, Serve, Restart, Reap, Age
  <2> QED
    BY <2>1, <2>2, <2>3
<1>2. CASE [Next]_vars
  BY <1>1, <1>2, TypeNext
<1>3. CASE Reap \/ \E r \in Runners : Age(r)
  <2>1. StoreTypeOK
    BY DEF TypeOK
  <2>2. /\ UNCHANGED <<commands, requestVars>>
        /\ runners' \in [Runners -> Runner]
    BY <1>3, <2>1, ReapOrAge
  <2>3. TypeOK'
    BY <2>1, <2>2, TypeParts, TypePartsNext, Kept DEF requestVars
  <2> QED
    BY <1>1, <2>3
<1> QED
  BY <1>1, <1>2, <1>3, ServiceSteps

(* The tables, requests and streams keep their types beside the reaper.    *)
THEOREM ServiceTypes == ServiceSpec => [](TypeOK /\ ReaperTypeOK)
<1>1. ServiceInit => TypeOK /\ ReaperTypeOK
  BY TypeInit DEF ServiceInit, ReaperTypeOK, Statements
<1> QED
  BY <1>1, ServiceTypeNext, PTL DEF ServiceSpec
-----------------------------------------------------------------------------
(* The refinement.                                                         *)

(* What the handlers read of a runner is the same in the mapped table.     *)
LEMMA ReadsAlike ==
    ASSUME StoreTypeOK
    PROVE  /\ \A r \in Runners : Exists(r) <=> AsDispatch!Exists(r)
           /\ \A c \in Commands :
                 LeastBusy(commands[c].value) = AsDispatch!LeastBusy(commands[c].value)
           /\ \A r \in Runners : unreaped[r].tags = runners[r].tags
           /\ \A q \in Requests : Matched(q) = AsDispatch!Matched(q)
<1>1. \A r \in Runners : /\ unreaped[r].active = runners[r].active
                         /\ unreaped[r].tags = runners[r].tags
                         /\ unreaped[r].status = "online" <=> runners[r].status = "online"
                         /\ unreaped[r].status = "absent" <=> runners[r].status = "absent"
  BY DEF StoreTypeOK, unreaped, Unreaped, Runner
<1>2. \A tag : OnlineWithTag(tag) = AsDispatch!OnlineWithTag(tag)
  BY <1>1 DEF OnlineWithTag, AsDispatch!OnlineWithTag
<1>3. \A tag : LeastBusy(tag) = AsDispatch!LeastBusy(tag)
  BY <1>1, <1>2 DEF LeastBusy, AsDispatch!LeastBusy, AsDispatch!OnlineWithTag
<1>4. \A r \in Runners : TagsInUse(r) = AsDispatch!TagsInUse(r)
  BY <1>1 DEF TagsInUse, AsDispatch!TagsInUse
<1>5. \A q \in Requests : Matched(q) = AsDispatch!Matched(q)
  BY <1>4 DEF Matched, AsDispatch!Matched
<1> QED
  BY <1>1, <1>3, <1>5 DEF Exists, AsDispatch!Exists

(* A statement of a handler is that statement on the mapped table.         *)
LEMMA WritesAlike ==
    ASSUME StoreTypeOK, NEW r \in Runners
    PROVE  /\ \A tags : UpsertRunner(r, tags) => AsDispatch!UpsertRunner(r, tags)
           /\ UpdateRunnerHeartbeat(r) => AsDispatch!UpdateRunnerHeartbeat(r)
           /\ UpdateRunnerStatus(r, "offline") => AsDispatch!UpdateRunnerStatus(r, "offline")
           /\ \A d \in {1, -1} :
                 IncrementRunnerActiveCount(r, d) => AsDispatch!IncrementRunnerActiveCount(r, d)
           /\ UNCHANGED runners => UNCHANGED unreaped
<1>t. runners \in [Runners -> Runner]
  BY DEF StoreTypeOK
<1>m. ASSUME NEW row, runners' = [runners EXCEPT ![r] = row]
      PROVE  unreaped' = [unreaped EXCEPT ![r] = Unreaped(row)]
  BY <1>t, <1>m DEF unreaped
<1>1. ASSUME NEW tags, UpsertRunner(r, tags) PROVE AsDispatch!UpsertRunner(r, tags)
  <2> DEFINE row == [runners[r] EXCEPT !.status = "online", !.tags = tags, !.fresh = TRUE]
  <2>1. Unreaped(row) = [unreaped[r] EXCEPT !.status = "online", !.tags = tags, !.fresh = TRUE]
    BY <1>t DEF unreaped, Unreaped, Runner
  <2> QED
    BY <1>t, <1>m, <1>1, <2>1 DEF UpsertRunner, AsDispatch!UpsertRunner, unreaped
<1>2. UpdateRunnerHeartbeat(r) => AsDispatch!UpdateRunnerHeartbeat(r)
  <2> DEFINE row == [runners[r] EXCEPT !.status = "online", !.fresh = TRUE]
  <2>1. ASSUME Exists(r)
        PROVE  Unreaped(row) = [unreaped[r] EXCEPT !.status = "online", !.fresh = TRUE]
    BY <1>t, <2>1 DEF unreaped, Unreaped, Runner, Exists
  <2> QED
    BY <1>t, <1>m, <2>1, ReadsAlike
    DEF UpdateRunnerHeartbeat, AsDispatch!UpdateRunnerHeartbeat, unreaped
<1>3. UpdateRunnerStatus(r, "offline") => AsDispatch!UpdateRunnerStatus(r, "offline")
  <2> DEFINE row == [runners[r] EXCEPT !.status = "offline"]
  <2>1. ASSUME Exists(r)
        PROVE  Unreaped(row) = [unreaped[r] EXCEPT !.status = "offline"]
    BY <1>t, <2>1 DEF unreaped, Unreaped, Runner, Exists
  <2> QED
    BY <1>t, <1>m, <2>1, ReadsAlike
    DEF UpdateRunnerStatus, AsDispatch!UpdateRunnerStatus, unreaped
<1>4. ASSUME NEW d \in {1, -1}, IncrementRunnerActiveCount(r, d)
      PROVE  AsDispatch!IncrementRunnerActiveCount(r, d)
  <2> DEFINE row == [runners[r] EXCEPT !.active = @ + d]
  <2>1. Unreaped(row) = [unreaped[r] EXCEPT !.active = @ + d]
    BY <1>t DEF unreaped, Unreaped, Runner
  <2> QED
    BY <1>t, <1>m, <1>4, <2>1, ReadsAlike
    DEF IncrementRunnerActiveCount, AsDispatch!IncrementRunnerActiveCount, unreaped
<1>5. UNCHANGED runners => UNCHANGED unreaped
  BY DEF unreaped
<1> QED
  BY <1>1, <1>2, <1>3, <1>4, <1>5

(* Each instance counts alike.                                             *)
LEMMA SameCardinality == \A S : AsDispatch!Cardinality(S) = Cardinality(S)
BY DEF Cardinality, AsDispatch!Cardinality, IsFiniteSet, AsDispatch!IsFiniteSet

(* The words of Dispatch that do not speak of runners mean the same.       *)
LEMMA SameWords ==
    /\ AsDispatch!Commands = Commands
    /\ AsDispatch!Events = Events
    /\ AsDispatch!NoCommand = NoCommand
    /\ AsDispatch!NoStream = NoStream
    /\ AsDispatch!NoFlush = NoFlush
    /\ \A c : AsDispatch!Note(c) = Note(c) /\ AsDispatch!Claim(c) = Claim(c)
    /\ \A s : AsDispatch!Cut(s) = Cut(s)
    /\ \A r, e : AsDispatch!Send(r, e) <=> Send(r, e)
    /\ \A r : AsDispatch!Streams(r) = Streams(r) /\ (AsDispatch!Linked(r) <=> Linked(r))
    /\ \A k : AsDispatch!Locked(k) = Locked(k)
    /\ \A c, r, tags, locked :
          AsDispatch!ClaimNextCommand(c, r, tags, locked) <=> ClaimNextCommand(c, r, tags, locked)
<1>1. /\ AsDispatch!Commands = Commands
      /\ AsDispatch!Events = Events
      /\ AsDispatch!NoCommand = NoCommand
  BY DEF AsDispatch!Commands, Commands, AsDispatch!Events, Events, AsDispatch!Paths, Paths,
         AsDispatch!NoCommand, NoCommand
<1>2. /\ AsDispatch!NoStream = NoStream
      /\ AsDispatch!NoFlush = NoFlush
      /\ \A c : AsDispatch!Note(c) = Note(c) /\ AsDispatch!Claim(c) = Claim(c)
      /\ \A s : AsDispatch!Cut(s) = Cut(s)
  BY DEF AsDispatch!NoStream, NoStream, AsDispatch!NoFlush, NoFlush, AsDispatch!Note, Note,
         AsDispatch!Claim, Claim, AsDispatch!Cut, Cut
<1>3. \A s, r, e : AsDispatch!Push(s, r, e) = Push(s, r, e)
  BY SameCardinality DEF AsDispatch!Push, Push
<1>4. \A r, e : AsDispatch!Send(r, e) <=> Send(r, e)
  BY <1>3 DEF AsDispatch!Send, Send
<1>5. \A r : AsDispatch!Streams(r) = Streams(r) /\ (AsDispatch!Linked(r) <=> Linked(r))
  BY DEF AsDispatch!Streams, Streams, AsDispatch!Linked, Linked
<1>6. \A c, r, tags : AsDispatch!Claimable(c, r, tags) <=> Claimable(c, r, tags)
  BY DEF AsDispatch!Claimable, Claimable
<1>7. \A c, r, tags, locked :
         AsDispatch!ClaimNextCommand(c, r, tags, locked) <=> ClaimNextCommand(c, r, tags, locked)
  BY <1>1, <1>6 DEF AsDispatch!ClaimNextCommand, ClaimNextCommand
<1>8. \A k : AsDispatch!Locked(k) = Locked(k)
  BY <1>1, <1>6 DEF AsDispatch!Locked, Locked
<1> QED
  BY <1>1, <1>2, <1>4, <1>5, <1>7, <1>8

(* Each action is that action on the mapped table.                         *)
LEMMA CommandStepsMap ==
    ASSUME TypeOK, RowsOK, NEW c \in Commands, CommandStep(c)
    PROVE  AsDispatch!CommandStep(c)
<1> USE SameWords DEF clientVars, AsDispatch!clientVars, reportVars, AsDispatch!reportVars, history,
                      AsDispatch!history
<1>t. StoreTypeOK
  BY DEF TypeOK
<1>u. UNCHANGED runners => UNCHANGED unreaped
  BY DEF unreaped
<1>1. ASSUME NEW q \in Requests, Insert(c, q)
      PROVE  AsDispatch!Insert(c, q)
  BY <1>t, <1>u, <1>1, ReadsAlike
  DEF Insert, AsDispatch!Insert, InsertCommand, AsDispatch!InsertCommand
<1>2. Route(c) => AsDispatch!Route(c)
  BY <1>t, <1>u, ReadsAlike DEF Route, AsDispatch!Route
<1>3. Notify(c) => AsDispatch!Notify(c)
  BY <1>u DEF Notify, AsDispatch!Notify
<1>4. NoteLost(c) => AsDispatch!NoteLost(c)
  BY <1>u DEF NoteLost, AsDispatch!NoteLost
<1>5. HandleNote(c) => AsDispatch!HandleNote(c)
  BY <1>u DEF HandleNote, AsDispatch!HandleNote
<1>6. ASSUME NoteIncr(c)
      PROVE  AsDispatch!NoteIncr(c)
  <2>1. to[c] \in Runners
    BY <1>6 DEF NoteIncr, RowsOK
  <2> QED
    BY <1>t, <1>6, <2>1, WritesAlike DEF NoteIncr, AsDispatch!NoteIncr
<1>7. NoteIncrFails(c) => AsDispatch!NoteIncrFails(c)
  BY <1>u DEF NoteIncrFails, AsDispatch!NoteIncrFails
<1>8. Kill(c) => AsDispatch!Kill(c)
  BY <1>u DEF Kill, AsDispatch!Kill, SetCommandKillRequested, AsDispatch!SetCommandKillRequested,
              Killable, AsDispatch!Killable
<1>9. Expire(c) => AsDispatch!Expire(c)
  BY <1>u DEF Expire, AsDispatch!Expire, PassDeadline, AsDispatch!PassDeadline
<1> QED
  BY <1>1, <1>2, <1>3, <1>4, <1>5, <1>6, <1>7, <1>8, <1>9
  DEF CommandStep, AsDispatch!CommandStep

(* The same for the streams ...                                            *)
LEMMA StreamStepsMap ==
    ASSUME TypeOK, NEW k \in Conns, StreamStep(k)
    PROVE  AsDispatch!StreamStep(k)
<1> USE SameWords DEF clientVars, AsDispatch!clientVars, reportVars, AsDispatch!reportVars, history,
                      AsDispatch!history
<1>t. StoreTypeOK
  BY DEF TypeOK
<1>u. UNCHANGED runners => UNCHANGED unreaped
  BY DEF unreaped
<1>1. ASSUME NEW r \in Runners, Connect(r, k)
      PROVE  AsDispatch!Connect(r, k)
  BY <1>t, <1>u, <1>1, ReadsAlike DEF Connect, AsDispatch!Connect
<1>2. LinkDown(k) => AsDispatch!LinkDown(k)
  BY <1>u DEF LinkDown, AsDispatch!LinkDown
<1>3. StreamEnd(k) => AsDispatch!StreamEnd(k)
  BY <1>u DEF StreamEnd, AsDispatch!StreamEnd
<1>4. ASSUME NEW c \in Commands
      PROVE  /\ FlushClaim(k, c) => AsDispatch!FlushClaim(k, c)
             /\ FlushClaimLost(k, c) => AsDispatch!FlushClaimLost(k, c)
  BY <1>u DEF FlushClaim, AsDispatch!FlushClaim, FlushClaimLost, AsDispatch!FlushClaimLost
<1>5. FlushGivesUp(k) => AsDispatch!FlushGivesUp(k)
  BY <1>u DEF FlushGivesUp, AsDispatch!FlushGivesUp
<1>6. ASSUME FlushIncr(k)
      PROVE  AsDispatch!FlushIncr(k)
  <2>1. flush[k].slug \in Runners
    BY <1>6 DEF FlushIncr, TypeOK, ShapeOK
  <2> QED
    BY <1>t, <1>6, <2>1, WritesAlike DEF FlushIncr, AsDispatch!FlushIncr
<1>7. FlushIncrFails(k) => AsDispatch!FlushIncrFails(k)
  BY <1>u DEF FlushIncrFails, AsDispatch!FlushIncrFails
<1>8. FlushSend(k) => AsDispatch!FlushSend(k)
  BY <1>u DEF FlushSend, AsDispatch!FlushSend
<1>9. \A e \in Events : Deliver(k, e) => AsDispatch!Deliver(k, e)
  BY <1>u, SameCardinality DEF Deliver, AsDispatch!Deliver
<1>10. ASSUME FlushLook(k)
       PROVE  AsDispatch!FlushLook(k)
  <2>1. flush[k].slug \in Runners
    BY <1>10 DEF FlushLook, TypeOK, ShapeOK
  <2> QED
    BY <1>t, <1>u, <1>10, <2>1, ReadsAlike DEF FlushLook, AsDispatch!FlushLook
<1> QED
  BY <1>1, <1>2, <1>3, <1>4, <1>5, <1>6, <1>7, <1>8, <1>9, <1>10
  DEF StreamStep, AsDispatch!StreamStep

(* ... and for the runners and their requests.                             *)
LEMMA RunnerStepsMap ==
    ASSUME TypeOK, NEW r \in Runners, RunnerStep(r)
    PROVE  AsDispatch!RunnerStep(r)
<1> USE SameWords DEF clientVars, AsDispatch!clientVars, reportVars, AsDispatch!reportVars, history,
                      AsDispatch!history
<1>t. StoreTypeOK
  BY DEF TypeOK
<1>u. UNCHANGED runners => UNCHANGED unreaped
  BY DEF unreaped
<1>1. Boot(r) => AsDispatch!Boot(r)
  BY <1>t, WritesAlike DEF Boot, AsDispatch!Boot
<1>2. Heartbeat(r) => AsDispatch!Heartbeat(r)
  BY <1>t, WritesAlike DEF Heartbeat, AsDispatch!Heartbeat
<1>3. Stop(r) => AsDispatch!Stop(r)
  BY <1>u DEF Stop, AsDispatch!Stop
<1>4. Deregister(r) => AsDispatch!Deregister(r)
  BY <1>t, WritesAlike DEF Deregister, AsDispatch!Deregister
<1>5. ASSUME NEW e \in Events
      PROVE  /\ Accept(r, e) => AsDispatch!Accept(r, e)
             /\ Drop(r, e) => AsDispatch!Drop(r, e)
             /\ Finish(r, e) => AsDispatch!Finish(r, e)
             /\ ReportLost(r, e) => AsDispatch!ReportLost(r, e)
  BY <1>u, SameCardinality DEF Accept, AsDispatch!Accept, Drop, AsDispatch!Drop, Finish,
                               AsDispatch!Finish, ReportLost, AsDispatch!ReportLost
<1>6. ASSUME NEW e \in Events, NEW o \in Finished, ReportResult(r, e, o)
      PROVE  AsDispatch!ReportResult(r, e, o)
  BY <1>u, <1>6 DEF ReportResult, AsDispatch!ReportResult, UpdateCommandStatus,
                    AsDispatch!UpdateCommandStatus
<1>7. ASSUME NEW e \in Events
      PROVE  /\ ReportSettles(r, e) => AsDispatch!ReportSettles(r, e)
             /\ ReportUnsettled(r, e) => AsDispatch!ReportUnsettled(r, e)
  BY <1>t, <1>u, WritesAlike DEF ReportSettles, AsDispatch!ReportSettles, ReportUnsettled,
                                 AsDispatch!ReportUnsettled
<1> QED
  BY <1>1, <1>2, <1>3, <1>4, <1>5, <1>6, <1>7 DEF RunnerStep, AsDispatch!RunnerStep

(* The rows and requests agree beside the reaper, as far as the map needs. *)
LEMMA ServiceRows == ServiceSpec => [](TypeOK /\ RowsOK)
<1>1. ServiceInit => RowsOK
  BY InvInit DEF ServiceInit, IInv
<1>2. TypeOK /\ RowsOK /\ [ServiceNext]_serviceVars => RowsOK'
  <2> SUFFICES ASSUME TypeOK, RowsOK, [ServiceNext]_serviceVars
               PROVE  RowsOK'
    OBVIOUS
  <2>1. CASE [Next]_vars
    BY <2>1, RowsNext
  <2>2. CASE Reap \/ \E r \in Runners : Age(r)
    BY <2>2, ReapOrAge, RowsKept DEF TypeOK, requestVars
  <2> QED
    BY <2>1, <2>2, ServiceSteps
<1> QED
  BY <1>1, <1>2, ServiceTypes, PTL DEF ServiceSpec

(* Every step of the service is a step of Dispatch, or none.               *)
LEMMA ServiceStepsMap ==
    TypeOK /\ RowsOK /\ [ServiceNext]_serviceVars => [AsDispatch!Next]_(AsDispatch!vars)
<1> SUFFICES ASSUME TypeOK, RowsOK, [ServiceNext]_serviceVars
             PROVE  AsDispatch!Next \/ UNCHANGED AsDispatch!vars
  OBVIOUS
<1> USE DEF clientVars, AsDispatch!clientVars, reportVars, AsDispatch!reportVars, history,
            AsDispatch!history
<1>1. CASE \E c \in Commands : CommandStep(c)
  BY <1>1, CommandStepsMap, SameWords DEF AsDispatch!Next
<1>2. CASE \E k \in Conns : StreamStep(k)
  BY <1>2, StreamStepsMap DEF AsDispatch!Next
<1>3. CASE \E r \in Runners : RunnerStep(r)
  BY <1>3, RunnerStepsMap DEF AsDispatch!Next
<1>4. CASE ServerCrash
  <2>1. UNCHANGED unreaped
    BY <1>4 DEF ServerCrash, unreaped
  <2> QED
    BY <1>4, <2>1, SameWords DEF ServerCrash, AsDispatch!ServerCrash, AsDispatch!Next
<1>5. CASE Reap \/ \E r \in Runners : Age(r)
  BY <1>5, ReapOrAge DEF TypeOK, requestVars, AsDispatch!vars
<1>6. CASE UNCHANGED serviceVars
  BY <1>6 DEF serviceVars, vars, unreaped, AsDispatch!vars
<1> QED
  BY <1>1, <1>2, <1>3, <1>4, <1>5, <1>6 DEF ServiceNext, Serve, Restart

(* The server with the reaper, mapped, behaves as Dispatch does: nobody    *)
(* can tell from commands, streams and requests whether the reaper runs.   *)
THEOREM ServiceIsDispatch == ServiceSpec => ReaperIsInvisible
<1>1. ServiceInit => AsDispatch!Init
  <2>1. Unreaped(NoRunner) = AsDispatch!NoRunner
    <3>1. NoRunner.status = "absent"
      BY DEF NoRunner
    <3>2. (NoRunner.status # "absent") = FALSE
      BY <3>1
    <3>3. Unreaped(NoRunner) = [NoRunner EXCEPT !.status = "absent", !.fresh = FALSE,
                                                !.orphanedAt = FALSE]
      BY <3>1, <3>2 DEF Unreaped
    <3> QED
      BY <3>3 DEF NoRunner, AsDispatch!NoRunner
  <2>2. ASSUME ServiceInit
        PROVE  unreaped = [r \in Runners |-> AsDispatch!NoRunner]
    BY <2>1, <2>2 DEF ServiceInit, Init, StoreInit, unreaped
  <2>3. ASSUME ServiceInit
        PROVE  AsDispatch!StoreInit
    BY <2>2, <2>3, SameWords DEF ServiceInit, Init, StoreInit, AsDispatch!StoreInit
  <2> QED
    BY <2>3, SameWords DEF ServiceInit, Init, AsDispatch!Init
<1> QED
  BY <1>1, ServiceRows, ServiceStepsMap, PTL
  DEF ServiceSpec, ReaperIsInvisible, AsDispatch!Spec
-----------------------------------------------------------------------------
(* What that gives: the theorems about Dispatch, read on the mapped table. *)
Alone == INSTANCE DeliveryProofs WITH runners <- unreaped

(* The two instances of Dispatch are the same, name by name.               *)
LEMMA SameSpec == AsDispatch!Spec => Alone!Spec
<1>1. AsDispatch!Init => Alone!Init
  BY
  DEF Alone!Init, AsDispatch!Init, Alone!StoreInit, AsDispatch!StoreInit, Alone!Commands,
      AsDispatch!Commands, Alone!NoStream, AsDispatch!NoStream, Alone!NoFlush, AsDispatch!NoFlush,
      Alone!Events, AsDispatch!Events, Alone!Paths, AsDispatch!Paths, Alone!NoCommand,
      AsDispatch!NoCommand, Alone!NoRunner, AsDispatch!NoRunner
<1>2. [AsDispatch!Next]_(AsDispatch!vars) => [Alone!Next]_(Alone!vars)
  BY Zenon
  DEF Alone!vars, AsDispatch!vars, Alone!Next, AsDispatch!Next, Alone!CommandStep,
      AsDispatch!CommandStep, Alone!Insert, AsDispatch!Insert, Alone!Route, AsDispatch!Route,
      Alone!Notify, AsDispatch!Notify, Alone!NoteLost, AsDispatch!NoteLost, Alone!HandleNote,
      AsDispatch!HandleNote, Alone!NoteIncr, AsDispatch!NoteIncr, Alone!NoteIncrFails,
      AsDispatch!NoteIncrFails, Alone!Kill, AsDispatch!Kill, Alone!Expire, AsDispatch!Expire,
      Alone!StreamStep, AsDispatch!StreamStep, Alone!Connect, AsDispatch!Connect, Alone!LinkDown,
      AsDispatch!LinkDown, Alone!StreamEnd, AsDispatch!StreamEnd, Alone!FlushLook,
      AsDispatch!FlushLook, Alone!Locked, AsDispatch!Locked, Alone!Matched, AsDispatch!Matched,
      Alone!TagsInUse, AsDispatch!TagsInUse, Alone!FlushClaim,
      AsDispatch!FlushClaim, Alone!FlushClaimLost, AsDispatch!FlushClaimLost, Alone!FlushGivesUp,
      AsDispatch!FlushGivesUp, Alone!FlushIncr, AsDispatch!FlushIncr, Alone!FlushIncrFails,
      AsDispatch!FlushIncrFails, Alone!FlushSend, AsDispatch!FlushSend, Alone!Deliver,
      AsDispatch!Deliver, Alone!RunnerStep, AsDispatch!RunnerStep, Alone!Boot, AsDispatch!Boot,
      Alone!Heartbeat, AsDispatch!Heartbeat, Alone!Accept, AsDispatch!Accept, Alone!Drop,
      AsDispatch!Drop, Alone!Finish, AsDispatch!Finish, Alone!Stop, AsDispatch!Stop,
      Alone!Deregister, AsDispatch!Deregister, Alone!ReportLost, AsDispatch!ReportLost,
      Alone!ReportResult, AsDispatch!ReportResult, Alone!ReportSettles, AsDispatch!ReportSettles,
      Alone!ReportUnsettled, AsDispatch!ReportUnsettled, Alone!ServerCrash,
      AsDispatch!ServerCrash, Alone!Commands, AsDispatch!Commands, Alone!NoStream,
      AsDispatch!NoStream, Alone!NoFlush, AsDispatch!NoFlush, Alone!Note, AsDispatch!Note,
      Alone!clientVars, AsDispatch!clientVars, Alone!Events, AsDispatch!Events, Alone!history, AsDispatch!history, Alone!IncrementRunnerActiveCount,
      AsDispatch!IncrementRunnerActiveCount, Alone!Exists, AsDispatch!Exists,
      Alone!UpdateCommandStatus, AsDispatch!UpdateCommandStatus, Alone!reportVars,
      AsDispatch!reportVars, Alone!Paths, AsDispatch!Paths, Alone!UpdateRunnerStatus,
      AsDispatch!UpdateRunnerStatus, Alone!Cut, AsDispatch!Cut, Alone!UpdateRunnerHeartbeat,
      AsDispatch!UpdateRunnerHeartbeat, Alone!UpsertRunner, AsDispatch!UpsertRunner, Alone!Send,
      AsDispatch!Send, Alone!Claim, AsDispatch!Claim, Alone!Push, AsDispatch!Push,
      Alone!ClaimNextCommand, AsDispatch!ClaimNextCommand, Alone!Claimable, AsDispatch!Claimable,
      Alone!Linked, AsDispatch!Linked, Alone!PassDeadline, AsDispatch!PassDeadline,
      Alone!SetCommandKillRequested, AsDispatch!SetCommandKillRequested, Alone!Killable,
      AsDispatch!Killable, Alone!Streams, AsDispatch!Streams, Alone!LeastBusy,
      AsDispatch!LeastBusy, Alone!OnlineWithTag, AsDispatch!OnlineWithTag, Alone!InsertCommand,
      AsDispatch!InsertCommand, Alone!NoCommand, AsDispatch!NoCommand, Alone!Cardinality,
      AsDispatch!Cardinality
<1> QED
  BY <1>1, <1>2, PTL DEF Alone!Spec, AsDispatch!Spec

(* What is proved of Dispatch, of the mapped table.                        *)
LEMMA AloneKeeps ==
    Alone!Spec => /\ []Alone!StartedAtMostOnce /\ []Alone!FlushExclusive
                  /\ []Alone!OnlyAddressed /\ []Alone!ActiveCountFloor
                  /\ Alone!KeepsLedger /\ Alone!ActAsExecutors
<1> USE TagsAssumption, ResultAssumption, CommandAssumption, NullAssumption, RequestAssumption, RequestTargets,
        EnvironmentAssumption, NoCmdAssumption
    DEF Alone!TargetTypes, TargetTypes, Alone!Surroundings, Surroundings, Alone!Commands, Commands
<1>1. Alone!Spec => []Alone!StartedAtMostOnce
  BY Alone!OneStartPerDispatch
<1>2. Alone!Spec => []Alone!FlushExclusive
  BY Alone!OneHolderPerRow
<1>3. Alone!Spec => []Alone!OnlyAddressed
  BY Alone!ReachesOnlyAddressed
<1>4. Alone!Spec => []Alone!ActiveCountFloor
  BY Alone!CountHasFloor
<1>5. Alone!Spec => Alone!KeepsLedger
  BY Alone!ImplementsLedger
<1>6. Alone!Spec => Alone!ActAsExecutors
  BY Alone!ImplementsExecutors
<1> QED
  BY <1>1, <1>2, <1>3, <1>4, <1>5, <1>6

(* These properties do not read what the map changes.                      *)
LEMMA AloneMeansTheSame ==
    ASSUME StoreTypeOK
    PROVE  /\ Alone!StartedAtMostOnce => StartedAtMostOnce
           /\ Alone!FlushExclusive => FlushExclusive
           /\ Alone!OnlyAddressed => OnlyAddressed
           /\ Alone!ActiveCountFloor => ActiveCountFloor
<1> USE DEF Alone!Commands, Commands, Alone!Events, Events, Alone!Paths, Paths
<1>1. Alone!StartedAtMostOnce => StartedAtMostOnce
  BY DEF Alone!StartedAtMostOnce, StartedAtMostOnce
<1>2. Alone!FlushExclusive => FlushExclusive
  BY DEF Alone!FlushExclusive, FlushExclusive, Alone!Holds, Holds
<1>3. Alone!OnlyAddressed => OnlyAddressed
  BY DEF Alone!OnlyAddressed, OnlyAddressed, Alone!AddressedTo, AddressedTo
<1>4. Alone!ActiveCountFloor => ActiveCountFloor
  <2>1. \A r \in Runners : unreaped[r].active = runners[r].active
    BY DEF StoreTypeOK, unreaped, Unreaped, Runner
  <2>2. \A r : Alone!Owed(r) = Owed(r)
    BY DEF Alone!Owed, Owed, Alone!Note, Note, Alone!Claim, Claim
  <2>3. \A S : Alone!Cardinality(S) = Cardinality(S)
    BY DEF Cardinality, Alone!Cardinality
  <2> QED
    BY <2>1, <2>2, <2>3 DEF Alone!ActiveCountFloor, ActiveCountFloor
<1> QED
  BY <1>1, <1>2, <1>3, <1>4

(* Nor does the ledger.                                                    *)
LEMMA SameLedger == Alone!KeepsLedger => KeepsLedger
<1> USE DEF Alone!Commands, Commands, Alone!Paths, Paths
<1>1. Alone!Promise!LedgerInit => Promise!LedgerInit
  BY DEF Alone!Promise!LedgerInit, Promise!LedgerInit
<1>2. Alone!Promise!LedgerNext => Promise!LedgerNext
  BY DEF Alone!Promise!LedgerNext, Promise!LedgerNext, Alone!Promise!Submit, Promise!Submit,
         Alone!Promise!Assign, Promise!Assign, Alone!Promise!Execute, Promise!Execute,
         Alone!Promise!Conclude, Promise!Conclude
<1>3. UNCHANGED Alone!Promise!ledger => UNCHANGED Promise!ledger
  BY DEF Alone!Promise!ledger, Promise!ledger
<1> QED
  BY <1>1, <1>2, <1>3, PTL
  DEF Alone!KeepsLedger, KeepsLedger, Alone!Promise!LedgerSpec, Promise!LedgerSpec

(* Nor do the executors.                                                   *)
LEMMA SameExecutors == Alone!ActAsExecutors => ActAsExecutors
<1> USE DEF Alone!Events, Events, Alone!Commands, Commands, Alone!Paths, Paths
<1>1. Alone!Clients!ExecutorsInit => Clients!ExecutorsInit
  BY DEF Alone!Clients!ExecutorsInit, Clients!ExecutorsInit
<1>2. Alone!Clients!ExecutorsNext => Clients!ExecutorsNext
  BY Zenon
  DEF Alone!Clients!ExecutorsNext, Clients!ExecutorsNext, Alone!Clients!Start, Clients!Start,
      Alone!Clients!Leave, Clients!Leave, Alone!Clients!Cardinality, Clients!Cardinality
<1>3. UNCHANGED Alone!Clients!executors => UNCHANGED Clients!executors
  BY DEF Alone!Clients!executors, Clients!executors
<1> QED
  BY <1>1, <1>2, <1>3, PTL
  DEF Alone!ActAsExecutors, ActAsExecutors, Alone!Clients!ExecutorsSpec, Clients!ExecutorsSpec

(* With the reaper at work and while time passes, a dispatch starts one    *)
(* process, a claimed row has one holder, commands reach only runners they *)
(* have matched, active_count has its floor, the ledger and the promise of *)
(* the executors are kept.                                                 *)
THEOREM ServiceKeepsPromises ==
    ServiceSpec => /\ []StartedAtMostOnce /\ []FlushExclusive /\ []OnlyAddressed
                   /\ []ActiveCountFloor /\ KeepsLedger /\ ActAsExecutors
<1>1. ServiceSpec => Alone!Spec
  BY ServiceIsDispatch, SameSpec, PTL DEF ReaperIsInvisible
<1>2. TypeOK => StoreTypeOK
  BY DEF TypeOK
<1> QED
  BY <1>1, <1>2, SameLedger, SameExecutors, AloneKeeps, AloneMeansTheSame, ServiceTypes, PTL
=============================================================================
