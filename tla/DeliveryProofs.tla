--------------------------- MODULE DeliveryProofs ---------------------------
(***************************************************************************)
(* Two proofs about where dispatches go, for every set of runners, tags,   *)
(* streams and requests and every environment:                             *)
(*                                                                         *)
(*   a command reaches only the runners it has matched (AddressInv);       *)
(*   active_count falls below zero by no more than the increments that are *)
(*   still to come or were lost (CountInv).                                *)
(*                                                                         *)
(* Both invariants are in DispatchInvariant; IInv, proved in               *)
(* DispatchProofs, is their hypothesis.                                    *)
(***************************************************************************)
EXTENDS DispatchProofs, FiniteSetTheorems

(* The target of a row, which only the insert writes.                      *)
TargetsKept == \A c \in Commands : /\ commands'[c].type  = commands[c].type
                                   /\ commands'[c].value = commands[c].value

(* Whom a row addresses, it addresses for good.                            *)
AddresseesKept == \A c \in Commands : \A r : AddressedTo(c, r) => AddressedTo(c, r)'

(* The statements on existing rows leave their targets alone.              *)
LEMMA TargetsOfStatements ==
    ASSUME StoreTypeOK, NEW c \in Commands,
           \/ \E r, tags, locked : ClaimNextCommand(c, r, tags, locked)
           \/ \E o : UpdateCommandStatus(c, o)
           \/ SetCommandKillRequested(c) \/ PassDeadline(c)
    PROVE  TargetsKept
<1>1. commands \in [Commands -> Command]
  BY DEF StoreTypeOK
<1> QED
  BY <1>1 DEF ClaimNextCommand, UpdateCommandStatus, SetCommandKillRequested, PassDeadline,
              Command, TargetsKept

(* Every step but an insert keeps the targets of all rows.                 *)
LEMMA TargetsNext ==
    ASSUME TypeOK, [Next]_vars
    PROVE  TargetsKept \/ \E c \in Commands : \E q \in Requests : Insert(c, q)
<1>0. StoreTypeOK
  BY DEF TypeOK
<1>1. UNCHANGED commands => TargetsKept
  BY DEF TargetsKept
<1>2. ASSUME NEW c \in Commands, CommandStep(c)
      PROVE  TargetsKept \/ \E q \in Requests : Insert(c, q)
  BY <1>0, <1>1, <1>2, TargetsOfStatements
  DEF CommandStep, Route, Notify, NoteLost, HandleNote, NoteIncr, NoteIncrFails, Kill, Expire
<1>3. ASSUME NEW k \in Conns, StreamStep(k) PROVE TargetsKept
  BY <1>0, <1>1, <1>3, TargetsOfStatements
  DEF StreamStep, Connect, LinkDown, StreamEnd, FlushLook, FlushClaim, FlushClaimLost, FlushGivesUp,
      FlushIncr, FlushIncrFails, FlushSend, Deliver
<1>4. ASSUME NEW r \in Runners, RunnerStep(r) PROVE TargetsKept
  <2>1. ASSUME NEW e \in Events, NEW o \in Finished, ReportResult(r, e, o) PROVE TargetsKept
    BY <1>0, <2>1, TargetsOfStatements, EventsOf DEF ReportResult
  <2> QED
    BY <1>1, <1>4, <2>1
    DEF RunnerStep, Boot, Heartbeat, Stop, Deregister, Accept, Drop, Finish, ReportLost, ReportSettles,
        ReportUnsettled
<1>5. CASE ServerCrash
  BY <1>1, <1>5 DEF ServerCrash
<1>6. CASE UNCHANGED vars
  BY <1>1, <1>6 DEF vars
<1> QED
  BY <1>2, <1>3, <1>4, <1>5, <1>6 DEF Next

(* An insert writes a row that had no target, the other rows stay; the row *)
(* is offered to those its request matches.                                *)
LEMMA InsertTarget ==
    ASSUME TypeOK, NEW c \in Commands, NEW q \in Requests, Insert(c, q)
    PROVE  /\ commands[c].status = "absent"
           /\ commands'[c].status = "queued" /\ commands'[c].assigned = None
           /\ commands'[c].type = q.type /\ commands'[c].value = q.value
           /\ offered'[c] = Matched(q)
           /\ \A d \in Commands : d # c => commands'[d] = commands[d] /\ offered'[d] = offered[d]
<1>1. commands \in [Commands -> Command] /\ offered \in [Commands -> SUBSET Runners]
  BY DEF TypeOK, StoreTypeOK
<1>2. /\ commands' = [commands EXCEPT ![c] = [NoCommand EXCEPT !.status = "queued",
                          !.type = q.type, !.value = q.value, !.deadline = q.deadline]]
      /\ offered' = [offered EXCEPT ![c] = Matched(q)]
      /\ commands[c].status = "absent"
  BY DEF Insert, InsertCommand
<1>3. commands'[c] = [NoCommand EXCEPT !.status = "queued", !.type = q.type,
                                       !.value = q.value, !.deadline = q.deadline]
  BY <1>1, <1>2
<1> QED
  BY <1>1, <1>2, <1>3 DEF NoCommand

(* A registration offers rows to one runner more.                          *)
LEMMA BootOffers ==
    ASSUME TypeOK, NEW r \in Runners, Boot(r)
    PROVE  /\ UNCHANGED <<commands, flush>>
           /\ \E tags \in SUBSET Tags :
                 /\ runners'[r].tags = tags
                 /\ \A s \in Runners : s # r => runners'[s].tags = runners[s].tags
                 /\ \A c \in Commands :
                       /\ offered[c] \subseteq offered'[c]
                       /\ commands[c].type = "tag" /\ commands[c].value \in tags => r \in offered'[c]
<1>1. runners \in [Runners -> Runner]
  BY DEF TypeOK, StoreTypeOK
<1>2. PICK tags \in TagSets[r] :
         /\ UpsertRunner(r, tags)
         /\ offered' = [c \in Commands |->
                IF commands[c].type = "tag" /\ commands[c].value \in tags
                THEN offered[c] \cup {r} ELSE offered[c]]
  BY DEF Boot
<1>3. tags \in SUBSET Tags
  BY TagsAssumption
<1>4. /\ runners'[r].tags = tags
      /\ \A s \in Runners : s # r => runners'[s].tags = runners[s].tags
  BY <1>1, <1>2 DEF UpsertRunner, Runner
<1>5. \A c \in Commands :
         /\ offered[c] \subseteq offered'[c]
         /\ commands[c].type = "tag" /\ commands[c].value \in tags => r \in offered'[c]
  BY <1>2
<1> QED
  BY <1>3, <1>4, <1>5 DEF Boot

(* Nothing else changes to whom rows are offered.                          *)
LEMMA OfferedNext ==
    ASSUME [Next]_vars
    PROVE  \/ UNCHANGED offered
           \/ \E c \in Commands : \E q \in Requests : Insert(c, q)
           \/ \E r \in Runners : Boot(r)
<1>1. ASSUME NEW c \in Commands, CommandStep(c)
      PROVE  UNCHANGED offered \/ \E q \in Requests : Insert(c, q)
  BY <1>1 DEF CommandStep, Route, Notify, NoteLost, HandleNote, NoteIncr, NoteIncrFails, Kill,
              Expire, history
<1>2. ASSUME NEW k \in Conns, StreamStep(k) PROVE UNCHANGED offered
  BY <1>2 DEF StreamStep, Connect, LinkDown, StreamEnd, FlushLook, FlushClaim, FlushClaimLost,
              FlushGivesUp, FlushIncr, FlushIncrFails, FlushSend, Deliver, history
<1>3. ASSUME NEW r \in Runners, RunnerStep(r) PROVE UNCHANGED offered \/ Boot(r)
  BY <1>3 DEF RunnerStep, Heartbeat, Stop, Deregister, Accept, Drop, Finish, ReportLost,
              ReportResult, ReportSettles, ReportUnsettled, history
<1> QED
  BY <1>1, <1>2, <1>3 DEF Next, ServerCrash, vars, history

(* So no step takes an addressee away.                                     *)
LEMMA AddresseesNext == TypeOK /\ RoutesOK /\ [Next]_vars => AddresseesKept
<1> SUFFICES ASSUME TypeOK, RoutesOK, [Next]_vars PROVE AddresseesKept
  OBVIOUS
<1>1. CASE UNCHANGED offered
  BY <1>1 DEF AddresseesKept, AddressedTo
<1>2. ASSUME NEW c \in Commands, NEW q \in Requests, Insert(c, q) PROVE AddresseesKept
  <2>1. offered[c] = {} /\ \A d \in Commands : d # c => offered'[d] = offered[d]
    BY <1>2, InsertTarget DEF RoutesOK
  <2> QED
    BY <2>1 DEF AddresseesKept, AddressedTo
<1>3. ASSUME NEW r \in Runners, Boot(r) PROVE AddresseesKept
  BY <1>3, BootOffers DEF AddresseesKept, AddressedTo
<1> QED
  BY <1>1, <1>2, <1>3, OfferedNext
-----------------------------------------------------------------------------
(* RoutesOK.                                                               *)

(* What a step must leave alone to keep RoutesOK.                          *)
LEMMA RoutesKept ==
    ASSUME RoutesOK, TargetsKept, AddresseesKept,
           \A c \in Commands :
              /\ commands'[c].status = "absent" =>
                    commands[c].status = "absent" /\ offered'[c] = offered[c]
              /\ commands'[c].assigned = commands[c].assigned
              /\ note'[c] = "inserted" => note[c] = "inserted"
              /\ note'[c] \in {"routed", "posted"} =>
                    note[c] \in {"routed", "posted"} /\ to'[c] = to[c]
    PROVE  RoutesOK'
  BY DEF RoutesOK, TargetsKept, AddresseesKept, AddressedTo

(* RoutesOK is inductive, given the types and MatchesOK: what the target   *)
(* of a row, or the tags just read, say is a runner the row has matched.   *)
LEMMA RoutesNext == TypeOK /\ RoutesOK /\ MatchesOK /\ [Next]_vars => RoutesOK'
<1> SUFFICES ASSUME TypeOK, RoutesOK, MatchesOK, [Next]_vars PROVE RoutesOK'
  OBVIOUS
<1>t. /\ commands \in [Commands -> Command] /\ StoreTypeOK
      /\ note \in [Commands -> {"idle", "inserted", "routed", "posted", "sent", "done"}]
      /\ to \in [Commands -> Runners \cup {None}]
      /\ \A k \in Conns : flush[k].pc # "idle" => flush[k].slug \in Runners
  BY DEF TypeOK, StoreTypeOK, ShapeOK
<1>a. AddresseesKept
  BY AddresseesNext
<1>1. ASSUME NEW c \in Commands, CommandStep(c) PROVE RoutesOK'
  <2>1. ASSUME NEW q \in Requests, Insert(c, q) PROVE RoutesOK'
    <3>1. /\ commands'[c].status = "queued" /\ commands'[c].assigned = None
          /\ commands'[c].type = q.type /\ offered'[c] = Matched(q)
          /\ \A d \in Commands : d # c => commands'[d] = commands[d] /\ offered'[d] = offered[d]
      BY <2>1, InsertTarget
    <3>2. /\ \A d \in Commands : d # c => note'[d] = note[d] /\ to'[d] = to[d]
          /\ q.type = "tag" => note'[c] = "inserted"
          /\ q.type # "tag" => note'[c] = "routed" /\ to'[c] = q.value
      BY <2>1, <1>t DEF Insert
    <3>3. q.type # "tag" => q.value \in Matched(q)
      BY DEF Matched
    <3>4. ASSUME NEW d \in Commands, d # c
          PROVE  /\ commands'[d].status = "absent" => commands'[d].value = None /\ offered'[d] = {}
                 /\ note'[d] = "inserted" => commands'[d].type = "tag"
                 /\ note'[d] \in {"routed", "posted"} => AddressedTo(d, to[d])'
                 /\ commands'[d].assigned # None => AddressedTo(d, commands[d].assigned)'
      BY <3>1, <3>2, <3>4 DEF RoutesOK, AddressedTo
    <3>5. /\ note'[c] = "inserted" => commands'[c].type = "tag"
          /\ note'[c] \in {"routed", "posted"} => AddressedTo(c, to[c])'
      BY <3>1, <3>2, <3>3 DEF AddressedTo
    <3> QED
      BY <3>1, <3>4, <3>5 DEF RoutesOK
  <2>2. CASE Route(c)
    <3>1. PICK r \in LeastBusy(commands[c].value) :
             note' = [note EXCEPT ![c] = "routed"] /\ to' = [to EXCEPT ![c] = r]
      BY <2>2 DEF Route
    <3>2. /\ r \in Runners /\ commands[c].type = "tag"
          /\ commands[c].value \in TagsInUse(r) /\ UNCHANGED <<commands, offered>>
      BY <2>2 DEF Route, RoutesOK, LeastBusy, OnlineWithTag, TagsInUse, history
    <3>3. AddressedTo(c, r)
      BY <3>2 DEF MatchesOK
    <3>4. /\ note'[c] = "routed" /\ to'[c] = r
          /\ \A d \in Commands : d # c => note'[d] = note[d] /\ to'[d] = to[d]
      BY <3>1, <1>t
    <3> QED
      BY <3>2, <3>3, <3>4 DEF RoutesOK, AddressedTo
  <2>3. CASE Notify(c) \/ NoteLost(c) \/ HandleNote(c) \/ NoteIncr(c) \/ NoteIncrFails(c)
    <3>1. /\ UNCHANGED <<commands, to, offered>> /\ TargetsKept
          /\ \A d \in Commands :
                /\ note'[d] = "inserted" => note[d] = "inserted"
                /\ note'[d] \in {"routed", "posted"} => note[d] \in {"routed", "posted"}
      BY <2>3, <1>t DEF Notify, NoteLost, HandleNote, NoteIncr, NoteIncrFails, TargetsKept, history
    <3> QED
      BY <3>1, <1>a, RoutesKept
  <2>4. CASE Kill(c) \/ Expire(c)
    <3>1. \A d \in Commands : /\ commands'[d].status = commands[d].status
                              /\ commands'[d].assigned = commands[d].assigned
      BY <2>4, <1>t DEF Kill, Expire, SetCommandKillRequested, PassDeadline, Command
    <3>2. TargetsKept /\ UNCHANGED <<note, to, offered>>
      BY <2>4, <1>t, TargetsOfStatements DEF Kill, Expire, history
    <3> QED
      BY <3>1, <3>2, <1>a, RoutesKept
  <2> QED
    BY <1>1, <2>1, <2>2, <2>3, <2>4 DEF CommandStep
<1>2. ASSUME NEW k \in Conns, StreamStep(k) PROVE RoutesOK'
  <2>1. ASSUME NEW c \in Commands, FlushClaim(k, c) \/ FlushClaimLost(k, c) PROVE RoutesOK'
    <3> DEFINE r == flush[k].slug
    <3>1. /\ r \in Runners /\ ClaimNextCommand(c, r, flush[k].tags, Locked(k))
          /\ UNCHANGED <<note, to, offered>>
      BY <2>1, <1>t DEF FlushClaim, FlushClaimLost, history
    <3>2. flush[k].tags \subseteq TagsInUse(r)
      BY DEF TagsInUse
    <3>3. AddressedTo(c, r)
      BY <3>1, <3>2 DEF ClaimNextCommand, Claimable, MatchesOK
    <3>4. TargetsKept
      BY <3>1, <1>t, TargetsOfStatements
    <3>5. /\ commands'[c].status = "claimed" /\ commands'[c].assigned = r
          /\ \A d \in Commands : d # c => commands'[d] = commands[d]
      BY <3>1, <1>t DEF ClaimNextCommand, Command
    <3> QED
      BY <3>1, <3>3, <3>4, <3>5 DEF RoutesOK, AddressedTo, TargetsKept
  <2>2. CASE \/ \E r \in Runners : Connect(r, k)
             \/ LinkDown(k) \/ StreamEnd(k) \/ FlushLook(k) \/ FlushGivesUp(k) \/ FlushIncr(k)
             \/ FlushIncrFails(k) \/ FlushSend(k) \/ \E e \in Events : Deliver(k, e)
    BY <2>2, <1>a, RoutesKept DEF Connect, LinkDown, StreamEnd, FlushLook, FlushGivesUp, FlushIncr,
                            FlushIncrFails, FlushSend, Deliver, TargetsKept, history
  <2> QED
    BY <1>2, <2>1, <2>2 DEF StreamStep
<1>3. ASSUME NEW r \in Runners, RunnerStep(r) PROVE RoutesOK'
  <2>1. ASSUME NEW e \in Events, NEW o \in Finished, ReportResult(r, e, o) PROVE RoutesOK'
    <3>1. e.cmd \in Commands /\ UpdateCommandStatus(e.cmd, o) /\ UNCHANGED <<note, to, offered>>
      BY <2>1, EventsOf DEF ReportResult, history
    <3>2. \A d \in Commands : /\ commands'[d].status = "absent" => commands[d].status = "absent"
                              /\ commands'[d].assigned = commands[d].assigned
      BY <3>1, <1>t, ResultAssumption DEF UpdateCommandStatus, Command
    <3>3. TargetsKept
      BY <3>1, <1>t, TargetsOfStatements
    <3> QED
      BY <3>1, <3>2, <3>3, <1>a, RoutesKept
  <2>2. CASE Boot(r)
    <3>1. UNCHANGED <<commands, note, to>> /\ TargetsKept
      BY <2>2 DEF Boot, TargetsKept
    <3>2. \A c \in Commands : commands[c].value = None => offered'[c] = offered[c]
      BY <2>2, NullAssumption, TagsAssumption DEF Boot
    <3>3. \A c \in Commands : commands[c].status = "absent" => commands[c].value = None
      BY DEF RoutesOK
    <3> QED
      BY <3>1, <3>2, <3>3, <1>a, RoutesKept
  <2>3. CASE \/ Heartbeat(r) \/ Stop(r) \/ Deregister(r)
             \/ \E e \in Events : \/ Accept(r, e) \/ Drop(r, e) \/ Finish(r, e)
                                  \/ ReportLost(r, e) \/ ReportSettles(r, e)
                                  \/ ReportUnsettled(r, e)
    BY <2>3, <1>a, RoutesKept DEF Heartbeat, Stop, Deregister, Accept, Drop, Finish, ReportLost,
                                  ReportSettles, ReportUnsettled, TargetsKept, history
  <2> QED
    BY <1>3, <2>1, <2>2, <2>3 DEF RunnerStep
<1>4. CASE ServerCrash
  <2>1. /\ UNCHANGED <<commands, to, offered>> /\ TargetsKept
        /\ \A d \in Commands : note'[d] \in {"idle", "done"}
    BY <1>4, <1>t DEF ServerCrash, TargetsKept
  <2> QED
    BY <2>1, <1>a, RoutesKept
<1>5. CASE UNCHANGED vars
  BY <1>5, <1>a, RoutesKept DEF vars, TargetsKept, history
<1> QED
  BY <1>1, <1>2, <1>3, <1>4, <1>5 DEF Next
-----------------------------------------------------------------------------
(* MatchesOK.                                                              *)

(* A tag comes into use with a registration; what a flush goroutine reads  *)
(* was in use already.                                                     *)
LEMMA TagsNext ==
    ASSUME TypeOK, [Next]_vars
    PROVE  \/ \A r \in Runners : TagsInUse(r)' \subseteq TagsInUse(r)
           \/ \E r \in Runners : Boot(r)
<1>t. /\ runners \in [Runners -> Runner] /\ flush \in [Conns -> Flush]
      /\ \A k \in Conns : flush[k].pc # "idle" => flush[k].slug \in Runners
  BY DEF TypeOK, StoreTypeOK, ShapeOK
<1> DEFINE Fewer == \A r \in Runners : TagsInUse(r)' \subseteq TagsInUse(r)
           Rows  == \A r \in Runners : runners'[r].tags = runners[r].tags
           Reads == \A k \in Conns : \/ flush'[k].tags = {}
                                     \/ /\ flush'[k].slug = flush[k].slug
                                        /\ \/ flush'[k].tags = flush[k].tags
                                           \/ /\ flush[k].slug \in Runners
                                              /\ flush'[k].tags = runners[flush[k].slug].tags
<1>1. Rows /\ Reads => Fewer
  BY DEF TagsInUse
<1>2. /\ UNCHANGED runners => Rows
      /\ UNCHANGED flush => Reads
  OBVIOUS
<1>3. ASSUME NEW r \in Runners,
             \/ UpdateRunnerHeartbeat(r) \/ UpdateRunnerStatus(r, "offline")
             \/ IncrementRunnerActiveCount(r, 1) \/ IncrementRunnerActiveCount(r, -1)
      PROVE  Rows
  BY <1>3, <1>t DEF UpdateRunnerHeartbeat, UpdateRunnerStatus, IncrementRunnerActiveCount, Runner
<1>4. ASSUME NEW c \in Commands, NoteIncr(c) PROVE Rows
  <2>1. IncrementRunnerActiveCount(to[c], 1) /\ to[c] \in Runners \cup {None}
    BY <1>4 DEF NoteIncr, TypeOK
  <2> QED
    BY <2>1, <1>t DEF IncrementRunnerActiveCount, Runner
<1>5. ASSUME NEW c \in Commands, CommandStep(c) PROVE Fewer
  BY <1>5, <1>4, <1>1, <1>2
  DEF CommandStep, Insert, Route, Notify, NoteLost, HandleNote, NoteIncr, NoteIncrFails, Kill, Expire
<1>6. ASSUME NEW k \in Conns, StreamStep(k) PROVE Fewer
  <2>1. ASSUME NEW r \in Runners, Connect(r, k) PROVE Rows /\ Reads
    <3>1. [NoFlush EXCEPT !.pc = "start", !.slug = r].tags = {}
      BY DEF NoFlush
    <3> QED
      BY <2>1, <3>1, <1>t DEF Connect
  <2>2. ASSUME FlushLook(k) PROVE Rows /\ Reads
    <3>1. /\ flush' = [flush EXCEPT ![k].pc = "looked", ![k].tags = runners[flush[k].slug].tags]
          /\ flush[k].slug \in Runners /\ UNCHANGED runners
      BY <2>2, <1>t DEF FlushLook
    <3> QED
      BY <3>1, <1>t DEF Flush
  <2>3. ASSUME NEW c \in Commands, FlushClaim(k, c) PROVE Rows /\ Reads
    BY <2>3, <1>t DEF FlushClaim, Flush
  <2>4. ASSUME \/ \E c \in Commands : FlushClaimLost(k, c)
               \/ FlushGivesUp(k) \/ FlushSend(k)
        PROVE  Rows /\ Reads
    BY <2>4, <1>t DEF FlushClaimLost, FlushGivesUp, FlushSend, NoFlush
  <2>5. ASSUME FlushIncr(k) \/ FlushIncrFails(k) PROVE Rows /\ Reads
    BY <2>5, <1>t, <1>3 DEF FlushIncr, FlushIncrFails, Flush
  <2> QED
    BY <1>6, <2>1, <2>2, <2>3, <2>4, <2>5, <1>1, <1>2 DEF StreamStep, LinkDown, StreamEnd, Deliver
<1>7. ASSUME NEW r \in Runners, RunnerStep(r), ~Boot(r) PROVE Fewer
  BY <1>7, <1>1, <1>2, <1>3
  DEF RunnerStep, Heartbeat, Stop, Deregister, Accept, Drop, Finish, ReportLost, ReportResult,
      ReportSettles, ReportUnsettled, clientVars
<1>8. CASE ServerCrash
  BY <1>8, <1>1, <1>2 DEF ServerCrash, NoFlush
<1>9. CASE UNCHANGED vars
  BY <1>9, <1>1, <1>2 DEF vars
<1> QED
  BY <1>5, <1>6, <1>7, <1>8, <1>9 DEF Next

(* MatchesOK is inductive: an insert and a registration record whom the    *)
(* rows match, every other step leaves no more tags in use than there were.*)
LEMMA MatchesNext == TypeOK /\ RoutesOK /\ MatchesOK /\ [Next]_vars => MatchesOK'
<1> SUFFICES ASSUME TypeOK, RoutesOK, MatchesOK, [Next]_vars PROVE MatchesOK'
  OBVIOUS
<1>a. AddresseesKept
  BY AddresseesNext
<1>1. ASSUME NEW c \in Commands, NEW q \in Requests, Insert(c, q) PROVE MatchesOK'
  <2>1. /\ commands'[c].type = q.type /\ commands'[c].value = q.value
        /\ offered'[c] = Matched(q)
        /\ \A d \in Commands : d # c => commands'[d] = commands[d] /\ offered'[d] = offered[d]
    BY <1>1, InsertTarget
  <2>2. \A r \in Runners : TagsInUse(r)' = TagsInUse(r)
    BY <1>1 DEF Insert, TagsInUse
  <2>3. \A r \in Runners : /\ q.type \in {"slug", "runner"} /\ q.value = r => r \in Matched(q)
                           /\ q.type = "tag" /\ q.value \in TagsInUse(r) => r \in Matched(q)
    BY DEF Matched
  <2> QED
    BY <2>1, <2>2, <2>3 DEF MatchesOK, AddressedTo
<1>2. ASSUME NEW r \in Runners, Boot(r) PROVE MatchesOK'
  <2>1. PICK tags \in SUBSET Tags :
           /\ UNCHANGED <<commands, flush>>
           /\ runners'[r].tags = tags
           /\ \A s \in Runners : s # r => runners'[s].tags = runners[s].tags
           /\ \A c \in Commands :
                 commands[c].type = "tag" /\ commands[c].value \in tags => r \in offered'[c]
    BY <1>2, BootOffers
  <2>2. \A s \in Runners : TagsInUse(s)' \subseteq TagsInUse(s) \cup (IF s = r THEN tags ELSE {})
    BY <2>1 DEF TagsInUse
  <2> QED
    BY <2>1, <2>2, <1>a DEF MatchesOK, AddresseesKept, AddressedTo
<1>3. ASSUME TargetsKept, \A r \in Runners : TagsInUse(r)' \subseteq TagsInUse(r) PROVE MatchesOK'
  BY <1>3, <1>a DEF MatchesOK, TargetsKept, AddresseesKept
<1> QED
  BY <1>1, <1>2, <1>3, TargetsNext, TagsNext
-----------------------------------------------------------------------------
(* PlacesOK.                                                               *)

(* No event comes to a new place, and no channel changes its slug under    *)
(* the events it holds.                                                    *)
PlacesFewer ==
    /\ \A k \in Conns : \A e \in stream'[k].chan :
          e \in stream[k].chan /\ stream'[k].slug = stream[k].slug
    /\ \A r \in Runners : /\ inbox'[r] \subseteq inbox[r]
                          /\ active'[r] \subseteq active[r]
    /\ results' \subseteq results

(* Such a step keeps PlacesOK.                                             *)
LEMMA FewerKeeps ==
    ASSUME PlacesOK, AddresseesKept, PlacesFewer,
           \A k \in Conns : stream[k].chan # {} => stream[k].slug \in Runners
    PROVE  PlacesOK'
<1>1. \A e \in Events : e.cmd \in Commands
  BY EventsOf
<1>2. ASSUME NEW e \in Events, NEW k \in Conns, e \in stream'[k].chan
      PROVE  AddressedTo(e.cmd, stream[k].slug)'
  <2>1. /\ e \in stream[k].chan /\ stream'[k].slug = stream[k].slug
        /\ stream[k].slug \in Runners
    BY <1>2 DEF PlacesFewer
  <2>2. AddressedTo(e.cmd, stream[k].slug)
    BY <2>1 DEF PlacesOK
  <2> QED
    BY <1>1, <2>1, <2>2 DEF AddresseesKept, AddressedTo
<1>3. ASSUME NEW e \in Events, NEW r \in Runners,
             e \in inbox'[r] \/ e \in active'[r] \/ <<r, e>> \in results'
      PROVE  AddressedTo(e.cmd, r)'
  <2>1. AddressedTo(e.cmd, r)
    BY <1>3 DEF PlacesFewer, PlacesOK
  <2> QED
    BY <1>1, <2>1 DEF AddresseesKept
<1> QED
  BY <1>2, <1>3 DEF PlacesOK

(* A push to the streams of an addressee keeps PlacesOK.                   *)
LEMMA SendKeeps ==
    ASSUME TypeOK, PlacesOK, AddresseesKept, NEW r \in Runners, NEW e \in Events,
           AddressedTo(e.cmd, r), Send(r, e), UNCHANGED <<inbox, active, results>>
    PROVE  PlacesOK'
<1>1. \A f \in Events : f.cmd \in Commands
  BY EventsOf
<1>2. /\ stream \in [Conns -> Stream]
      /\ \A k \in Conns : stream[k].chan # {} => stream[k].slug \in Runners
  BY DEF TypeOK, ShapeOK
<1>3. ASSUME NEW f \in Events, NEW k \in Conns, f \in stream'[k].chan
      PROVE  AddressedTo(f.cmd, stream[k].slug)'
  <2>1. f \in stream[k].chan \/ (f = e /\ stream[k].slug = r)
    BY <1>3, SendAdds
  <2>2. stream'[k].slug = stream[k].slug
    BY <1>2 DEF Send, Push, Stream
  <2>3. stream[k].slug \in Runners /\ AddressedTo(f.cmd, stream[k].slug)
    BY <1>2, <2>1 DEF PlacesOK
  <2> QED
    BY <1>1, <2>2, <2>3 DEF AddresseesKept, AddressedTo
<1>4. ASSUME NEW f \in Events, NEW s \in Runners,
             f \in inbox'[s] \/ f \in active'[s] \/ <<s, f>> \in results'
      PROVE  AddressedTo(f.cmd, s)'
  BY <1>1, <1>4 DEF PlacesOK, AddresseesKept
<1> QED
  BY <1>3, <1>4 DEF PlacesOK

(* An event that moves on within one runner keeps PlacesOK.                *)
LEMMA MoveKeeps ==
    ASSUME PlacesOK, AddresseesKept, NEW r \in Runners, NEW e \in Events,
           AddressedTo(e.cmd, r),
           \A k \in Conns : /\ stream'[k].slug = stream[k].slug
                            /\ stream'[k].chan \subseteq stream[k].chan,
           \A k \in Conns : stream[k].chan # {} => stream[k].slug \in Runners,
           \A s \in Runners : \A f \in Events :
              f \in inbox'[s] \/ f \in active'[s] \/ <<s, f>> \in results' =>
                 f \in inbox[s] \/ f \in active[s] \/ <<s, f>> \in results \/ (s = r /\ f = e)
    PROVE  PlacesOK'
<1>1. \A f \in Events : f.cmd \in Commands
  BY EventsOf
<1>2. ASSUME NEW f \in Events, NEW k \in Conns, f \in stream'[k].chan
      PROVE  AddressedTo(f.cmd, stream[k].slug)'
  <2>1. /\ f \in stream[k].chan /\ stream'[k].slug = stream[k].slug
        /\ stream[k].slug \in Runners
    BY <1>2
  <2>2. AddressedTo(f.cmd, stream[k].slug)
    BY <2>1 DEF PlacesOK
  <2> QED
    BY <1>1, <2>1, <2>2 DEF AddresseesKept, AddressedTo
<1>3. ASSUME NEW f \in Events, NEW s \in Runners,
             f \in inbox'[s] \/ f \in active'[s] \/ <<s, f>> \in results'
      PROVE  AddressedTo(f.cmd, s)'
  <2>1. AddressedTo(f.cmd, s)
    BY <1>3 DEF PlacesOK
  <2> QED
    BY <1>1, <2>1 DEF AddresseesKept
<1> QED
  BY <1>2, <1>3 DEF PlacesOK

(* PlacesOK is inductive, given the types, FlushesOK, RowsOK and RoutesOK: *)
(* what is pushed goes to the runner its notification or its claim names,  *)
(* and from a channel it goes on within the client that reads it.          *)
LEMMA PlacesNext ==
    TypeOK /\ RowsOK /\ FlushesOK /\ RoutesOK /\ PlacesOK /\ [Next]_vars => PlacesOK'
<1> SUFFICES ASSUME TypeOK, RowsOK, FlushesOK, RoutesOK, PlacesOK, [Next]_vars PROVE PlacesOK'
  OBVIOUS
<1>t. /\ stream \in [Conns -> Stream] /\ flush \in [Conns -> Flush]
      /\ \A k \in Conns : stream[k].chan # {} => stream[k].slug \in Runners
      /\ \A k \in Conns : flush[k].pc # "idle" => flush[k].slug \in Runners
      /\ \A k \in Conns : flush[k].pc \in {"claimed", "counted"} => flush[k].cmd \in Commands
      /\ inbox \in [Runners -> SUBSET Events] /\ active \in [Runners -> SUBSET Events]
      /\ results \subseteq Runners \X Events
  BY DEF TypeOK, ShapeOK
<1>a. AddresseesKept
  BY AddresseesNext
<1>f. PlacesFewer => PlacesOK'
  BY <1>a, <1>t, FewerKeeps
<1>s. UNCHANGED <<stream, inbox, active, results>> => PlacesOK'
  BY <1>f DEF PlacesFewer
<1>1. ASSUME NEW c \in Commands, CommandStep(c) PROVE PlacesOK'
  <2>1. CASE HandleNote(c)
    <3>1. to[c] \in Runners /\ AddressedTo(c, to[c])
      BY <2>1 DEF HandleNote, RowsOK, RoutesOK
    <3>2. Note(c) \in Events /\ Note(c).cmd = c
      BY DEF Events, Paths, Note
    <3> QED
      BY <2>1, <3>1, <3>2, <1>a, SendKeeps DEF HandleNote, clientVars, reportVars
  <2> QED
    BY <1>1, <2>1, <1>s
    DEF CommandStep, Insert, Route, Notify, NoteLost, NoteIncr, NoteIncrFails, Kill, Expire,
        clientVars, reportVars
<1>2. ASSUME NEW k \in Conns, StreamStep(k) PROVE PlacesOK'
  <2>1. ASSUME NEW r \in Runners, Connect(r, k) PROVE PlacesFewer
    BY <2>1, <1>t DEF Connect, PlacesFewer, Stream, clientVars, reportVars
  <2>2. ASSUME LinkDown(k) \/ StreamEnd(k) PROVE PlacesFewer
    <3>1. Cut(stream[k]).chan = {} /\ NoStream.chan = {}
      BY <1>t DEF Cut, NoStream, Stream
    <3> QED
      BY <2>2, <3>1, <1>t DEF LinkDown, StreamEnd, PlacesFewer, clientVars, reportVars
  <2>3. CASE FlushSend(k)
    <3> DEFINE c == flush[k].cmd
               r == flush[k].slug
    <3>1. r \in Runners /\ c \in Commands /\ commands[c].assigned = r
      BY <2>3, <1>t DEF FlushSend, FlushesOK
    <3>2. AddressedTo(c, r)
      BY <3>1, NullAssumption DEF RoutesOK
    <3>3. Claim(c) \in Events /\ Claim(c).cmd = c
      BY <3>1 DEF Events, Paths, Claim
    <3> QED
      BY <2>3, <3>1, <3>2, <3>3, <1>a, SendKeeps DEF FlushSend, clientVars, reportVars
  <2>4. ASSUME NEW e \in Events, Deliver(k, e) PROVE PlacesOK'
    <3> DEFINE r == stream[k].slug
    <3>1. /\ r \in Runners /\ e \in stream[k].chan
          /\ inbox' = [inbox EXCEPT ![r] = @ \cup {e}]
          /\ \A l \in Conns : stream'[l].chan \subseteq stream[l].chan
          /\ UNCHANGED <<active, results>>
      BY <2>4, DeliverMoves
    <3>2. \A l \in Conns : stream'[l].slug = stream[l].slug
      BY <2>4, <1>t DEF Deliver, Stream
    <3>3. AddressedTo(e.cmd, r)
      BY <3>1 DEF PlacesOK
    <3> QED
      BY <3>1, <3>2, <3>3, <1>a, <1>t, MoveKeeps
  <2> QED
    BY <1>2, <2>1, <2>2, <2>3, <2>4, <1>f, <1>s
    DEF StreamStep, FlushLook, FlushClaim, FlushClaimLost, FlushGivesUp, FlushIncr, FlushIncrFails,
        clientVars, reportVars
<1>3. ASSUME NEW r \in Runners, RunnerStep(r) PROVE PlacesOK'
  <2>1. CASE Stop(r)
    <3>1. \A k \in Conns : Cut(stream[k]).chan = {}
      BY <1>t DEF Cut, Stream
    <3> QED
      BY <2>1, <3>1, <1>t, <1>f DEF Stop, PlacesFewer, reportVars
  <2>2. ASSUME NEW e \in Events, Accept(r, e) \/ Finish(r, e) PROVE PlacesOK'
    <3>1. AddressedTo(e.cmd, r)
      BY <2>2 DEF Accept, Finish, PlacesOK
    <3>2. UNCHANGED stream /\ \A s \in Runners : \A f \in Events :
              f \in inbox'[s] \/ f \in active'[s] \/ <<s, f>> \in results' =>
                 f \in inbox[s] \/ f \in active[s] \/ <<s, f>> \in results \/ (s = r /\ f = e)
      BY <2>2, <1>t DEF Accept, Finish, reportVars
    <3> QED
      BY <3>1, <3>2, <1>a, <1>t, MoveKeeps
  <2>3. ASSUME NEW e \in Events, Drop(r, e) \/ ReportLost(r, e) PROVE PlacesFewer
    BY <2>3, <1>t DEF Drop, ReportLost, PlacesFewer, clientVars, reportVars
  <2>4. ASSUME NEW e \in Events, NEW o \in Finished, ReportResult(r, e, o) PROVE PlacesFewer
    BY <2>4, <1>t DEF ReportResult, PlacesFewer, clientVars
  <2> QED
    BY <1>3, <2>1, <2>2, <2>3, <2>4, <1>f, <1>s
    DEF RunnerStep, Boot, Heartbeat, Deregister, ReportSettles, ReportUnsettled, clientVars, reportVars
<1>4. CASE ServerCrash
  BY <1>4, <1>f DEF ServerCrash, NoStream, PlacesFewer, clientVars
<1>5. CASE UNCHANGED vars
  BY <1>5, <1>s DEF vars, clientVars, reportVars
<1> QED
  BY <1>1, <1>2, <1>3, <1>4, <1>5 DEF Next
-----------------------------------------------------------------------------
(* Nothing is addressed, routed or sent at first.                          *)
LEMMA AddressInit == Init => AddressInv
<1> SUFFICES ASSUME Init PROVE AddressInv
  OBVIOUS
<1>1. RoutesOK
  <2>1. \A c \in Commands : commands[c] = NoCommand /\ note[c] = "idle"
    BY DEF Init, StoreInit
  <2>2. \A c \in Commands : offered[c] = {}
    BY DEF Init
  <2> QED
    BY <2>1, <2>2 DEF RoutesOK, NoCommand
<1>2. MatchesOK
  <2>1. \A c \in Commands : commands[c].value = None
    BY DEF Init, StoreInit, NoCommand
  <2>2. \A r \in Runners : TagsInUse(r) = {}
    BY DEF Init, StoreInit, NoRunner, NoFlush, TagsInUse
  <2> QED
    BY <2>1, <2>2, NullAssumption DEF MatchesOK
<1>3. PlacesOK
  BY DEF Init, NoStream, PlacesOK
<1> QED
  BY <1>1, <1>2, <1>3 DEF AddressInv

(* AddressInv holds in every reachable state.                              *)
THEOREM AddressInvariance == Spec => []AddressInv
<1>1. IInv /\ AddressInv /\ [Next]_vars => AddressInv'
  BY RoutesNext, MatchesNext, PlacesNext DEF IInv, AddressInv
<1> QED
  BY <1>1, AddressInit, Invariance, PTL DEF Spec

(* A runner only ever runs, and reports, commands that have named it or    *)
(* one of its tags since they were posted, however stale the tags were by  *)
(* which they were routed or claimed, and whoever competes for the row.    *)
THEOREM ReachesOnlyAddressed == Spec => []OnlyAddressed
<1>1. TypeOK /\ AddressInv => OnlyAddressed
  <2> SUFFICES ASSUME TypeOK, AddressInv, NEW r \in Runners,
                      NEW e \in active[r] \cup {x[2] : x \in {y \in results : y[1] = r}}
               PROVE  AddressedTo(e.cmd, r)
    BY DEF OnlyAddressed
  <2>1. active[r] \subseteq Events /\ results \subseteq Runners \X Events
    BY DEF TypeOK
  <2>2. e \in Events /\ (e \in active[r] \/ <<r, e>> \in results)
    BY <2>1
  <2> QED
    BY <2>2 DEF AddressInv, PlacesOK
<1> QED
  BY <1>1, AddressInvariance, TypeCorrect, PTL
-----------------------------------------------------------------------------
(* What is counted.                                                        *)

(* The sets that are counted are finite.                                   *)
LEMMA EventsFinite == IsFiniteSet(Events)
<1> DEFINE f == [x \in Commands \X Paths |-> [cmd |-> x[1], via |-> x[2]]]
<1>1. IsFiniteSet(Commands)
  BY CommandAssumption, FS_Interval DEF Commands
<1>2. IsFiniteSet(Paths)
  <2>1. IsFiniteSet({"note"} \cup {"claim"})
    BY FS_Singleton, FS_Union
  <2>2. Paths = {"note"} \cup {"claim"}
    BY DEF Paths
  <2> QED
    BY <2>1, <2>2
<1>3. IsFiniteSet(Commands \X Paths)
  BY <1>1, <1>2, FS_Product
<1>4. f \in Surjection(Commands \X Paths, Events)
  <2>1. f \in [Commands \X Paths -> Events]
    BY DEF Events
  <2>2. ASSUME NEW e \in Events PROVE \E x \in Commands \X Paths : f[x] = e
    <3>1. /\ <<e.cmd, e.via>> \in Commands \X Paths
          /\ e = [cmd |-> e.cmd, via |-> e.via]
      BY DEF Events
    <3> QED
      BY <3>1
  <2> QED
    BY <2>1, <2>2 DEF Surjection
<1> QED
  BY <1>3, <1>4, FS_Surjection

(* What is owed and what is outstanding, before and after a step.          *)
LEMMA CountedFinite ==
    ASSUME NEW r
    PROVE  /\ IsFiniteSet(Owed(r)) /\ IsFiniteSet(Outstanding(r))
           /\ IsFiniteSet(Owed(r)') /\ IsFiniteSet(Outstanding(r)')
<1>1. IsFiniteSet(1 .. (2 * MaxCommands))
  BY CommandAssumption, FS_Interval
<1>2. Owed(r) \subseteq 1 .. (2 * MaxCommands) /\ Owed(r)' \subseteq 1 .. (2 * MaxCommands)
  BY CommandAssumption DEF Owed, Commands
<1>3. Outstanding(r) \subseteq Events /\ Outstanding(r)' \subseteq Events
  BY DEF Outstanding
<1> QED
  BY <1>1, <1>2, <1>3, EventsFinite, FS_Subset

(* What a step may do to the account of a runner: add nothing to what is   *)
(* outstanding, count a dispatch that is owed or new, owe a new one, or    *)
(* settle one that is outstanding.                                         *)
Counts(r, n)   == runners'[r].active = runners[r].active + n
DebtsStay(r)   == Owed(r) \subseteq Owed(r)'
NoneNew(r)     == Outstanding(r)' \subseteq Outstanding(r)
OneNew(r)      == \E e : Outstanding(r)' \subseteq Outstanding(r) \cup {e}

Balanced(r) ==
    \/ Counts(r, 0) /\ DebtsStay(r) /\ NoneNew(r)
    \/ Counts(r, 1) /\ NoneNew(r) /\ \E x : Owed(r) \ {x} \subseteq Owed(r)'
    \/ Counts(r, 1) /\ DebtsStay(r) /\ OneNew(r)
    \/ Counts(r, 0) /\ OneNew(r) /\ \E x : x \notin Owed(r) /\ Owed(r) \cup {x} \subseteq Owed(r)'
    \/ /\ Counts(r, -1) /\ DebtsStay(r)
       /\ \E e \in Outstanding(r) : Outstanding(r)' \subseteq Outstanding(r) \ {e}

(* The arithmetic of these five cases.                                     *)
LEMMA Account ==
    ASSUME NEW P, NEW Q, NEW P2, NEW Q2,
           IsFiniteSet(P), IsFiniteSet(Q), IsFiniteSet(P2), IsFiniteSet(Q2),
           NEW a \in Int, NEW b \in Int, a + Cardinality(P) >= Cardinality(Q),
           \/ b = a + 0 /\ P \subseteq P2 /\ Q2 \subseteq Q
           \/ b = a + 1 /\ Q2 \subseteq Q /\ \E x : P \ {x} \subseteq P2
           \/ b = a + 1 /\ P \subseteq P2 /\ \E y : Q2 \subseteq Q \cup {y}
           \/ b = a + 0 /\ (\E y : Q2 \subseteq Q \cup {y}) /\ \E x : x \notin P /\ P \cup {x} \subseteq P2
           \/ b = a + (-1) /\ P \subseteq P2 /\ \E y \in Q : Q2 \subseteq Q \ {y}
    PROVE  b + Cardinality(P2) >= Cardinality(Q2)
<1>1. \A S, T : IsFiniteSet(T) /\ S \subseteq T => IsFiniteSet(S) /\ Cardinality(S) <= Cardinality(T)
  BY FS_Subset
<1>2. \A S : IsFiniteSet(S) => Cardinality(S) \in Nat
  BY FS_CardinalityType
<1>3. \A S, x : IsFiniteSet(S) =>
         /\ IsFiniteSet(S \cup {x}) /\ Cardinality(S \cup {x}) <= Cardinality(S) + 1
         /\ x \notin S => Cardinality(S \cup {x}) = Cardinality(S) + 1
         /\ IsFiniteSet(S \ {x}) /\ Cardinality(S \ {x}) >= Cardinality(S) - 1
         /\ x \in S => Cardinality(S \ {x}) = Cardinality(S) - 1
  <2> TAKE S, x
  <2> HAVE IsFiniteSet(S)
  <2>1. Cardinality(S) \in Nat
    BY <1>2
  <2>2. /\ IsFiniteSet(S \cup {x})
        /\ Cardinality(S \cup {x}) = IF x \in S THEN Cardinality(S) ELSE Cardinality(S) + 1
    BY FS_AddElement
  <2>3. /\ IsFiniteSet(S \ {x})
        /\ Cardinality(S \ {x}) = IF x \in S THEN Cardinality(S) - 1 ELSE Cardinality(S)
    BY FS_RemoveElement
  <2> QED
    BY <2>1, <2>2, <2>3
<1>4. /\ Cardinality(P) \in Nat /\ Cardinality(Q) \in Nat
      /\ Cardinality(P2) \in Nat /\ Cardinality(Q2) \in Nat
  BY <1>2
<1>5. P \subseteq P2 => Cardinality(P) <= Cardinality(P2)
  BY <1>1
<1>6. Q2 \subseteq Q => Cardinality(Q2) <= Cardinality(Q)
  BY <1>1
<1>7. ASSUME NEW y, Q2 \subseteq Q \cup {y} PROVE Cardinality(Q2) <= Cardinality(Q) + 1
  <2>1. /\ IsFiniteSet(Q \cup {y}) /\ Cardinality(Q \cup {y}) <= Cardinality(Q) + 1
        /\ Cardinality(Q \cup {y}) \in Nat
    BY <1>2, <1>3
  <2>2. Cardinality(Q2) <= Cardinality(Q \cup {y})
    BY <1>1, <1>7, <2>1
  <2> QED
    BY <1>4, <2>1, <2>2
<1>8. ASSUME NEW x, P \ {x} \subseteq P2 PROVE Cardinality(P) - 1 <= Cardinality(P2)
  <2>1. /\ IsFiniteSet(P \ {x}) /\ Cardinality(P \ {x}) >= Cardinality(P) - 1
        /\ Cardinality(P \ {x}) \in Nat
    BY <1>2, <1>3
  <2>2. Cardinality(P \ {x}) <= Cardinality(P2)
    BY <1>1, <1>8, <2>1
  <2> QED
    BY <1>4, <2>1, <2>2
<1>9. ASSUME NEW x, x \notin P, P \cup {x} \subseteq P2 PROVE Cardinality(P) + 1 <= Cardinality(P2)
  <2>1. IsFiniteSet(P \cup {x}) /\ Cardinality(P \cup {x}) = Cardinality(P) + 1
    BY <1>3, <1>9
  <2> QED
    BY <1>1, <1>9, <2>1
<1>10. ASSUME NEW y \in Q, Q2 \subseteq Q \ {y} PROVE Cardinality(Q2) <= Cardinality(Q) - 1
  <2>1. IsFiniteSet(Q \ {y}) /\ Cardinality(Q \ {y}) = Cardinality(Q) - 1
    BY <1>3
  <2> QED
    BY <1>1, <1>10, <2>1
<1>11. CASE b = a + 0 /\ P \subseteq P2 /\ Q2 \subseteq Q
  BY <1>4, <1>5, <1>6, <1>11
<1>12. CASE b = a + 1 /\ Q2 \subseteq Q /\ \E x : P \ {x} \subseteq P2
  <2>1. Cardinality(P) - 1 <= Cardinality(P2)
    BY <1>8, <1>12
  <2> QED
    BY <1>4, <1>6, <1>12, <2>1
<1>13. CASE b = a + 1 /\ P \subseteq P2 /\ \E y : Q2 \subseteq Q \cup {y}
  <2>1. Cardinality(Q2) <= Cardinality(Q) + 1
    BY <1>7, <1>13
  <2> QED
    BY <1>4, <1>5, <1>13, <2>1
<1>14. CASE b = a + 0 /\ (\E y : Q2 \subseteq Q \cup {y}) /\ \E x : x \notin P /\ P \cup {x} \subseteq P2
  <2>1. Cardinality(Q2) <= Cardinality(Q) + 1
    BY <1>7, <1>14
  <2>2. Cardinality(P) + 1 <= Cardinality(P2)
    BY <1>9, <1>14
  <2> QED
    BY <1>4, <1>14, <2>1, <2>2
<1>15. CASE b = a + (-1) /\ P \subseteq P2 /\ \E y \in Q : Q2 \subseteq Q \ {y}
  <2>1. Cardinality(Q2) <= Cardinality(Q) - 1
    BY <1>10, <1>15
  <2> QED
    BY <1>4, <1>5, <1>15, <2>1
<1> QED
  BY <1>11, <1>12, <1>13, <1>14, <1>15

(* A balanced step keeps as much counted or owed as is outstanding.        *)
LEMMA BalancedKeeps ==
    ASSUME TypeOK, TypeOK', CountOK, \A r \in Runners : Balanced(r)
    PROVE  CountOK'
<1> SUFFICES ASSUME NEW r \in Runners
             PROVE  (runners[r].active + Cardinality(Owed(r)) >= Cardinality(Outstanding(r)))'
  BY DEF CountOK
<1>1. runners[r].active \in Int /\ runners'[r].active \in Int
  BY DEF TypeOK, StoreTypeOK, Runner
<1> DEFINE P  == Owed(r)
           P2 == Owed(r)'
           Q  == Outstanding(r)
           Q2 == Outstanding(r)'
           a  == runners[r].active
           b  == runners'[r].active
<1>2. IsFiniteSet(P) /\ IsFiniteSet(Q) /\ IsFiniteSet(P2) /\ IsFiniteSet(Q2)
  BY CountedFinite
<1>5. a + Cardinality(P) >= Cardinality(Q)
  BY DEF CountOK
<1>6. \/ b = a + 0 /\ P \subseteq P2 /\ Q2 \subseteq Q
      \/ b = a + 1 /\ Q2 \subseteq Q /\ \E x : P \ {x} \subseteq P2
      \/ b = a + 1 /\ P \subseteq P2 /\ \E y : Q2 \subseteq Q \cup {y}
      \/ b = a + 0 /\ (\E y : Q2 \subseteq Q \cup {y}) /\ \E x : x \notin P /\ P \cup {x} \subseteq P2
      \/ b = a + (-1) /\ P \subseteq P2 /\ \E y \in Q : Q2 \subseteq Q \ {y}
  <2>1. Balanced(r)
    OBVIOUS
  <2> QED
    BY <2>1, Zenon DEF Balanced, Counts, DebtsStay, NoneNew, OneNew
<1>3. a \in Int /\ b \in Int
  BY <1>1
<1> HIDE DEF P, P2, Q, Q2, a, b
<1>7. b + Cardinality(P2) >= Cardinality(Q2)
  BY <1>2, <1>3, <1>5, <1>6, Account
<1> QED
  BY <1>7 DEF P2, Q2, b
-----------------------------------------------------------------------------
(* What the steps do to these sets.                                        *)

(* Only a listener's increment pays a debt.                                *)
LEMMA DebtsNext ==
    ASSUME TypeOK, RowsOK, UncountedOK, [Next]_vars
    PROVE  (\A r \in Runners : DebtsStay(r)) \/ \E c \in Commands : NoteIncr(c)
<1>t. /\ commands \in [Commands -> Command]
      /\ note \in [Commands -> {"idle", "inserted", "routed", "posted", "sent", "done"}]
      /\ to \in [Commands -> Runners \cup {None}]
  BY DEF TypeOK, StoreTypeOK
<1> DEFINE Due(c)  == note[c] = "sent" \/ Note(c) \in uncounted
           Stays   == /\ uncounted \subseteq uncounted'
                      /\ \A c \in Commands : Due(c) => Due(c)' /\ to'[c] = to[c]
           Given   == \A c \in Commands : commands[c].assigned # None =>
                         commands'[c].assigned = commands[c].assigned
<1>1. Stays /\ Given => \A r \in Runners : DebtsStay(r)
  BY DEF UncountedOK, DebtsStay, Owed
<1>2. /\ UNCHANGED <<note, to, uncounted>> => Stays
      /\ UNCHANGED commands => Given
  OBVIOUS
<1>3. ASSUME NEW c \in Commands, CommandStep(c), ~NoteIncr(c) PROVE Stays /\ Given
  <2>1. ASSUME NEW q \in Requests, Insert(c, q) PROVE Stays /\ Given
    <3>1. note[c] = "idle" /\ commands[c].assigned = None /\ Note(c) \notin uncounted
      BY <2>1 DEF Insert, InsertCommand, RowsOK, UncountedOK
    <3> QED
      BY <2>1, <3>1, <1>t DEF Insert, InsertCommand, history
  <2>2. CASE Route(c)
    <3>1. note[c] = "inserted" /\ Note(c) \notin uncounted
      BY <2>2 DEF Route, UncountedOK
    <3> QED
      BY <2>2, <3>1, <1>t DEF Route, history
  <2>3. CASE Notify(c) \/ NoteLost(c) \/ HandleNote(c) \/ NoteIncrFails(c)
    BY <2>3, <1>t DEF Notify, NoteLost, HandleNote, NoteIncrFails, history
  <2>4. CASE Kill(c) \/ Expire(c)
    BY <2>4, <1>t DEF Kill, Expire, SetCommandKillRequested, PassDeadline, Command, history
  <2> QED
    BY <1>3, <2>1, <2>2, <2>3, <2>4 DEF CommandStep
<1>4. ASSUME NEW k \in Conns, StreamStep(k) PROVE Stays /\ Given
  <2>1. ASSUME NEW c \in Commands, FlushClaim(k, c) \/ FlushClaimLost(k, c) PROVE Given
    <3>1. /\ ClaimNextCommand(c, flush[k].slug, flush[k].tags, Locked(k))
          /\ commands[c].assigned = None
      BY <2>1, <1>t DEF FlushClaim, FlushClaimLost, ClaimNextCommand, Claimable, RowsOK, Command
    <3> QED
      BY <3>1, <1>t DEF ClaimNextCommand, Command
  <2> QED
    BY <1>4, <2>1, <1>2
    DEF StreamStep, Connect, LinkDown, StreamEnd, FlushLook, FlushClaim, FlushClaimLost,
        FlushGivesUp, FlushIncr, FlushIncrFails, FlushSend, Deliver, history
<1>5. ASSUME NEW r \in Runners, RunnerStep(r) PROVE Stays /\ Given
  <2>1. ASSUME NEW e \in Events, NEW o \in Finished, ReportResult(r, e, o) PROVE Given
    BY <2>1, <1>t DEF ReportResult, UpdateCommandStatus, Command
  <2> QED
    BY <1>5, <2>1, <1>2
    DEF RunnerStep, Boot, Heartbeat, Stop, Deregister, Accept, Drop, Finish, ReportLost, ReportResult,
        ReportSettles, ReportUnsettled, history
<1>6. CASE ServerCrash
  <2>1. ASSUME NEW c \in Commands, Due(c) PROVE Due(c)'
    BY <1>6, <2>1 DEF ServerCrash
  <2> QED
    BY <1>6, <2>1, <1>1 DEF ServerCrash
<1>7. CASE UNCHANGED vars
  BY <1>1, <1>2, <1>7 DEF vars, history
<1> QED
  BY <1>1, <1>3, <1>4, <1>5, <1>6, <1>7 DEF Next

(* Only a push that answered true, and a flush goroutine past its counting,*)
(* bring a dispatch to a runner; from there it moves on within the runner. *)
LEMMA OutstandingNext ==
    ASSUME TypeOK, RowsOK, [Next]_vars
    PROVE  \/ \A r \in Runners : NoneNew(r)
           \/ \E c \in Commands : HandleNote(c) /\ Streams(to[c]) # {}
           \/ \E k \in Conns : FlushIncr(k) \/ FlushIncrFails(k)
<1>t. /\ stream \in [Conns -> Stream] /\ flush \in [Conns -> Flush]
      /\ inbox \in [Runners -> SUBSET Events] /\ active \in [Runners -> SUBSET Events]
      /\ results \subseteq Runners \X Events /\ settling \subseteq Runners \X Events
      /\ \A k \in Conns : flush[k].pc # "idle" => flush[k].slug \in Runners
      /\ \A k \in Conns : flush[k].pc \in {"claimed", "counted"} => flush[k].cmd \in Commands
  BY DEF TypeOK, ShapeOK
<1> DEFINE Still == \A r \in Runners : NoneNew(r)
           Same  == UNCHANGED <<stream, flush, inbox, active, results, settling>>
           Less  == /\ \A k \in Conns : \A e \in stream'[k].chan :
                          e \in stream[k].chan /\ stream'[k].slug = stream[k].slug
                    /\ \A k \in Conns : flush'[k].pc = "counted" => flush'[k] = flush[k]
                    /\ \A r \in Runners : inbox'[r] \subseteq inbox[r] /\ active'[r] \subseteq active[r]
                    /\ results' \subseteq results /\ settling' \subseteq settling
<1>1. Less => Still
  BY DEF NoneNew, Outstanding
<1>2. Same => Less
  OBVIOUS
<1>3. ASSUME NEW c \in Commands, CommandStep(c), ~(HandleNote(c) /\ Streams(to[c]) # {}) PROVE Less
  <2>1. CASE HandleNote(c)
    <3>1. \A k \in Conns : stream[k].slug # to[c]
      BY <1>3, <2>1 DEF Streams
    <3>2. \A k \in Conns : stream'[k] = stream[k]
      BY <2>1, <3>1 DEF HandleNote, Send, Push
    <3> QED
      BY <2>1, <3>2 DEF HandleNote, clientVars, reportVars
  <2> QED
    BY <1>3, <2>1, <1>2
    DEF CommandStep, Insert, Route, Notify, NoteLost, NoteIncr, NoteIncrFails, Kill, Expire,
        clientVars, reportVars
<1>4. ASSUME NEW k \in Conns, StreamStep(k), ~(FlushIncr(k) \/ FlushIncrFails(k)) PROVE Still
  <2>1. ASSUME NEW r \in Runners, Connect(r, k) PROVE Less
    BY <2>1, <1>t DEF Connect, clientVars, reportVars
  <2>2. CASE LinkDown(k) \/ StreamEnd(k)
    <3>1. Cut(stream[k]).chan = {} /\ NoStream.chan = {}
      BY <1>t DEF Cut, NoStream, Stream
    <3> QED
      BY <2>2, <3>1, <1>t, <1>1 DEF LinkDown, StreamEnd, clientVars, reportVars
  <2>3. ASSUME \/ \E c \in Commands : FlushClaim(k, c) \/ FlushClaimLost(k, c)
               \/ FlushLook(k) \/ FlushGivesUp(k)
        PROVE  Less
    <3>1. flush'[k].pc # "counted" /\ \A l \in Conns : l # k => flush'[l] = flush[l]
      BY <2>3, <1>t DEF FlushLook, FlushClaim, FlushClaimLost, FlushGivesUp, Flush, NoFlush
    <3>2. UNCHANGED <<stream, inbox, active, results, settling>>
      BY <2>3 DEF FlushLook, FlushClaim, FlushClaimLost, FlushGivesUp, clientVars, reportVars
    <3> QED
      BY <3>1, <3>2
  <2>4. CASE FlushSend(k)
    <3> DEFINE r == flush[k].slug
               f == Claim(flush[k].cmd)
    <3>1. r \in Runners /\ f \in Events /\ flush[k].pc = "counted"
      BY <2>4, <1>t, EventsOf DEF FlushSend
    <3>2. \A l \in Conns : \A e \in Events : e \in stream'[l].chan =>
             e \in stream[l].chan \/ (e = f /\ stream[l].slug = r)
      BY <2>4, <3>1, SendAdds DEF FlushSend
    <3>3. \A l \in Conns : stream'[l].slug = stream[l].slug
      BY <2>4, <1>t DEF FlushSend, Send, Push, Stream
    <3>4. \A l \in Conns : flush'[l].pc = "counted" => flush'[l] = flush[l]
      BY <2>4, <1>t DEF FlushSend, NoFlush
    <3>5. UNCHANGED <<inbox, active, results, settling>>
      BY <2>4 DEF FlushSend, clientVars, reportVars
    <3> QED
      BY <3>1, <3>2, <3>3, <3>4, <3>5 DEF NoneNew, Outstanding
  <2>5. ASSUME NEW e \in Events, Deliver(k, e) PROVE Still
    <3>1. /\ stream[k].slug \in Runners /\ e \in stream[k].chan
          /\ inbox' = [inbox EXCEPT ![stream[k].slug] = @ \cup {e}]
          /\ \A l \in Conns : stream'[l].chan \subseteq stream[l].chan
      BY <2>5, DeliverMoves
    <3>2. /\ \A l \in Conns : stream'[l].slug = stream[l].slug
          /\ UNCHANGED <<flush, active, results, settling>>
      BY <2>5, <1>t DEF Deliver, Stream, reportVars
    <3> QED
      BY <3>1, <3>2, <1>t DEF NoneNew, Outstanding
  <2> QED
    BY <1>4, <2>1, <2>2, <2>3, <2>4, <2>5, <1>1 DEF StreamStep
<1>5. ASSUME NEW r \in Runners, RunnerStep(r) PROVE Still
  <2>1. CASE Stop(r)
    <3>1. \A k \in Conns : Cut(stream[k]).chan = {} /\ Cut(stream[k]).slug = stream[k].slug
      BY <1>t DEF Cut, Stream
    <3> QED
      BY <2>1, <3>1, <1>t, <1>1 DEF Stop, reportVars
  <2>2. ASSUME NEW e \in Events, Accept(r, e) \/ Finish(r, e) PROVE Still
    BY <2>2, <1>t DEF Accept, Finish, NoneNew, Outstanding, reportVars
  <2>3. ASSUME NEW e \in Events, Drop(r, e) \/ ReportLost(r, e) \/ ReportSettles(r, e) \/ ReportUnsettled(r, e)
        PROVE  Less
    BY <2>3, <1>t DEF Drop, ReportLost, ReportSettles, ReportUnsettled, clientVars, reportVars
  <2>4. ASSUME NEW e \in Events, NEW o \in Finished, ReportResult(r, e, o) PROVE Still
    BY <2>4, <1>t DEF ReportResult, NoneNew, Outstanding, clientVars
  <2> QED
    BY <1>5, <2>1, <2>2, <2>3, <2>4, <1>1, <1>2
    DEF RunnerStep, Boot, Heartbeat, Deregister, clientVars, reportVars
<1>6. CASE ServerCrash
  BY <1>6, <1>1 DEF ServerCrash, NoStream, NoFlush, clientVars
<1>7. CASE UNCHANGED vars
  BY <1>7, <1>1 DEF vars, clientVars, reportVars
<1> QED
  BY <1>1, <1>3, <1>4, <1>5, <1>6, <1>7 DEF Next

(* Three statements change active_count.                                   *)
LEMMA CountsNext ==
    ASSUME TypeOK, RowsOK, [Next]_vars
    PROVE  \/ \A r \in Runners : Counts(r, 0)
           \/ \E c \in Commands : NoteIncr(c)
           \/ \E k \in Conns : FlushIncr(k)
           \/ \E r \in Runners : \E e \in Events : ReportSettles(r, e)
<1>t. /\ runners \in [Runners -> Runner]
      /\ \A r \in Runners : runners[r].active \in Int
  BY DEF TypeOK, StoreTypeOK, Runner
<1> DEFINE Still == \A r \in Runners : Counts(r, 0)
<1>1. UNCHANGED runners => Still
  BY <1>t DEF Counts
<1>2. ASSUME NEW r \in Runners,
             \/ \E tags \in SUBSET Tags : UpsertRunner(r, tags)
             \/ UpdateRunnerHeartbeat(r) \/ UpdateRunnerStatus(r, "offline")
      PROVE  Still
  <2>1. ASSUME NEW tags \in SUBSET Tags, UpsertRunner(r, tags) PROVE Still
    <3>1. \A s \in Runners : runners'[s].active = runners[s].active
      BY <2>1, <1>t DEF UpsertRunner, Runner
    <3> QED
      BY <3>1, <1>t DEF Counts
  <2>2. CASE UpdateRunnerHeartbeat(r) \/ UpdateRunnerStatus(r, "offline")
    <3>1. \A s \in Runners : runners'[s].active = runners[s].active
      BY <2>2, <1>t DEF UpdateRunnerHeartbeat, UpdateRunnerStatus, Runner
    <3> QED
      BY <3>1, <1>t DEF Counts
  <2> QED
    BY <1>2, <2>1, <2>2
<1>3. ASSUME NEW c \in Commands, CommandStep(c), ~NoteIncr(c) PROVE Still
  BY <1>1, <1>3
  DEF CommandStep, Insert, Route, Notify, NoteLost, HandleNote, NoteIncrFails, Kill, Expire
<1>4. ASSUME NEW k \in Conns, StreamStep(k), ~FlushIncr(k) PROVE Still
  BY <1>1, <1>4
  DEF StreamStep, Connect, LinkDown, StreamEnd, FlushLook, FlushClaim, FlushClaimLost, FlushGivesUp,
      FlushIncrFails, FlushSend, Deliver
<1>5. ASSUME NEW r \in Runners, RunnerStep(r), ~\E e \in Events : ReportSettles(r, e) PROVE Still
  BY <1>1, <1>2, <1>5, TagsAssumption
  DEF RunnerStep, Boot, Heartbeat, Stop, Deregister, Accept, Drop, Finish, ReportLost, ReportResult,
      ReportUnsettled
<1>6. CASE ServerCrash
  BY <1>1, <1>6 DEF ServerCrash
<1>7. CASE UNCHANGED vars
  BY <1>1, <1>7 DEF vars
<1> QED
  BY <1>3, <1>4, <1>5, <1>6, <1>7 DEF Next

(* An increment or decrement of one row.                                   *)
LEMMA IncrementCounts ==
    ASSUME TypeOK, NEW r \in Runners, NEW d \in {1, -1}, IncrementRunnerActiveCount(r, d)
    PROVE  Counts(r, d) /\ \A s \in Runners : s # r => Counts(s, 0)
<1>1. runners \in [Runners -> Runner] /\ \A s \in Runners : runners[s].active \in Int
  BY DEF TypeOK, StoreTypeOK, Runner
<1> QED
  BY <1>1 DEF IncrementRunnerActiveCount, Counts, Runner

(* A settled result was nowhere else, so settling it takes it away.        *)
LEMMA SettlesTakes ==
    ASSUME TypeOK, UnsentOK, SentOK, SettlingOK, FlushesOK,
           NEW r \in Runners, NEW e \in Events, ReportSettles(r, e)
    PROVE  e \in Outstanding(r) /\ e \notin Outstanding(r)'
<1>1. <<r, e>> \in settling /\ Spent(e) /\ starts[e] = 1
  BY DEF ReportSettles, SettlingOK, Spent
<1>2. \A k \in Conns : e \notin stream[k].chan
  BY <1>1 DEF SentOK
<1>3. \A s \in Runners : e \notin inbox[s] /\ e \notin active[s] /\ <<s, e>> \notin results
  BY <1>1 DEF SentOK, Spent
<1>4. ASSUME NEW k \in Conns, flush[k].pc = "counted" PROVE e # Claim(flush[k].cmd)
  <2>1. flush[k].cmd \in Commands
    BY <1>4 DEF TypeOK, ShapeOK
  <2>2. Unsent(Claim(flush[k].cmd))
    BY <1>4, <2>1 DEF Unsent, Holds, Claim
  <2> QED
    BY <1>1, <2>1, <2>2, EventsOf DEF UnsentOK
<1>5. <<r, e>> \notin settling' /\ UNCHANGED <<stream, flush, inbox, active, results>>
  BY DEF ReportSettles, clientVars
<1> QED
  BY <1>1, <1>2, <1>3, <1>4, <1>5 DEF Outstanding

(* Every step keeps the accounts balanced.                                 *)
LEMMA BalancedNext ==
    ASSUME IInv, UncountedOK, SettlingOK, [Next]_vars
    PROVE  \A r \in Runners : Balanced(r)
<1>i. TypeOK /\ RowsOK /\ FlushesOK /\ UnsentOK /\ SentOK
  BY DEF IInv
<1>t. /\ note \in [Commands -> {"idle", "inserted", "routed", "posted", "sent", "done"}]
      /\ stream \in [Conns -> Stream] /\ flush \in [Conns -> Flush]
      /\ runners \in [Runners -> Runner]
      /\ \A r \in Runners : runners[r].active \in Int
      /\ \A k \in Conns : flush[k].pc # "idle" => flush[k].slug \in Runners
      /\ \A k \in Conns : flush[k].pc \in {"claimed", "counted"} => flush[k].cmd \in Commands
  BY <1>i DEF TypeOK, StoreTypeOK, ShapeOK, Runner
<1>0. UNCHANGED runners => \A r \in Runners : Counts(r, 0)
  BY <1>t DEF Counts
<1>1. ASSUME NEW c \in Commands, NoteIncr(c) PROVE \A r \in Runners : Balanced(r)
  <2> DEFINE s == to[c]
  <2>1. s \in Runners /\ IncrementRunnerActiveCount(s, 1) /\ note[c] = "sent"
    BY <1>1, <1>i DEF NoteIncr, RowsOK
  <2>2. Counts(s, 1) /\ \A r \in Runners : r # s => Counts(r, 0)
    BY <2>1, <1>i, IncrementCounts
  <2>3. UNCHANGED <<commands, to, stream, flush, inbox, active, results, settling, uncounted>>
    BY <1>1 DEF NoteIncr, clientVars, reportVars, history
  <2>4. \A r \in Runners : NoneNew(r)
    BY <2>3 DEF NoneNew, Outstanding
  <2>5. \A d \in Commands : d # c => note'[d] = note[d]
    BY <1>1, <1>t DEF NoteIncr
  <2>6. Owed(s) \ {c} \subseteq Owed(s)'
    BY <2>3, <2>5 DEF Owed
  <2>7. \A r \in Runners : r # s => DebtsStay(r)
    BY <2>3, <2>5 DEF Owed, DebtsStay
  <2>8. Balanced(s)
    <3>1. \E x : Owed(s) \ {x} \subseteq Owed(s)'
      BY <2>6
    <3> QED
      BY <2>1, <2>2, <2>4, <3>1 DEF Balanced
  <2>9. ASSUME NEW r \in Runners, r # s PROVE Balanced(r)
    BY <2>2, <2>4, <2>7, <2>9 DEF Balanced
  <2> QED
    BY <2>8, <2>9
<1>2. ASSUME NEW c \in Commands, HandleNote(c), Streams(to[c]) # {}
      PROVE  \A r \in Runners : Balanced(r)
  <2> DEFINE s == to[c]
  <2>1. /\ s \in Runners /\ note[c] = "posted" /\ note' = [note EXCEPT ![c] = "sent"]
        /\ Send(s, Note(c)) /\ Note(c) \in Events /\ c \in 1 .. MaxCommands
        /\ UNCHANGED <<commands, runners, to, flush, inbox, active, results, settling, uncounted>>
    BY <1>2, <1>i, EventsOf DEF HandleNote, RowsOK, Commands, clientVars, reportVars, history
  <2>2. \A r \in Runners : Counts(r, 0) /\ DebtsStay(r)
    BY <2>1, <1>0, <1>t DEF DebtsStay, Owed
  <2>3. c \notin Owed(s) /\ Owed(s) \cup {c} \subseteq Owed(s)'
    <3>1. c \notin Owed(s)
      BY <2>1, CommandAssumption DEF UncountedOK, Owed, Commands
    <3>2. c \in Owed(s)'
      BY <2>1, <1>t DEF Owed
    <3> QED
      BY <2>1, <2>2, <3>1, <3>2 DEF DebtsStay
  <2>4. /\ \A k \in Conns : stream'[k].slug = stream[k].slug
        /\ \A k \in Conns : \A e \in Events : e \in stream'[k].chan =>
              e \in stream[k].chan \/ (e = Note(c) /\ stream[k].slug = s)
    BY <2>1, <1>i, <1>t, SendAdds DEF Send, Push, Stream
  <2>5. /\ Outstanding(s)' \subseteq Outstanding(s) \cup {Note(c)}
        /\ \A r \in Runners : r # s => NoneNew(r)
    BY <2>1, <2>4 DEF NoneNew, Outstanding
  <2> QED
    BY <2>1, <2>2, <2>3, <2>5 DEF Balanced, OneNew
<1>3. ASSUME NEW k \in Conns, FlushIncr(k) \/ FlushIncrFails(k)
      PROVE  \A r \in Runners : Balanced(r)
  <2> DEFINE s == flush[k].slug
             c == flush[k].cmd
  <2>1. /\ s \in Runners /\ c \in Commands /\ flush[k].pc = "claimed"
        /\ flush' = [flush EXCEPT ![k].pc = "counted"]
        /\ uncounted \subseteq uncounted'
        /\ UNCHANGED <<commands, note, to, stream, inbox, active, results, settling>>
    BY <1>3, <1>t DEF FlushIncr, FlushIncrFails, clientVars, reportVars, history
  <2>2. commands[c].assigned = s /\ Claim(c) \notin uncounted
    BY <2>1, <1>i DEF FlushesOK, UncountedOK
  <2>3. \A r \in Runners : DebtsStay(r)
    BY <2>1 DEF DebtsStay, Owed
  <2>4. /\ flush'[k].slug = s /\ flush'[k].cmd = c
        /\ \A l \in Conns : l # k => flush'[l] = flush[l]
    BY <2>1, <1>t DEF Flush
  <2>5. /\ Outstanding(s)' \subseteq Outstanding(s) \cup {Claim(c)}
        /\ \A r \in Runners : r # s => NoneNew(r)
    BY <2>1, <2>4 DEF NoneNew, Outstanding
  <2>6. CASE FlushIncr(k)
    <3>1. Counts(s, 1) /\ \A r \in Runners : r # s => Counts(r, 0)
      BY <2>1, <2>6, <1>i, IncrementCounts DEF FlushIncr
    <3>2. OneNew(s)
      BY <2>5 DEF OneNew
    <3>3. Balanced(s)
      BY <2>1, <2>3, <3>1, <3>2 DEF Balanced
    <3>4. ASSUME NEW r \in Runners, r # s PROVE Balanced(r)
      BY <2>3, <2>5, <3>1, <3>4 DEF Balanced
    <3> QED
      BY <3>3, <3>4
  <2>7. CASE FlushIncrFails(k)
    <3>1. \A r \in Runners : Counts(r, 0)
      BY <2>7, <1>0 DEF FlushIncrFails
    <3>2. Claim(c) \in uncounted'
      BY <2>7 DEF FlushIncrFails
    <3>3. MaxCommands + c \in Owed(s)'
      BY <2>1, <2>2, <3>2 DEF Owed
    <3>4. MaxCommands + c \notin Owed(s)
      BY <2>1, <2>2, CommandAssumption DEF Owed, Commands
    <3> QED
      BY <2>1, <2>3, <2>5, <3>1, <3>3, <3>4 DEF Balanced, OneNew, DebtsStay
  <2> QED
    BY <1>3, <2>6, <2>7
<1>4. ASSUME NEW s \in Runners, NEW e \in Events, ReportSettles(s, e)
      PROVE  \A r \in Runners : Balanced(r)
  <2>1. Counts(s, -1) /\ \A r \in Runners : r # s => Counts(r, 0)
    BY <1>4, <1>i, IncrementCounts DEF ReportSettles
  <2>2. /\ settling' \subseteq settling
        /\ UNCHANGED <<commands, note, to, stream, flush, inbox, active, results, uncounted>>
    BY <1>4 DEF ReportSettles, clientVars, history
  <2>3. \A r \in Runners : NoneNew(r) /\ DebtsStay(r)
    BY <2>2 DEF NoneNew, Outstanding, DebtsStay, Owed
  <2>4. e \in Outstanding(s) /\ e \notin Outstanding(s)'
    BY <1>4, <1>i, SettlesTakes
  <2>5. Outstanding(s)' \subseteq Outstanding(s) \ {e}
    BY <2>3, <2>4 DEF NoneNew
  <2> QED
    BY <2>1, <2>3, <2>4, <2>5 DEF Balanced
<1>5. ASSUME \A r \in Runners : Counts(r, 0) /\ DebtsStay(r) /\ NoneNew(r)
      PROVE  \A r \in Runners : Balanced(r)
  BY <1>5 DEF Balanced
<1> QED
  BY <1>i, <1>1, <1>2, <1>3, <1>4, <1>5, DebtsNext, OutstandingNext, CountsNext
-----------------------------------------------------------------------------
(* The other parts of CountInv.                                            *)

(* A lost increment belongs to a dispatch past its counting.               *)
LEMMA UncountedNext ==
    ASSUME TypeOK, RowsOK, FlushesOK, UncountedOK, [Next]_vars
    PROVE  UncountedOK'
<1>t. /\ commands \in [Commands -> Command] /\ flush \in [Conns -> Flush]
      /\ note \in [Commands -> {"idle", "inserted", "routed", "posted", "sent", "done"}]
      /\ \A k \in Conns : flush[k].pc \in {"claimed", "counted"} => flush[k].cmd \in Commands
  BY DEF TypeOK, StoreTypeOK, ShapeOK
<1> DEFINE Notes  == \A c \in Commands : Note(c) \in uncounted' => note'[c] = "done"
           Given  == \A c \in Commands : commands[c].assigned # None => commands'[c].assigned # None
           Claims == \A c \in Commands : Claim(c) \in uncounted' => Claim(c) \in uncounted
           Fewer  == \A k \in Conns : \A c \in Commands : flush'[k].pc = "claimed" /\ flush'[k].cmd = c =>
                        (flush[k].pc = "claimed" /\ flush[k].cmd = c) \/ commands[c].assigned = None
<1>1. Notes /\ Given /\ Claims /\ Fewer => UncountedOK'
  BY DEF UncountedOK
<1>2. /\ UNCHANGED <<note, uncounted>> => Notes
      /\ UNCHANGED commands => Given
      /\ UNCHANGED uncounted => Claims
      /\ UNCHANGED flush => Fewer
  BY DEF UncountedOK
<1>3. ASSUME NEW c \in Commands, CommandStep(c) PROVE UncountedOK'
  <2>1. ASSUME NEW q \in Requests, Insert(c, q) PROVE Notes /\ Given
    <3>1. note[c] = "idle" /\ commands[c].assigned = None
      BY <2>1 DEF Insert, InsertCommand, RowsOK
    <3> QED
      BY <2>1, <3>1, <1>t DEF Insert, InsertCommand, UncountedOK, history
  <2>2. CASE Route(c) \/ Notify(c) \/ NoteLost(c) \/ HandleNote(c) \/ NoteIncr(c)
    <3>1. Notes
      BY <2>2, <1>t DEF Route, Notify, NoteLost, HandleNote, NoteIncr, UncountedOK, history
    <3> QED
      BY <2>2, <3>1, <1>1, <1>2 DEF Route, Notify, NoteLost, HandleNote, NoteIncr, history
  <2>3. CASE NoteIncrFails(c)
    <3>1. Notes /\ Claims
      BY <2>3, <1>t, EventsOf DEF NoteIncrFails, UncountedOK
    <3> QED
      BY <2>3, <3>1, <1>1, <1>2 DEF NoteIncrFails
  <2>4. ASSUME Kill(c) \/ Expire(c) PROVE Given
    BY <2>4, <1>t DEF Kill, Expire, SetCommandKillRequested, PassDeadline, Command
  <2> QED
    BY <1>3, <2>1, <2>2, <2>3, <2>4, <1>1, <1>2 DEF CommandStep, Insert, Kill, Expire, history
<1>4. ASSUME NEW k \in Conns, StreamStep(k) PROVE UncountedOK'
  <2>1. ASSUME NEW c \in Commands, FlushClaim(k, c) \/ FlushClaimLost(k, c) PROVE UncountedOK'
    <3>1. /\ ClaimNextCommand(c, flush[k].slug, flush[k].tags, Locked(k))
          /\ commands[c].assigned = None /\ flush[k].slug # None
      BY <2>1, <1>t, NullAssumption
      DEF FlushClaim, FlushClaimLost, ClaimNextCommand, Claimable, RowsOK, Command, TypeOK, ShapeOK
    <3>2. Given
      BY <3>1, <1>t DEF ClaimNextCommand, Command
    <3>3. Fewer
      BY <2>1, <3>1, <1>t DEF FlushClaim, FlushClaimLost, Flush, NoFlush
    <3> QED
      BY <2>1, <3>2, <3>3, <1>1, <1>2 DEF FlushClaim, FlushClaimLost, history
  <2>2. CASE FlushIncrFails(k)
    <3> DEFINE c == flush[k].cmd
    <3>1. /\ c \in Commands /\ commands[c].assigned # None /\ Holds(k, c)
          /\ \A l \in Conns : Holds(l, c) => l = k
      BY <2>2, <1>t, NullAssumption DEF FlushIncrFails, FlushesOK, TypeOK, ShapeOK, Holds
    <3>2. /\ flush'[k].pc = "counted" /\ \A l \in Conns : l # k => flush'[l] = flush[l]
      BY <2>2, <1>t DEF FlushIncrFails, Flush
    <3>3. /\ uncounted' = uncounted \cup {Claim(c)} /\ UNCHANGED <<commands, note>>
      BY <2>2 DEF FlushIncrFails
    <3>4. \A l \in Conns : ~(flush'[l].pc = "claimed" /\ flush'[l].cmd = c)
      BY <3>1, <3>2 DEF Holds
    <3>5. \A d \in Commands : /\ Note(d) \in uncounted' => Note(d) \in uncounted
                              /\ Claim(d) \in uncounted' => Claim(d) \in uncounted \/ d = c
      BY <3>1, <3>3, EventsOf
    <3>6. \A l \in Conns : flush'[l].pc = "claimed" => flush'[l] = flush[l]
      BY <3>2
    <3> QED
      BY <3>1, <3>3, <3>4, <3>5, <3>6 DEF UncountedOK
  <2>3. ASSUME \/ \E r \in Runners : Connect(r, k)
               \/ FlushLook(k) \/ FlushGivesUp(k) \/ FlushIncr(k) \/ FlushSend(k)
        PROVE  UncountedOK'
    <3>1. Fewer
      <4>1. CASE FlushLook(k)
        <5>1. flush'[k].pc = "looked" /\ \A l \in Conns : l # k => flush'[l] = flush[l]
          BY <4>1, <1>t DEF FlushLook, Flush
        <5> QED
          BY <5>1
      <4>2. ASSUME NEW r \in Runners, Connect(r, k) PROVE Fewer
        <5>1. [NoFlush EXCEPT !.pc = "start", !.slug = r].pc = "start"
          BY DEF NoFlush
        <5>2. flush'[k].pc = "start" /\ \A l \in Conns : l # k => flush'[l] = flush[l]
          BY <4>2, <5>1, <1>t DEF Connect
        <5> QED
          BY <5>2
      <4>3. CASE FlushGivesUp(k) \/ FlushIncr(k) \/ FlushSend(k)
        <5>1. flush'[k].pc # "claimed" /\ \A l \in Conns : l # k => flush'[l] = flush[l]
          BY <4>3, <1>t DEF FlushGivesUp, FlushIncr, FlushSend, NoFlush, Flush
        <5> QED
          BY <5>1
      <4> QED
        BY <2>3, <4>1, <4>2, <4>3
    <3> QED
      BY <2>3, <3>1, <1>1, <1>2 DEF Connect, FlushLook, FlushGivesUp, FlushIncr, FlushSend, history
  <2> QED
    BY <1>4, <2>1, <2>2, <2>3, <1>1, <1>2 DEF StreamStep, LinkDown, StreamEnd, Deliver, history
<1>5. ASSUME NEW r \in Runners, RunnerStep(r) PROVE UncountedOK'
  <2>1. ASSUME NEW e \in Events, NEW o \in Finished, ReportResult(r, e, o) PROVE Given
    BY <2>1, <1>t DEF ReportResult, UpdateCommandStatus, Command
  <2> QED
    BY <1>5, <2>1, <1>1, <1>2
    DEF RunnerStep, Boot, Heartbeat, Stop, Deregister, Accept, Drop, Finish, ReportLost, ReportResult,
        ReportSettles, ReportUnsettled, history
<1>6. CASE ServerCrash
  <2>1. Notes
    BY <1>6, <1>t, EventsOf DEF ServerCrash, UncountedOK
  <2>2. Claims
    BY <1>6, EventsOf DEF ServerCrash
  <2>3. Fewer
    BY <1>6 DEF ServerCrash, NoFlush
  <2> QED
    BY <1>6, <2>1, <2>2, <2>3, <1>1, <1>2 DEF ServerCrash
<1>7. CASE UNCHANGED vars
  BY <1>7, <1>1, <1>2 DEF vars, history
<1> QED
  BY <1>3, <1>4, <1>5, <1>6, <1>7 DEF Next

(* A result that is taken from those on their way was the only one.        *)
LEMMA SettlingNext ==
    ASSUME TypeOK, RowsOK, FlushesOK, SentOK, StartedOK, SettlingOK, [Next]_vars
    PROVE  SettlingOK'
<1>t. settling \subseteq Runners \X Events /\ active \in [Runners -> SUBSET Events]
  BY DEF TypeOK
<1>1. \A e \in Events : Spent(e) => Spent(e)'
  BY FiveKinds, SpentStays
<1>2. settling' \subseteq settling => SettlingOK'
  BY <1>1 DEF SettlingOK
<1>3. ASSUME NEW r \in Runners, NEW e \in Events, NEW o \in Finished, ReportResult(r, e, o)
      PROVE  SettlingOK'
  <2>1. <<r, e>> \in results /\ starts[e] = 1
    BY <1>3 DEF ReportResult, StartedOK
  <2>2. \A s \in Runners : e \notin active[s] /\ (<<s, e>> \in results => s = r)
    BY <2>1 DEF StartedOK
  <2>3. Spent(e)'
    BY <1>3, <2>1, <2>2 DEF ReportResult, Spent, clientVars, history
  <2> QED
    BY <1>1, <1>3, <2>3 DEF ReportResult, SettlingOK
<1>4. CASE settling' \subseteq settling
  BY <1>2, <1>4
<1>5. \/ settling' \subseteq settling
      \/ \E r \in Runners : \E e \in Events : \E o \in Finished : ReportResult(r, e, o)
  <2>1. ASSUME NEW c \in Commands, CommandStep(c) PROVE UNCHANGED settling
    BY <2>1 DEF CommandStep, Insert, Route, Notify, NoteLost, HandleNote, NoteIncr,
                NoteIncrFails, Kill, Expire, reportVars
  <2>2. ASSUME NEW k \in Conns, StreamStep(k) PROVE UNCHANGED settling
    BY <2>2 DEF StreamStep, Connect, LinkDown, StreamEnd, FlushLook, FlushClaim, FlushClaimLost,
                FlushGivesUp, FlushIncr, FlushIncrFails, FlushSend, Deliver, reportVars
  <2>3. ASSUME NEW r \in Runners, RunnerStep(r),
               ~\E e \in Events : \E o \in Finished : ReportResult(r, e, o)
        PROVE  settling' \subseteq settling
    BY <2>3 DEF RunnerStep, Boot, Heartbeat, Stop, Deregister, Accept, Drop, Finish, ReportLost,
                ReportSettles, ReportUnsettled, reportVars
  <2> QED
    BY <2>1, <2>2, <2>3 DEF Next, ServerCrash, vars, reportVars
<1> QED
  BY <1>3, <1>4, <1>5
-----------------------------------------------------------------------------
(* Nothing is counted, owed or outstanding at first.                       *)
LEMMA CountInit == Init => CountInv
<1> SUFFICES ASSUME Init PROVE CountInv
  OBVIOUS
<1>1. UncountedOK /\ SettlingOK
  BY DEF Init, UncountedOK, SettlingOK
<1>2. ASSUME NEW r \in Runners
      PROVE  runners[r].active + Cardinality(Owed(r)) >= Cardinality(Outstanding(r))
  <2>1. runners[r].active = 0
    BY DEF Init, StoreInit, NoRunner
  <2>2. Outstanding(r) = {}
    BY DEF Init, NoStream, NoFlush, Outstanding
  <2>3. Cardinality(Owed(r)) \in Nat /\ Cardinality(Outstanding(r)) = 0
    BY <2>2, CountedFinite, FS_CardinalityType, FS_EmptySet
  <2> QED
    BY <2>1, <2>3
<1> QED
  BY <1>1, <1>2 DEF CountInv, CountOK

(* CountInv holds in every reachable state: every dispatch whose decrement *)
(* may still come has been counted, or its increment is owed.              *)
THEOREM CountInvariance == Spec => []CountInv
<1>1. IInv /\ IInv' /\ CountInv /\ [Next]_vars => CountInv'
  <2> SUFFICES ASSUME IInv, IInv', CountInv, [Next]_vars PROVE CountInv'
    OBVIOUS
  <2>1. UncountedOK' /\ SettlingOK'
    BY UncountedNext, SettlingNext DEF IInv, CountInv
  <2>2. CountOK'
    BY BalancedNext, BalancedKeeps DEF IInv, CountInv
  <2> QED
    BY <2>1, <2>2 DEF CountInv
<1> QED
  BY <1>1, CountInit, Invariance, PTL DEF Spec

(* active_count falls below zero by no more than the increments that are   *)
(* still to come or were lost, for any number of runners and commands.     *)
THEOREM CountHasFloor == Spec => []ActiveCountFloor
<1>1. TypeOK /\ CountInv => ActiveCountFloor
  <2> SUFFICES ASSUME TypeOK, CountInv, NEW r \in Runners
               PROVE  runners[r].active + Cardinality(Owed(r)) >= 0
    BY DEF ActiveCountFloor
  <2>1. runners[r].active \in Int
    BY DEF TypeOK, StoreTypeOK, Runner
  <2>2. Cardinality(Owed(r)) \in Nat /\ Cardinality(Outstanding(r)) \in Nat
    BY CountedFinite, FS_CardinalityType
  <2> QED
    BY <2>1, <2>2 DEF CountInv, CountOK
<1> QED
  BY <1>1, CountInvariance, TypeCorrect, PTL
=============================================================================
