--------------------------- MODULE DispatchProofs ---------------------------
(***************************************************************************)
(* Proofs about Dispatch for every set of runners, tags, streams and       *)
(* requests, every number of commands, every capacity and every subset of  *)
(* the environment.                                                        *)
(***************************************************************************)
EXTENDS DispatchInvariant, TLAPS

(* The two events of a command.                                            *)
LEMMA EventsOf ==
    /\ \A c \in Commands : Note(c) \in Events /\ Claim(c) \in Events
    /\ \A c, d \in Commands : /\ Note(c) # Claim(d)
                              /\ Note(c) = Note(d) => c = d
                              /\ Claim(c) = Claim(d) => c = d
    /\ \A e \in Events : /\ e.cmd \in Commands
                         /\ e = Note(e.cmd) \/ e = Claim(e.cmd)
                         /\ e.via = "note" <=> e = Note(e.cmd)
  BY DEF Events, Paths, Note, Claim

-----------------------------------------------------------------------------
(* Lemmas on the statements: the tables stay well typed.                   *)

(* A statement that writes a runner's row leaves the table well typed.     *)
LEMMA RunnerRows ==
    ASSUME StoreTypeOK, NEW r,
           \/ \E tags \in SUBSET Tags : UpsertRunner(r, tags)
           \/ UpdateRunnerHeartbeat(r)
           \/ UpdateRunnerStatus(r, "offline")
           \/ \E d \in {1, -1} : IncrementRunnerActiveCount(r, d)
    PROVE  runners' \in [Runners -> Runner]
<1>1. ASSUME NEW tags \in SUBSET Tags, UpsertRunner(r, tags)
      PROVE  runners' \in [Runners -> Runner]
  BY <1>1 DEF StoreTypeOK, UpsertRunner, Runner, RunnerStatus
<1>2. CASE UpdateRunnerHeartbeat(r) \/ UpdateRunnerStatus(r, "offline")
  BY <1>2 DEF StoreTypeOK, UpdateRunnerHeartbeat, UpdateRunnerStatus, Runner, RunnerStatus
<1>3. ASSUME NEW d \in {1, -1}, IncrementRunnerActiveCount(r, d)
      PROVE  runners' \in [Runners -> Runner]
  <2>1. ASSUME r \in Runners
        PROVE  [runners[r] EXCEPT !.active = runners[r].active + d] \in Runner
    BY <2>1 DEF StoreTypeOK, Runner
  <2> QED
    BY <1>3, <2>1 DEF StoreTypeOK, IncrementRunnerActiveCount
<1> QED
  BY <1>1, <1>2, <1>3

(* A statement that writes a command's row leaves the table well typed.    *)
LEMMA CommandRows ==
    ASSUME StoreTypeOK, NEW c \in Commands,
           \/ \E q \in Requests : InsertCommand(c, q.type, q.value, q.deadline)
           \/ \E r \in Runners : \E tags, locked : ClaimNextCommand(c, r, tags, locked)
           \/ \E o \in Finished : UpdateCommandStatus(c, o)
           \/ SetCommandKillRequested(c) \/ PassDeadline(c)
    PROVE  commands' \in [Commands -> Command]
<1>1. CASE \E q \in Requests : InsertCommand(c, q.type, q.value, q.deadline)
  <2>1. PICK q \in Requests : InsertCommand(c, q.type, q.value, q.deadline)
    BY <1>1
  <2>2. q.type \in TargetTypes /\ q.value \in Runners \cup Tags /\ q.deadline \in Deadlines
    BY RequestAssumption DEF Deadlines
  <2>3. [NoCommand EXCEPT !.status = "queued", !.type = q.type,
                          !.value = q.value, !.deadline = q.deadline] \in Command
    BY <2>2 DEF NoCommand, Command, CommandStatus
  <2> QED
    BY <2>1, <2>3 DEF StoreTypeOK, InsertCommand
<1>2. ASSUME NEW r \in Runners, NEW tags, NEW locked,
             ClaimNextCommand(c, r, tags, locked)
      PROVE  commands' \in [Commands -> Command]
  BY <1>2 DEF StoreTypeOK, ClaimNextCommand, Command, CommandStatus
<1>3. CASE \E o \in Finished : UpdateCommandStatus(c, o)
  BY <1>3 DEF StoreTypeOK, UpdateCommandStatus, Command, CommandStatus
<1>4. CASE SetCommandKillRequested(c)
  BY <1>4 DEF StoreTypeOK, SetCommandKillRequested, Command
<1>5. CASE PassDeadline(c)
  BY <1>5 DEF StoreTypeOK, PassDeadline, Command, Deadlines
<1> QED
  BY <1>1, <1>2, <1>3, <1>4, <1>5
-----------------------------------------------------------------------------
(* Type correctness.                                                       *)

(* A step that rewrites one entry of a table of streams or of goroutines   *)
(* keeps the table's type and shape when the new entry has them.           *)
StreamFits(s) == s \in Stream /\ (s.live => s.slug \in Runners) /\ (~s.live => s.chan = {})
FlushFits(f)  == /\ f \in Flush /\ (f.pc # "idle" => f.slug \in Runners)
                 /\ f.pc \in {"claimed", "counted"} => f.cmd \in Commands

StreamsFit == stream \in [Conns -> Stream] /\ \A k \in Conns : StreamFits(stream[k])
FlushesFit == flush \in [Conns -> Flush] /\ \A k \in Conns : FlushFits(flush[k])

(* The rest of TypeOK.                                                     *)
OthersOK ==
    /\ note \in [Commands -> {"idle", "inserted", "routed", "posted", "sent", "done"}]
    /\ to \in [Commands -> Runners \cup {None}]
    /\ up \in [Runners -> BOOLEAN]
    /\ byes \subseteq Runners
    /\ inbox \in [Runners -> SUBSET Events]
    /\ active \in [Runners -> SUBSET Events]
    /\ results \subseteq Runners \X Events
    /\ settling \subseteq Runners \X Events
    /\ starts \in [Events -> Nat]
    /\ uncounted \subseteq Events
    /\ offered \in [Commands -> SUBSET Runners]

(* TypeOK in these four parts, which most steps leave alone but for one.   *)
LEMMA TypeParts == TypeOK <=> StoreTypeOK /\ StreamsFit /\ FlushesFit /\ OthersOK
  BY DEF TypeOK, ShapeOK, StreamsFit, FlushesFit, StreamFits, FlushFits, OthersOK

(* The same of the next state.                                             *)
LEMMA TypePartsNext == TypeOK' <=> StoreTypeOK' /\ StreamsFit' /\ FlushesFit' /\ OthersOK'
  BY DEF TypeOK, ShapeOK, StreamsFit, FlushesFit, StreamFits, FlushFits, OthersOK

(* Replacing a stream by one that fits.                                    *)
LEMMA StreamReplaced ==
    ASSUME StreamsFit, NEW k \in Conns, NEW s, StreamFits(s), stream' = [stream EXCEPT ![k] = s]
    PROVE  StreamsFit'
  BY DEF StreamsFit, StreamFits

(* Replacing a flush goroutine by one that fits.                           *)
LEMMA FlushReplaced ==
    ASSUME FlushesFit, NEW k \in Conns, NEW f, FlushFits(f), flush' = [flush EXCEPT ![k] = f]
    PROVE  FlushesFit'
  BY DEF FlushesFit, FlushFits

(* The goroutine that has returned fits.                                   *)
LEMMA NoFlushFits == FlushFits(NoFlush) /\ NoFlush.pc = "idle"
  BY DEF FlushFits, NoFlush, Flush

(* hub.Send keeps the streams well typed.                                  *)
LEMMA SendFits ==
    ASSUME StreamsFit, NEW r, NEW e \in Events, Send(r, e)
    PROVE  StreamsFit'
<1>1. ASSUME NEW k \in Conns PROVE StreamFits(Push(stream[k], r, e))
  <2>1. StreamFits(stream[k])
    BY DEF StreamsFit
  <2> QED
    BY <2>1 DEF Push, StreamFits, Stream
<1> QED
  BY <1>1 DEF Send, StreamsFit, StreamFits
(* The parts of TypeOK a step leaves alone.                                *)
LEMMA Kept ==
    /\ StoreTypeOK /\ UNCHANGED <<commands, runners>> => StoreTypeOK'
    /\ StoreTypeOK /\ commands' \in [Commands -> Command] /\ UNCHANGED runners => StoreTypeOK'
    /\ StoreTypeOK /\ runners' \in [Runners -> Runner] /\ UNCHANGED commands => StoreTypeOK'
    /\ StreamsFit /\ UNCHANGED stream => StreamsFit'
    /\ FlushesFit /\ UNCHANGED flush => FlushesFit'
    /\ OthersOK /\ UNCHANGED <<note, to, clientVars, reportVars, history>> => OthersOK'
  BY DEF StoreTypeOK, StreamsFit, FlushesFit, OthersOK, clientVars, reportVars, history,
         StreamFits, FlushFits

(* The steps of POST /commands, of the listener, of Kill and of time.      *)
LEMMA TypeCommandStep ==
    ASSUME TypeOK, NEW c \in Commands, CommandStep(c)
    PROVE  TypeOK'
<1>0. StoreTypeOK /\ StreamsFit /\ FlushesFit /\ OthersOK
  BY TypeParts
<1>1. ASSUME NEW q \in Requests, Insert(c, q) PROVE TypeOK'
  <2>1. commands' \in [Commands -> Command]
    BY <1>0, <1>1, CommandRows DEF Insert
  <2>2. q.type # "tag" => q.value \in Runners
    BY RequestTargets
  <2>o. Matched(q) \in SUBSET Runners
    BY <2>2 DEF Matched
  <2>3. OthersOK'
    BY <1>0, <1>1, <2>2, <2>o DEF Insert, OthersOK, clientVars, reportVars, history
  <2> QED
    BY <1>0, <1>1, <2>1, <2>3, Kept, TypePartsNext DEF Insert
<1>2. CASE Route(c)
  <2>1. OthersOK'
    BY <1>0, <1>2 DEF Route, LeastBusy, OnlineWithTag, OthersOK, clientVars, reportVars, history
  <2> QED
    BY <1>0, <1>2, <2>1, Kept, TypePartsNext DEF Route
<1>3. CASE Notify(c) \/ NoteLost(c)
  <2>1. OthersOK'
    BY <1>0, <1>3 DEF Notify, NoteLost, OthersOK, clientVars, reportVars, history
  <2> QED
    BY <1>0, <1>3, <2>1, Kept, TypePartsNext DEF Notify, NoteLost
<1>4. CASE HandleNote(c)
  <2>1. StreamsFit'
    BY <1>0, <1>4, SendFits, EventsOf DEF HandleNote
  <2>2. OthersOK'
    BY <1>0, <1>4 DEF HandleNote, OthersOK, clientVars, reportVars, history
  <2> QED
    BY <1>0, <1>4, <2>1, <2>2, Kept, TypePartsNext DEF HandleNote
<1>5. CASE NoteIncr(c)
  <2>1. runners' \in [Runners -> Runner]
    BY <1>0, <1>5, RunnerRows DEF NoteIncr
  <2>2. OthersOK'
    BY <1>0, <1>5 DEF NoteIncr, OthersOK, clientVars, reportVars, history
  <2> QED
    BY <1>0, <1>5, <2>1, <2>2, Kept, TypePartsNext DEF NoteIncr
<1>6. CASE NoteIncrFails(c)
  <2>1. OthersOK'
    BY <1>0, <1>6, EventsOf DEF NoteIncrFails, OthersOK, clientVars, reportVars
  <2> QED
    BY <1>0, <1>6, <2>1, Kept, TypePartsNext DEF NoteIncrFails
<1>7. CASE Kill(c) \/ Expire(c)
  <2>1. commands' \in [Commands -> Command]
    BY <1>0, <1>7, CommandRows DEF Kill, Expire
  <2> QED
    BY <1>0, <1>7, <2>1, Kept, TypePartsNext DEF Kill, Expire
<1> QED
  BY <1>1, <1>2, <1>3, <1>4, <1>5, <1>6, <1>7 DEF CommandStep

(* The steps of the streams and their flush goroutines.                    *)
LEMMA TypeStreamStep ==
    ASSUME TypeOK, NEW k \in Conns, StreamStep(k)
    PROVE  TypeOK'
<1>0. StoreTypeOK /\ StreamsFit /\ FlushesFit /\ OthersOK
  BY TypeParts
<1>s. StreamFits(stream[k]) /\ FlushFits(flush[k])
  BY <1>0 DEF StreamsFit, FlushesFit
<1>1. ASSUME NEW r \in Runners, Connect(r, k) PROVE TypeOK'
  <2>1. /\ StreamFits([slug |-> r, live |-> TRUE, chan |-> {}])
        /\ FlushFits([NoFlush EXCEPT !.pc = "start", !.slug = r])
    BY DEF StreamFits, Stream, FlushFits, Flush, NoFlush
  <2>2. StreamsFit' /\ FlushesFit'
    BY <1>0, <1>1, <2>1, StreamReplaced, FlushReplaced DEF Connect
  <2> QED
    BY <1>0, <1>1, <2>2, Kept, TypePartsNext DEF Connect
<1>2. CASE LinkDown(k) \/ StreamEnd(k)
  <2>1. StreamFits(Cut(stream[k])) /\ StreamFits(NoStream)
    BY <1>s DEF StreamFits, Stream, Cut, NoStream
  <2>2. StreamsFit'
    BY <1>0, <1>2, <2>1, StreamReplaced DEF LinkDown, StreamEnd, StreamsFit
  <2> QED
    BY <1>0, <1>2, <2>2, Kept, TypePartsNext DEF LinkDown, StreamEnd
<1>3. ASSUME NEW c \in Commands, FlushClaim(k, c) PROVE TypeOK'
  <2>1. commands' \in [Commands -> Command]
    BY <1>0, <1>s, <1>3, CommandRows DEF FlushClaim, FlushFits
  <2>2. FlushFits([flush[k] EXCEPT !.pc = "claimed", !.tags = {}, !.cmd = c])
    BY <1>s, <1>3 DEF FlushClaim, FlushFits, Flush
  <2>3. flush' = [flush EXCEPT ![k] = [flush[k] EXCEPT !.pc = "claimed", !.tags = {}, !.cmd = c]]
    BY <1>0, <1>3 DEF FlushClaim, FlushesFit
  <2>4. FlushesFit'
    BY <1>0, <2>2, <2>3, FlushReplaced
  <2> QED
    BY <1>0, <1>3, <2>1, <2>4, Kept, TypePartsNext DEF FlushClaim
<1>4. ASSUME NEW c \in Commands, FlushClaimLost(k, c) PROVE TypeOK'
  <2>1. commands' \in [Commands -> Command]
    BY <1>0, <1>s, <1>4, CommandRows DEF FlushClaimLost, FlushFits
  <2>2. FlushesFit'
    BY <1>0, <1>4, FlushReplaced, NoFlushFits DEF FlushClaimLost
  <2> QED
    BY <1>0, <1>4, <2>1, <2>2, Kept, TypePartsNext DEF FlushClaimLost
<1>5. CASE FlushGivesUp(k)
  <2>1. FlushesFit'
    BY <1>0, <1>5, FlushReplaced, NoFlushFits DEF FlushGivesUp
  <2> QED
    BY <1>0, <1>5, <2>1, Kept, TypePartsNext DEF FlushGivesUp
<1>l. CASE FlushLook(k)
  <2>1. flush[k].slug \in Runners
    BY <1>s, <1>l DEF FlushLook, FlushFits
  <2>2. runners[flush[k].slug].tags \in SUBSET Tags
    BY <1>0, <2>1 DEF StoreTypeOK, Runner
  <2>3. FlushFits([flush[k] EXCEPT !.pc = "looked", !.tags = runners[flush[k].slug].tags])
    BY <1>s, <2>1, <2>2 DEF FlushFits, Flush
  <2>4. flush' = [flush EXCEPT ![k] =
                    [flush[k] EXCEPT !.pc = "looked", !.tags = runners[flush[k].slug].tags]]
    BY <1>0, <1>l DEF FlushLook, FlushesFit
  <2>5. FlushesFit'
    BY <1>0, <2>3, <2>4, FlushReplaced
  <2> QED
    BY <1>0, <1>l, <2>5, Kept, TypePartsNext DEF FlushLook
<1>6. \/ FlushFits([flush[k] EXCEPT !.pc = "counted"]) /\ flush[k].cmd \in Commands
      \/ flush[k].pc # "claimed"
  BY <1>s DEF FlushFits, Flush
<1>7. ASSUME FlushFits([flush[k] EXCEPT !.pc = "counted"]),
             flush' = [flush EXCEPT ![k].pc = "counted"]
      PROVE  FlushesFit'
  BY <1>0, <1>7, FlushReplaced DEF FlushesFit
<1>8. CASE FlushIncr(k)
  <2>1. runners' \in [Runners -> Runner]
    BY <1>0, <1>8, RunnerRows DEF FlushIncr
  <2> QED
    BY <1>0, <1>6, <1>7, <1>8, <2>1, Kept, TypePartsNext DEF FlushIncr
<1>9. CASE FlushIncrFails(k)
  <2>1. OthersOK'
    BY <1>0, <1>6, <1>9, EventsOf DEF FlushIncrFails, OthersOK, clientVars, reportVars
  <2> QED
    BY <1>0, <1>6, <1>7, <1>9, <2>1, Kept, TypePartsNext DEF FlushIncrFails
<1>10. CASE FlushSend(k)
  <2>1. Claim(flush[k].cmd) \in Events
    BY <1>s, <1>10, EventsOf DEF FlushSend, FlushFits
  <2>2. StreamsFit' /\ FlushesFit'
    BY <1>0, <1>10, <2>1, SendFits, FlushReplaced, NoFlushFits DEF FlushSend
  <2> QED
    BY <1>0, <1>10, <2>2, Kept, TypePartsNext DEF FlushSend
<1>11. ASSUME NEW e \in Events, Deliver(k, e) PROVE TypeOK'
  <2>1. StreamFits([stream[k] EXCEPT !.chan = @ \ {e}])
    BY <1>s, <1>11 DEF Deliver, StreamFits, Stream
  <2>2. StreamsFit'
    BY <1>0, <1>11, <2>1, StreamReplaced DEF Deliver, StreamsFit
  <2>3. OthersOK'
    BY <1>0, <1>11 DEF Deliver, OthersOK, reportVars, history
  <2> QED
    BY <1>0, <1>11, <2>2, <2>3, Kept, TypePartsNext DEF Deliver
<1> QED
  BY <1>1, <1>2, <1>3, <1>4, <1>5, <1>l, <1>8, <1>9, <1>10, <1>11 DEF StreamStep
(* The steps of the clients and of the result handler.                     *)
LEMMA TypeRunnerStep ==
    ASSUME TypeOK, NEW r \in Runners, RunnerStep(r)
    PROVE  TypeOK'
<1>0. StoreTypeOK /\ StreamsFit /\ FlushesFit /\ OthersOK
  BY TypeParts
<1>1. CASE Boot(r)
  <2>1. runners' \in [Runners -> Runner]
    BY <1>0, <1>1, RunnerRows, TagsAssumption DEF Boot
  <2>2. OthersOK'
    BY <1>0, <1>1 DEF Boot, OthersOK, reportVars, history
  <2> QED
    BY <1>0, <1>1, <2>1, <2>2, Kept, TypePartsNext DEF Boot
<1>2. CASE Heartbeat(r)
  <2>1. runners' \in [Runners -> Runner]
    BY <1>0, <1>2, RunnerRows DEF Heartbeat
  <2> QED
    BY <1>0, <1>2, <2>1, Kept, TypePartsNext DEF Heartbeat
<1>3. CASE Stop(r)
  <2>1. StreamsFit'
    BY <1>0, <1>3 DEF Stop, Cut, StreamsFit, StreamFits, Stream
  <2>2. OthersOK'
    BY <1>0, <1>3 DEF Stop, OthersOK, reportVars, history
  <2> QED
    BY <1>0, <1>3, <2>1, <2>2, Kept, TypePartsNext DEF Stop
<1>4. ASSUME NEW e \in Events, Accept(r, e) PROVE TypeOK'
  <2>1. inbox' \in [Runners -> SUBSET Events] /\ active' \in [Runners -> SUBSET Events]
    BY <1>0, <1>4 DEF Accept, OthersOK
  <2>2. starts' \in [Events -> Nat]
    BY <1>0, <1>4 DEF Accept, OthersOK
  <2>3. OthersOK'
    BY <1>0, <1>4, <2>1, <2>2 DEF Accept, OthersOK, reportVars
  <2> QED
    BY <1>0, <1>4, <2>3, Kept, TypePartsNext DEF Accept
<1>5. ASSUME NEW e \in Events, Drop(r, e) PROVE TypeOK'
  <2>1. OthersOK'
    BY <1>0, <1>5 DEF Drop, OthersOK, reportVars, history
  <2> QED
    BY <1>0, <1>5, <2>1, Kept, TypePartsNext DEF Drop
<1>6. ASSUME NEW e \in Events, Finish(r, e) \/ ReportLost(r, e) PROVE TypeOK'
  <2>1. OthersOK'
    BY <1>0, <1>6 DEF Finish, ReportLost, OthersOK, clientVars, history
  <2> QED
    BY <1>0, <1>6, <2>1, Kept, TypePartsNext DEF Finish, ReportLost
<1>7. ASSUME NEW e \in Events, NEW o \in Finished, ReportResult(r, e, o) PROVE TypeOK'
  <2>a. e.cmd \in Commands
    BY DEF Events
  <2>b. UpdateCommandStatus(e.cmd, o)
    BY <1>7 DEF ReportResult
  <2>1. commands' \in [Commands -> Command]
    BY <1>0, <2>a, <2>b, CommandRows
  <2>2. OthersOK'
    BY <1>0, <1>7 DEF ReportResult, OthersOK, clientVars, history
  <2> QED
    BY <1>0, <1>7, <2>1, <2>2, Kept, TypePartsNext DEF ReportResult
<1>8. ASSUME NEW e \in Events, ReportSettles(r, e) PROVE TypeOK'
  <2>1. runners' \in [Runners -> Runner]
    BY <1>0, <1>8, RunnerRows DEF ReportSettles
  <2>2. OthersOK'
    BY <1>0, <1>8 DEF ReportSettles, OthersOK, clientVars, history
  <2> QED
    BY <1>0, <1>8, <2>1, <2>2, Kept, TypePartsNext DEF ReportSettles
<1>9. ASSUME NEW e \in Events, ReportUnsettled(r, e) PROVE TypeOK'
  <2>1. OthersOK'
    BY <1>0, <1>9 DEF ReportUnsettled, OthersOK, clientVars, history
  <2> QED
    BY <1>0, <1>9, <2>1, Kept, TypePartsNext DEF ReportUnsettled
<1>10. CASE Deregister(r)
  <2>1. runners' \in [Runners -> Runner]
    BY <1>0, <1>10, RunnerRows DEF Deregister, StoreTypeOK
  <2>2. OthersOK'
    BY <1>0, <1>10 DEF Deregister, OthersOK, reportVars, history
  <2> QED
    BY <1>0, <1>10, <2>1, <2>2, Kept, TypePartsNext DEF Deregister
<1> QED
  BY <1>1, <1>2, <1>3, <1>4, <1>5, <1>6, <1>7, <1>8, <1>9, <1>10 DEF RunnerStep

(* The crash of the server.                                                *)
LEMMA TypeServerCrash ==
    ASSUME TypeOK, ServerCrash
    PROVE  TypeOK'
<1>0. StoreTypeOK /\ StreamsFit /\ FlushesFit /\ OthersOK
  BY TypeParts
<1>1. StreamFits(NoStream)
  BY DEF StreamFits, NoStream, Stream
<1>2. StreamsFit' /\ FlushesFit'
  BY <1>1, NoFlushFits DEF ServerCrash, StreamsFit, FlushesFit, StreamFits, FlushFits
<1>3. OthersOK'
  BY <1>0, EventsOf DEF ServerCrash, OthersOK, clientVars
<1> QED
  BY <1>0, <1>2, <1>3, Kept, TypePartsNext DEF ServerCrash

(* TypeOK is inductive.                                                    *)
LEMMA TypeNext == TypeOK /\ [Next]_vars => TypeOK'
<1> SUFFICES ASSUME TypeOK, [Next]_vars PROVE TypeOK'
  OBVIOUS
<1>1. CASE UNCHANGED vars
  BY <1>1, TypeParts, TypePartsNext, Kept DEF vars
<1> QED
  BY <1>1, TypeCommandStep, TypeStreamStep, TypeRunnerStep, TypeServerCrash DEF Next

(* The initial state is well typed.                                        *)
LEMMA TypeInit == Init => TypeOK
<1> SUFFICES ASSUME Init PROVE TypeOK
  OBVIOUS
<1>1. StoreTypeOK
  <2>1. NoCommand \in Command
    BY DEF NoCommand, Command, CommandStatus, Deadlines
  <2>2. NoRunner \in Runner
    BY DEF NoRunner, Runner, RunnerStatus
  <2> QED
    BY <2>1, <2>2 DEF Init, StoreInit, StoreTypeOK
<1>2. StreamsFit /\ FlushesFit
  <2>1. StreamFits(NoStream)
    BY DEF StreamFits, NoStream, Stream
  <2> QED
    BY <2>1, NoFlushFits DEF Init, StreamsFit, FlushesFit, StreamFits, FlushFits
<1>3. OthersOK
  BY DEF Init, OthersOK
<1> QED
  BY <1>1, <1>2, <1>3, TypeParts

(* Every variable keeps its type, every stream and flush goroutine its     *)
(* shape, in every behaviour.                                              *)
THEOREM TypeCorrect == Spec => []TypeOK
  BY TypeInit, TypeNext, PTL DEF Spec
-----------------------------------------------------------------------------
(* The inductive invariant, part by part.                                  *)

(* Rows: a step that writes no row, stage or slug.                         *)
LEMMA RowsKept == RowsOK /\ UNCHANGED <<commands, note, to>> => RowsOK'
  BY DEF RowsOK

(* RowsOK is inductive, given the types.                                   *)
LEMMA RowsNext == TypeOK /\ RowsOK /\ [Next]_vars => RowsOK'
<1> SUFFICES ASSUME TypeOK, RowsOK, [Next]_vars PROVE RowsOK'
  OBVIOUS
<1>t. /\ commands \in [Commands -> Command]
      /\ note \in [Commands -> {"idle", "inserted", "routed", "posted", "sent", "done"}]
      /\ to \in [Commands -> Runners \cup {None}]
  BY DEF TypeOK, StoreTypeOK
<1>1. ASSUME NEW c \in Commands, CommandStep(c) PROVE RowsOK'
  <2>1. ASSUME NEW q \in Requests, Insert(c, q) PROVE RowsOK'
    <3>1. q.type # "tag" => q.value \in Runners
      BY RequestTargets
    <3>2. /\ commands' = [commands EXCEPT ![c] = [NoCommand EXCEPT !.status = "queued",
                              !.type = q.type, !.value = q.value, !.deadline = q.deadline]]
          /\ commands[c].status = "absent"
      BY <2>1 DEF Insert, InsertCommand
    <3>3. commands'[c].status = "queued" /\ commands'[c].assigned = None
      BY <3>2, <1>t DEF NoCommand
    <3>4. \A d \in Commands : d # c => commands'[d] = commands[d]
      BY <3>2, <1>t
    <3> QED
      BY <2>1, <3>1, <3>3, <3>4, <1>t DEF Insert, RowsOK
  <2>2. CASE Route(c)
    BY <2>2, <1>t DEF Route, LeastBusy, OnlineWithTag, RowsOK
  <2>3. CASE Notify(c) \/ NoteLost(c)
    BY <2>3, <1>t DEF Notify, NoteLost, RowsOK
  <2>4. CASE HandleNote(c)
    BY <2>4, <1>t DEF HandleNote, RowsOK
  <2>5. CASE NoteIncr(c) \/ NoteIncrFails(c)
    BY <2>5, <1>t DEF NoteIncr, NoteIncrFails, RowsOK
  <2>6. CASE Kill(c) \/ Expire(c)
    <3>1. \A d \in Commands : /\ commands'[d].status = commands[d].status
                              /\ commands'[d].assigned = commands[d].assigned
      BY <2>6, <1>t DEF Kill, Expire, SetCommandKillRequested, PassDeadline, Command
    <3> QED
      BY <2>6, <3>1 DEF Kill, Expire, RowsOK
  <2> QED
    BY <1>1, <2>1, <2>2, <2>3, <2>4, <2>5, <2>6 DEF CommandStep
<1>2. ASSUME NEW k \in Conns, StreamStep(k) PROVE RowsOK'
  <2>1. ASSUME NEW c \in Commands, FlushClaim(k, c) \/ FlushClaimLost(k, c) PROVE RowsOK'
    <3>1. /\ commands[c].status = "queued" /\ commands'[c].status = "claimed"
          /\ \A d \in Commands : d # c => commands'[d] = commands[d]
      BY <2>1, <1>t DEF FlushClaim, FlushClaimLost, ClaimNextCommand, Claimable, Command
    <3> QED
      BY <2>1, <3>1 DEF FlushClaim, FlushClaimLost, RowsOK
  <2>2. CASE \/ \E r \in Runners : Connect(r, k)
             \/ LinkDown(k) \/ StreamEnd(k) \/ FlushLook(k) \/ FlushGivesUp(k) \/ FlushIncr(k)
             \/ FlushIncrFails(k) \/ FlushSend(k) \/ \E e \in Events : Deliver(k, e)
    BY <2>2, RowsKept DEF Connect, LinkDown, StreamEnd, FlushLook, FlushGivesUp, FlushIncr,
                          FlushIncrFails, FlushSend, Deliver
  <2> QED
    BY <1>2, <2>1, <2>2 DEF StreamStep
<1>3. ASSUME NEW r \in Runners, RunnerStep(r) PROVE RowsOK'
  <2>1. ASSUME NEW e \in Events, NEW o \in Finished, ReportResult(r, e, o) PROVE RowsOK'
    <3>a. e.cmd \in Commands
      BY DEF Events
    <3>1. /\ commands[e.cmd].status # "absent" /\ commands'[e.cmd].status = o
          /\ \A d \in Commands : d # e.cmd => commands'[d] = commands[d]
      BY <2>1, <3>a, <1>t DEF ReportResult, UpdateCommandStatus, Command
    <3> QED
      BY ResultAssumption, <2>1, <3>1 DEF ReportResult, RowsOK
  <2>2. CASE \/ Boot(r) \/ Heartbeat(r) \/ Stop(r) \/ Deregister(r)
             \/ \E e \in Events : \/ Accept(r, e) \/ Drop(r, e) \/ Finish(r, e)
                                  \/ ReportLost(r, e) \/ ReportSettles(r, e)
                                  \/ ReportUnsettled(r, e)
    BY <2>2, RowsKept DEF Boot, Heartbeat, Stop, Deregister, Accept, Drop, Finish, ReportLost,
                          ReportSettles, ReportUnsettled
  <2> QED
    BY <1>3, <2>1, <2>2 DEF RunnerStep
<1>4. CASE ServerCrash
  BY <1>4, <1>t DEF ServerCrash, RowsOK
<1>5. CASE UNCHANGED vars
  BY <1>5, RowsKept DEF vars
<1> QED
  BY <1>1, <1>2, <1>3, <1>4, <1>5 DEF Next

(* StreamsOK is inductive, given the types: Connect is the only step that  *)
(* makes a stream live, and it waits until the runner has no other.        *)
LEMMA StreamsNext == TypeOK /\ StreamsOK /\ [Next]_vars => StreamsOK'
<1> SUFFICES ASSUME TypeOK, StreamsOK, [Next]_vars PROVE StreamsOK'
  OBVIOUS
<1>t. stream \in [Conns -> Stream]
  BY DEF TypeOK
<1> DEFINE Fewer == \A k \in Conns : stream'[k].live =>
                        stream[k].live /\ stream'[k].slug = stream[k].slug
<1>1. Fewer => StreamsOK'
  BY DEF StreamsOK
<1>2. ASSUME NEW r, NEW e, Send(r, e) PROVE Fewer
  BY <1>2, <1>t DEF Send, Push, Stream
<1>3. ASSUME NEW c \in Commands, CommandStep(c) PROVE Fewer
  BY <1>2, <1>3 DEF CommandStep, Insert, Route, Notify, NoteLost, HandleNote, NoteIncr,
                    NoteIncrFails, Kill, Expire
<1>4. ASSUME NEW k \in Conns, StreamStep(k) PROVE StreamsOK'
  <2>1. ASSUME NEW r \in Runners, Connect(r, k) PROVE StreamsOK'
    BY <2>1, <1>t DEF Connect, Linked, StreamsOK
  <2>2. CASE LinkDown(k) \/ StreamEnd(k) \/ \E e \in Events : Deliver(k, e)
    <3>a. ~Cut(stream[k]).live /\ ~NoStream.live
      BY <1>t DEF Cut, NoStream, Stream
    <3>1. ASSUME LinkDown(k) PROVE Fewer
      BY <3>1, <3>a, <1>t DEF LinkDown
    <3>2. ASSUME StreamEnd(k) PROVE Fewer
      BY <3>2, <3>a, <1>t DEF StreamEnd
    <3>3. ASSUME NEW e \in Events, Deliver(k, e) PROVE Fewer
      BY <3>3, <1>t DEF Deliver, Stream
    <3> QED
      BY <2>2, <3>1, <3>2, <3>3, <1>1
  <2>3. CASE \/ \E c \in Commands : FlushClaim(k, c) \/ FlushClaimLost(k, c)
             \/ FlushLook(k) \/ FlushGivesUp(k) \/ FlushIncr(k) \/ FlushIncrFails(k) \/ FlushSend(k)
    BY <2>3, <1>1, <1>2 DEF FlushClaim, FlushClaimLost, FlushLook, FlushGivesUp, FlushIncr,
                            FlushIncrFails, FlushSend
  <2> QED
    BY <1>4, <2>1, <2>2, <2>3 DEF StreamStep
<1>5. ASSUME NEW r \in Runners, RunnerStep(r) PROVE Fewer
  <2>1. CASE Stop(r)
    BY <2>1, <1>t DEF Stop, Cut, Stream
  <2> QED
    BY <1>5, <2>1 DEF RunnerStep, Boot, Heartbeat, Deregister, Accept, Drop, Finish, ReportLost,
                      ReportResult, ReportSettles, ReportUnsettled, clientVars, reportVars
<1>6. CASE ServerCrash
  BY <1>6, <1>1 DEF ServerCrash, NoStream
<1>7. CASE UNCHANGED vars
  BY <1>7, <1>1 DEF vars
<1> QED
  BY <1>1, <1>3, <1>4, <1>5, <1>6, <1>7 DEF Next
(* FlushesOK is inductive, given the types and RowsOK: a claim takes a row *)
(* nobody was assigned, so nobody holds it, and no step assigns it again.  *)
LEMMA FlushesNext == TypeOK /\ RowsOK /\ FlushesOK /\ [Next]_vars => FlushesOK'
<1> SUFFICES ASSUME TypeOK, RowsOK, FlushesOK, [Next]_vars PROVE FlushesOK'
  OBVIOUS
<1>t. /\ commands \in [Commands -> Command] /\ flush \in [Conns -> Flush]
      /\ \A k \in Conns : flush[k].pc # "idle" => flush[k].slug \in Runners
      /\ \A k \in Conns : flush[k].pc \in {"claimed", "counted"} => flush[k].cmd \in Commands
  BY DEF TypeOK, StoreTypeOK, ShapeOK
<1> DEFINE Held(k)  == flush[k].pc \in {"claimed", "counted"}
           Fewer    == \A k \in Conns : Held(k)' =>
                          Held(k) /\ flush'[k].slug = flush[k].slug /\ flush'[k].cmd = flush[k].cmd
           Assigned == \A c \in Commands : commands[c].assigned # None =>
                          commands'[c].assigned = commands[c].assigned
<1>1. Fewer /\ Assigned => FlushesOK'
  BY <1>t, NullAssumption DEF FlushesOK, Holds
<1>2. UNCHANGED flush => Fewer
  OBVIOUS
<1>3. UNCHANGED commands => Assigned
  OBVIOUS
<1>4. ASSUME NEW c \in Commands, CommandStep(c) PROVE Fewer /\ Assigned
  <2>1. Fewer
    BY <1>2, <1>4 DEF CommandStep, Insert, Route, Notify, NoteLost, HandleNote, NoteIncr,
                      NoteIncrFails, Kill, Expire
  <2>2. ASSUME NEW q \in Requests, Insert(c, q) PROVE Assigned
    BY <2>2, <1>t DEF Insert, InsertCommand, RowsOK
  <2>3. CASE Kill(c)
    BY <2>3, <1>t DEF Kill, SetCommandKillRequested, Command
  <2>4. CASE Expire(c)
    BY <2>4, <1>t DEF Expire, PassDeadline, Command
  <2>5. Assigned
    BY <1>3, <1>4, <2>2, <2>3, <2>4 DEF CommandStep, Route, Notify, NoteLost, HandleNote,
                                        NoteIncr, NoteIncrFails
  <2> QED
    BY <2>1, <2>5
<1>5. ASSUME NEW k \in Conns, StreamStep(k) PROVE FlushesOK'
  <2>1. ASSUME NEW c \in Commands, ClaimNextCommand(c, flush[k].slug, flush[k].tags, Locked(k))
        PROVE  /\ commands[c].assigned = None
               /\ commands'[c].assigned = flush[k].slug
               /\ \A d \in Commands : d # c => commands'[d] = commands[d]
    BY <2>1, <1>t DEF ClaimNextCommand, Claimable, RowsOK, Command
  <2>2. ASSUME NEW c \in Commands, FlushClaim(k, c) PROVE FlushesOK'
    <3>1. /\ Held(k)' /\ flush'[k].slug = flush[k].slug /\ flush'[k].cmd = c
          /\ \A l \in Conns : l # k => flush'[l] = flush[l]
          /\ flush[k].slug \in Runners
      BY <2>2, <1>t DEF FlushClaim, Flush
    <3>2. /\ commands[c].assigned = None /\ commands'[c].assigned = flush[k].slug
          /\ \A d \in Commands : d # c => commands'[d] = commands[d]
      BY <2>1, <2>2 DEF FlushClaim
    <3>3. \A l \in Conns : Held(l) => flush[l].cmd # c
      BY <3>2, <1>t, NullAssumption DEF FlushesOK
    <3> QED
      BY <3>1, <3>2, <3>3, <1>t DEF FlushesOK, Holds
  <2>3. ASSUME NEW c \in Commands, FlushClaimLost(k, c) PROVE FlushesOK'
    <3>1. Fewer
      BY <2>3, <1>t DEF FlushClaimLost, NoFlush
    <3>2. Assigned
      BY <2>1, <2>3 DEF FlushClaimLost
    <3> QED
      BY <3>1, <3>2, <1>1
  <2>4. ASSUME NEW r \in Runners, Connect(r, k) PROVE FlushesOK'
    BY <2>4, <1>1, <1>3, <1>t DEF Connect
  <2>5. CASE FlushLook(k) \/ FlushGivesUp(k) \/ FlushSend(k)
    BY <2>5, <1>1, <1>3, <1>t DEF FlushLook, FlushGivesUp, FlushSend, NoFlush, Flush
  <2>6. CASE FlushIncr(k) \/ FlushIncrFails(k)
    <3>1. Fewer
      BY <2>6, <1>t DEF FlushIncr, FlushIncrFails, Flush
    <3> QED
      BY <2>6, <3>1, <1>1, <1>3 DEF FlushIncr, FlushIncrFails
  <2>7. CASE LinkDown(k) \/ StreamEnd(k) \/ \E e \in Events : Deliver(k, e)
    BY <2>7, <1>1, <1>2, <1>3 DEF LinkDown, StreamEnd, Deliver
  <2> QED
    BY <1>5, <2>2, <2>3, <2>4, <2>5, <2>6, <2>7 DEF StreamStep
<1>6. ASSUME NEW r \in Runners, RunnerStep(r) PROVE Fewer /\ Assigned
  <2>1. Fewer
    BY <1>2, <1>6 DEF RunnerStep, Boot, Heartbeat, Stop, Deregister, Accept, Drop, Finish, ReportLost,
                      ReportResult, ReportSettles, ReportUnsettled
  <2>2. ASSUME NEW e \in Events, NEW o \in Finished, ReportResult(r, e, o) PROVE Assigned
    BY <2>2, <1>t DEF ReportResult, UpdateCommandStatus, Command
  <2>3. Assigned
    BY <1>3, <1>6, <2>2 DEF RunnerStep, Boot, Heartbeat, Stop, Deregister, Accept, Drop, Finish,
                            ReportLost, ReportSettles, ReportUnsettled
  <2> QED
    BY <2>1, <2>3
<1>7. CASE ServerCrash
  BY <1>7, <1>1, <1>3 DEF ServerCrash, NoFlush
<1>8. CASE UNCHANGED vars
  BY <1>8, <1>1, <1>2, <1>3 DEF vars
<1> QED
  BY <1>1, <1>4, <1>5, <1>6, <1>7, <1>8 DEF Next
-----------------------------------------------------------------------------
(* Tokens.  Every step of the system is one of five kinds, as far as the   *)
(* tokens of the dispatches are concerned.                                 *)

(* Tokens can only disappear.                                              *)
Quiet == /\ \A k \in Conns : stream'[k].chan \subseteq stream[k].chan
         /\ \A r \in Runners : inbox'[r] \subseteq inbox[r] /\ active'[r] \subseteq active[r]
         /\ results' \subseteq results
         /\ starts' = starts

(* A token that was still to be sent is pushed into channels.              *)
Sending == \E e \in Events : /\ Unsent(e) /\ ~Unsent(e)'
                             /\ \E r \in Runners : Send(r, e)
                             /\ UNCHANGED <<inbox, active, results, starts>>

Delivering == \E k \in Conns : \E e \in Events : Deliver(k, e)
Accepting  == \E r \in Runners : \E e \in Events : Accept(r, e)
Finishing  == \E r \in Runners : \E e \in Events : Finish(r, e)

(* Once sent, a token is never to be sent again.                           *)
NoneUnsentAgain == \A e \in Events : Unsent(e)' => Unsent(e)

(* A step that writes no stage, no assignment and no flush goroutine       *)
(* leaves every token sent that was.                                       *)
LEMMA UnsentKept ==
    UNCHANGED <<commands, note, flush>> => NoneUnsentAgain
  BY DEF NoneUnsentAgain, Unsent, Holds

(* No step makes a sent token unsent: stages only advance, rows are never  *)
(* taken back from their runner, and a goroutine holds only what it        *)
(* claimed.                                                                *)
LEMMA UnsentNext ==
    ASSUME TypeOK, RowsOK, FlushesOK, [Next]_vars
    PROVE  NoneUnsentAgain
<1>t. /\ commands \in [Commands -> Command] /\ flush \in [Conns -> Flush]
      /\ note \in [Commands -> {"idle", "inserted", "routed", "posted", "sent", "done"}]
      /\ \A k \in Conns : flush[k].pc # "idle" => flush[k].slug \in Runners
      /\ \A k \in Conns : flush[k].pc \in {"claimed", "counted"} => flush[k].cmd \in Commands
  BY DEF TypeOK, StoreTypeOK, ShapeOK
<1> DEFINE Early == {"idle", "inserted", "routed", "posted"}
           Stages == \A c \in Commands : note'[c] \in Early => note[c] \in Early
           Given  == \A c \in Commands : commands'[c].assigned = None => commands[c].assigned = None
           Fewer  == \A k \in Conns : \A c \in Commands :
                        Holds(k, c)' => Holds(k, c) \/ commands[c].assigned = None
<1>1. Stages /\ Given /\ Fewer => NoneUnsentAgain
  BY DEF NoneUnsentAgain, Unsent, Events
<1>2. /\ UNCHANGED note => Stages
      /\ UNCHANGED commands => Given
      /\ UNCHANGED flush => Fewer
  BY DEF Holds
<1>3. ASSUME NEW c \in Commands, CommandStep(c) PROVE NoneUnsentAgain
  <2>1. ASSUME NEW q \in Requests, Insert(c, q) PROVE Stages /\ Given
    <3>1. note[c] = "idle" /\ commands[c].assigned = None
      BY <2>1 DEF Insert, InsertCommand, RowsOK
    <3> QED
      BY <2>1, <3>1, <1>t DEF Insert, InsertCommand
  <2>2. CASE Route(c) \/ Notify(c) \/ NoteLost(c) \/ HandleNote(c) \/ NoteIncr(c) \/ NoteIncrFails(c)
    BY <2>2, <1>1, <1>2, <1>t DEF Route, Notify, NoteLost, HandleNote, NoteIncr, NoteIncrFails
  <2>3. ASSUME Kill(c) \/ Expire(c) PROVE Given
    BY <2>3, <1>t DEF Kill, Expire, SetCommandKillRequested, PassDeadline, Command
  <2> QED
    BY <1>1, <1>2, <1>3, <2>1, <2>2, <2>3 DEF CommandStep, Insert, Kill, Expire
<1>4. ASSUME NEW k \in Conns, StreamStep(k) PROVE NoneUnsentAgain
  <2>1. ASSUME NEW c \in Commands, ClaimNextCommand(c, flush[k].slug, flush[k].tags, Locked(k))
        PROVE  commands[c].assigned = None /\ Given
    BY <2>1, <1>t DEF ClaimNextCommand, Claimable, RowsOK, Command
  <2>2. ASSUME NEW c \in Commands, FlushClaim(k, c) PROVE Fewer
    <3>1. commands[c].assigned = None
      BY <2>1, <2>2 DEF FlushClaim
    <3>2. flush'[k].cmd = c /\ \A l \in Conns : l # k => flush'[l] = flush[l]
      BY <2>2, <1>t DEF FlushClaim, Flush
    <3> QED
      BY <3>1, <3>2 DEF Holds
  <2>3. ASSUME \/ \E c \in Commands : FlushClaimLost(k, c)
               \/ \E r \in Runners : Connect(r, k)
               \/ FlushLook(k) \/ FlushGivesUp(k) \/ FlushSend(k)
        PROVE  Fewer
    <3>1. CASE FlushLook(k)
      BY <3>1, <1>t DEF FlushLook, Holds, Flush
    <3>2. ASSUME NEW r \in Runners, Connect(r, k) PROVE Fewer
      <4>1. [NoFlush EXCEPT !.pc = "start", !.slug = r].pc = "start"
        BY DEF NoFlush
      <4> QED
        BY <3>2, <4>1, <1>t DEF Connect, Holds
    <3> QED
      BY <2>3, <3>1, <3>2, <1>t DEF FlushClaimLost, FlushGivesUp, FlushSend, NoFlush, Holds
  <2>4. ASSUME FlushIncr(k) \/ FlushIncrFails(k) PROVE Fewer
    BY <2>4, <1>t DEF FlushIncr, FlushIncrFails, Holds, Flush
  <2>5. CASE \E c \in Commands : FlushClaim(k, c)
    BY <2>1, <2>2, <2>5, <1>1, <1>2 DEF FlushClaim
  <2>6. CASE \E c \in Commands : FlushClaimLost(k, c)
    BY <2>1, <2>3, <2>6, <1>1, <1>2 DEF FlushClaimLost
  <2>7. CASE \E r \in Runners : Connect(r, k)
    BY <2>3, <2>7, <1>1, <1>2 DEF Connect
  <2>8. CASE FlushLook(k) \/ FlushGivesUp(k) \/ FlushSend(k) \/ FlushIncr(k) \/ FlushIncrFails(k)
    BY <2>3, <2>4, <2>8, <1>1, <1>2 DEF FlushLook, FlushGivesUp, FlushSend, FlushIncr, FlushIncrFails
  <2>9. CASE LinkDown(k) \/ StreamEnd(k) \/ \E e \in Events : Deliver(k, e)
    BY <2>9, UnsentKept DEF LinkDown, StreamEnd, Deliver
  <2> QED
    BY <1>4, <2>5, <2>6, <2>7, <2>8, <2>9 DEF StreamStep
<1>5. ASSUME NEW r \in Runners, RunnerStep(r) PROVE NoneUnsentAgain
  <2>1. ASSUME NEW e \in Events, NEW o \in Finished, ReportResult(r, e, o) PROVE Given
    BY <2>1, <1>t DEF ReportResult, UpdateCommandStatus, Command
  <2> QED
    BY <1>1, <1>2, <1>5, <2>1, UnsentKept
    DEF RunnerStep, Boot, Heartbeat, Stop, Deregister, Accept, Drop, Finish, ReportLost, ReportResult,
        ReportSettles, ReportUnsettled
<1>6. CASE ServerCrash
  BY <1>6, <1>1, <1>2, <1>t DEF ServerCrash, NoFlush, Holds
<1>7. CASE UNCHANGED vars
  BY <1>7, UnsentKept DEF vars
<1> QED
  BY <1>3, <1>4, <1>5, <1>6, <1>7 DEF Next
(* A step that touches no place of a token is quiet.                       *)
LEMMA QuietKept ==
    UNCHANGED <<stream, inbox, active, results, starts>> => Quiet
  BY DEF Quiet

(* Every step is of one of the five kinds.                                 *)
LEMMA FiveKinds ==
    ASSUME TypeOK, RowsOK, FlushesOK, [Next]_vars
    PROVE  Quiet \/ Sending \/ Delivering \/ Accepting \/ Finishing
<1>t. /\ stream \in [Conns -> Stream] /\ flush \in [Conns -> Flush]
      /\ commands \in [Commands -> Command]
      /\ note \in [Commands -> {"idle", "inserted", "routed", "posted", "sent", "done"}]
      /\ inbox \in [Runners -> SUBSET Events] /\ active \in [Runners -> SUBSET Events]
      /\ \A k \in Conns : flush[k].pc # "idle" => flush[k].slug \in Runners
      /\ \A k \in Conns : flush[k].pc \in {"claimed", "counted"} => flush[k].cmd \in Commands
  BY DEF TypeOK, StoreTypeOK, ShapeOK
<1>1. ASSUME NEW c \in Commands, CommandStep(c) PROVE Quiet \/ Sending
  <2>1. CASE HandleNote(c)
    <3>1. /\ Note(c) \in Events /\ Note(c).via = "note" /\ Note(c).cmd = c
      BY DEF Events, Paths, Note
    <3>2. to[c] \in Runners /\ note[c] = "posted" /\ note'[c] \in {"sent", "done"}
      BY <2>1, <1>t DEF HandleNote, RowsOK
    <3>3. Unsent(Note(c)) /\ ~Unsent(Note(c))'
      BY <3>1, <3>2 DEF Unsent
    <3> QED
      BY <2>1, <3>1, <3>2, <3>3 DEF HandleNote, Sending, clientVars, reportVars, history
  <2> QED
    BY <1>1, <2>1, QuietKept
    DEF CommandStep, Insert, Route, Notify, NoteLost, NoteIncr, NoteIncrFails, Kill, Expire,
        clientVars, reportVars, history
<1>2. ASSUME NEW k \in Conns, StreamStep(k) PROVE Quiet \/ Sending \/ Delivering
  <2>1. ASSUME NEW r \in Runners, Connect(r, k) PROVE Quiet
    BY <2>1, <1>t DEF Connect, Quiet, Stream, clientVars, reportVars, history
  <2>2. CASE LinkDown(k) \/ StreamEnd(k)
    <3>1. Cut(stream[k]).chan = {} /\ NoStream.chan = {}
      BY <1>t DEF Cut, NoStream, Stream
    <3> QED
      BY <2>2, <3>1, <1>t DEF LinkDown, StreamEnd, Quiet, clientVars, reportVars, history
  <2>3. CASE FlushSend(k)
    <3>1. PICK c \in Commands : c = flush[k].cmd /\ flush[k].slug \in Runners /\ Holds(k, c)
      BY <2>3, <1>t DEF FlushSend, Holds
    <3>2. /\ Claim(c) \in Events /\ Claim(c).via = "claim" /\ Claim(c).cmd = c
      BY <3>1 DEF Events, Paths, Claim
    <3>3. commands[c].assigned # None /\ \A l \in Conns : Holds(l, c) => l = k
      BY <3>1, NullAssumption DEF FlushesOK, Holds
    <3>4. Unsent(Claim(c))
      BY <3>1, <3>2 DEF Unsent
    <3>5. \A l \in Conns : ~Holds(l, c)'
      BY <2>3, <3>3, <1>t DEF FlushSend, NoFlush, Holds
    <3>6. ~Unsent(Claim(c))'
      BY <2>3, <3>2, <3>3, <3>5 DEF Unsent, FlushSend
    <3> QED
      BY <2>3, <3>1, <3>2, <3>4, <3>6 DEF FlushSend, Sending, clientVars, reportVars, history
  <2> QED
    BY <1>2, <2>1, <2>2, <2>3, QuietKept
    DEF StreamStep, FlushClaim, FlushClaimLost, FlushLook, FlushGivesUp, FlushIncr, FlushIncrFails,
        Delivering, clientVars, reportVars, history
<1>3. ASSUME NEW r \in Runners, RunnerStep(r) PROVE Quiet \/ Accepting \/ Finishing
  <2>1. CASE Stop(r)
    <3>1. \A k \in Conns : Cut(stream[k]).chan \subseteq stream[k].chan
      BY <1>t DEF Cut, Stream
    <3> QED
      BY <2>1, <3>1, <1>t DEF Stop, Quiet, reportVars, history
  <2>2. ASSUME NEW e \in Events, Drop(r, e) \/ ReportLost(r, e) PROVE Quiet
    BY <2>2, <1>t DEF Drop, ReportLost, Quiet, clientVars, reportVars, history
  <2>3. ASSUME NEW e \in Events, NEW o \in Finished, ReportResult(r, e, o) PROVE Quiet
    BY <2>3, <1>t DEF ReportResult, Quiet, clientVars, history
  <2> QED
    BY <1>3, <2>1, <2>2, <2>3, QuietKept
    DEF RunnerStep, Boot, Heartbeat, Deregister, ReportSettles, ReportUnsettled, Accepting, Finishing,
        clientVars, reportVars, history
<1>4. CASE ServerCrash
  BY <1>4, <1>t DEF ServerCrash, NoStream, Quiet, clientVars
<1>5. CASE UNCHANGED vars
  BY <1>5, QuietKept DEF vars, clientVars, reportVars, history
<1> QED
  BY <1>1, <1>2, <1>3, <1>4, <1>5 DEF Next
(* hub.Send adds the one event, to live channels of the one runner.        *)
LEMMA SendAdds ==
    ASSUME TypeOK, NEW r \in Runners, NEW e \in Events, Send(r, e)
    PROVE  \A k \in Conns : \A f \in Events : f \in stream'[k].chan =>
              f \in stream[k].chan \/ (f = e /\ stream[k].live /\ stream[k].slug = r)
<1>1. stream \in [Conns -> Stream]
  BY DEF TypeOK
<1> QED
  BY <1>1 DEF Send, Push, Stream

(* What a delivery and an acceptance do to the places of a token.          *)
LEMMA DeliverMoves ==
    ASSUME TypeOK, NEW k \in Conns, NEW e \in Events, Deliver(k, e)
    PROVE  /\ stream[k].slug \in Runners /\ e \in stream[k].chan
           /\ inbox' = [inbox EXCEPT ![stream[k].slug] = @ \cup {e}]
           /\ \A l \in Conns : stream'[l].chan \subseteq stream[l].chan
           /\ e \notin stream'[k].chan
           /\ UNCHANGED <<active, results, starts>>
<1>1. stream \in [Conns -> Stream] /\ stream[k].slug \in Runners
  BY DEF TypeOK, ShapeOK, Deliver
<1> QED
  BY <1>1 DEF Deliver, Stream, reportVars, history

(* A token still to be sent has been nowhere yet.                          *)
LEMMA UnsentOKNext ==
    ASSUME TypeOK, UnsentOK, SentOK, StreamsOK, NoneUnsentAgain,
           Quiet \/ Sending \/ Delivering \/ Accepting \/ Finishing
    PROVE  UnsentOK'
<1>t. /\ starts \in [Events -> Nat] /\ inbox \in [Runners -> SUBSET Events]
  BY DEF TypeOK
<1> SUFFICES ASSUME NEW e \in Events, Unsent(e)'
             PROVE  /\ starts'[e] = 0
                    /\ \A k \in Conns : e \notin stream'[k].chan
                    /\ \A r \in Runners : e \notin inbox'[r]
  BY DEF UnsentOK
<1>0. /\ starts[e] = 0
      /\ \A k \in Conns : e \notin stream[k].chan
      /\ \A r \in Runners : e \notin inbox[r]
  BY DEF UnsentOK, NoneUnsentAgain
<1>1. CASE Quiet
  BY <1>0, <1>1 DEF Quiet
<1>2. CASE Sending
  <2>1. PICK f \in Events : /\ ~Unsent(f)' /\ \E r \in Runners : Send(r, f)
                            /\ UNCHANGED <<inbox, active, results, starts>>
    BY <1>2 DEF Sending
  <2>2. e # f
    BY <2>1
  <2> QED
    BY <1>0, <2>1, <2>2, SendAdds
<1>3. CASE Delivering
  <2>1. PICK k \in Conns, f \in Events : Deliver(k, f)
    BY <1>3 DEF Delivering
  <2> QED
    BY <1>0, <1>t, <2>1, DeliverMoves
<1>4. CASE Accepting
  BY <1>0, <1>4, <1>t DEF Accepting, Accept
<1>5. CASE Finishing
  BY <1>0, <1>5 DEF Finishing, Finish, history
<1> QED
  BY <1>1, <1>2, <1>3, <1>4, <1>5

(* A sent token is in one place and starts once.                           *)
LEMMA SentOKNext ==
    ASSUME TypeOK, UnsentOK, SentOK, StreamsOK,
           Quiet \/ Sending \/ Delivering \/ Accepting \/ Finishing
    PROVE  SentOK'
<1>t. /\ starts \in [Events -> Nat] /\ inbox \in [Runners -> SUBSET Events]
  BY DEF TypeOK
<1>1. CASE Quiet
  BY <1>1 DEF Quiet, SentOK
<1>2. CASE Sending
  <2>1. PICK e \in Events, r \in Runners :
               /\ Unsent(e) /\ Send(r, e) /\ UNCHANGED <<inbox, active, results, starts>>
    BY <1>2 DEF Sending
  <2>2. /\ starts[e] = 0
        /\ \A k \in Conns : e \notin stream[k].chan
        /\ \A s \in Runners : e \notin inbox[s]
    BY <2>1 DEF UnsentOK
  <2>3. \A k \in Conns : \A f \in Events : f \in stream'[k].chan =>
            f \in stream[k].chan \/ (f = e /\ stream[k].live /\ stream[k].slug = r)
    BY <2>1, SendAdds
  <2>4. \A k, l \in Conns : e \in stream'[k].chan /\ e \in stream'[l].chan => l = k
    BY <2>2, <2>3 DEF StreamsOK
  <2> QED
    BY <2>1, <2>2, <2>3, <2>4 DEF SentOK
<1>3. CASE Delivering
  <2>1. PICK k \in Conns, e \in Events : Deliver(k, e)
    BY <1>3 DEF Delivering
  <2>2. /\ stream[k].slug \in Runners /\ e \in stream[k].chan
        /\ inbox' = [inbox EXCEPT ![stream[k].slug] = @ \cup {e}]
        /\ \A l \in Conns : stream'[l].chan \subseteq stream[l].chan
        /\ e \notin stream'[k].chan
        /\ starts' = starts
    BY <2>1, DeliverMoves
  <2>3. /\ starts[e] = 0
        /\ \A l \in Conns : e \in stream[l].chan => l = k
        /\ \A s \in Runners : e \notin inbox[s]
    BY <2>2 DEF SentOK
  <2>4. \A l \in Conns : e \notin stream'[l].chan
    BY <2>2, <2>3
  <2>5. \A s \in Runners : \A f \in Events :
            f \in inbox'[s] => f \in inbox[s] \/ (f = e /\ s = stream[k].slug)
    BY <2>2, <1>t
  <2> QED
    BY <2>2, <2>3, <2>4, <2>5 DEF SentOK
<1>4. CASE Accepting
  <2>1. PICK r \in Runners, e \in Events : Accept(r, e)
    BY <1>4 DEF Accepting
  <2>2. /\ e \in inbox[r] /\ starts[e] = 0
        /\ \A k \in Conns : e \notin stream[k].chan
        /\ \A s \in Runners : e \in inbox[s] => s = r
    BY <2>1 DEF Accept, SentOK
  <2>3. /\ \A s \in Runners : inbox'[s] \subseteq inbox[s]
        /\ e \notin inbox'[r]
        /\ starts'[e] = 1 /\ \A f \in Events : f # e => starts'[f] = starts[f]
        /\ stream' = stream
    BY <2>1, <2>2, <1>t DEF Accept
  <2> QED
    BY <2>2, <2>3 DEF SentOK
<1>5. CASE Finishing
  BY <1>5 DEF Finishing, Finish, SentOK, history
<1> QED
  BY <1>1, <1>2, <1>3, <1>4, <1>5
(* A started token is executed in one place, then reported from one place. *)
LEMMA StartedOKNext ==
    ASSUME TypeOK, SentOK, StartedOK,
           Quiet \/ Sending \/ Delivering \/ Accepting \/ Finishing
    PROVE  StartedOK'
<1>t. /\ starts \in [Events -> Nat] /\ active \in [Runners -> SUBSET Events]
      /\ results \subseteq Runners \X Events
  BY DEF TypeOK
<1>1. CASE Quiet
  BY <1>1 DEF Quiet, StartedOK
<1>2. CASE Sending
  <2>1. active' = active /\ results' = results /\ starts' = starts
    BY <1>2 DEF Sending
  <2> QED
    BY <2>1 DEF StartedOK
<1>3. CASE Delivering
  <2>1. active' = active /\ results' = results /\ starts' = starts
    BY <1>3, DeliverMoves DEF Delivering
  <2> QED
    BY <2>1 DEF StartedOK
<1>4. CASE Accepting
  <2>1. PICK r \in Runners, e \in Events : Accept(r, e)
    BY <1>4 DEF Accepting
  <2>2. starts[e] = 0
    BY <2>1 DEF Accept, SentOK
  <2>3. \A s \in Runners : e \notin active[s] /\ <<s, e>> \notin results
    BY <2>2 DEF StartedOK
  <2>4. /\ starts'[e] = 1 /\ \A f \in Events : f # e => starts'[f] = starts[f]
        /\ results' = results
        /\ \A s \in Runners : \A f \in Events :
              f \in active'[s] <=> f \in active[s] \/ (f = e /\ s = r)
    BY <2>1, <2>2, <1>t DEF Accept, reportVars
  <2>5. ASSUME NEW f \in Events, NEW s \in Runners, f \in active'[s]
        PROVE  /\ starts'[f] = 1
               /\ \A q \in Runners : (f \in active'[q] => q = s) /\ <<q, f>> \notin results'
    <3>1. CASE f = e
      BY <2>3, <2>4, <2>5, <3>1
    <3>2. CASE f # e
      <4>1. f \in active[s]
        BY <2>4, <2>5, <3>2
      <4>2. /\ starts[f] = 1
            /\ \A q \in Runners : (f \in active[q] => q = s) /\ <<q, f>> \notin results
        BY <4>1 DEF StartedOK
      <4> QED
        BY <2>4, <3>2, <4>2
    <3> QED
      BY <3>1, <3>2
  <2>6. ASSUME NEW f \in Events, NEW s \in Runners, <<s, f>> \in results'
        PROVE  /\ starts'[f] = 1
               /\ \A q \in Runners : <<q, f>> \in results' => q = s
    BY <2>3, <2>4, <2>6 DEF StartedOK
  <2> QED
    BY <2>5, <2>6 DEF StartedOK
<1>5. CASE Finishing
  <2>1. PICK r \in Runners, e \in Events : Finish(r, e)
    BY <1>5 DEF Finishing
  <2>2. /\ e \in active[r] /\ starts' = starts
        /\ \A s \in Runners : \A f \in Events :
              /\ f \in active'[s] <=> f \in active[s] /\ ~(f = e /\ s = r)
              /\ <<s, f>> \in results' <=> <<s, f>> \in results \/ (f = e /\ s = r)
    BY <2>1, <1>t DEF Finish, history
  <2>3. /\ starts[e] = 1
        /\ \A s \in Runners : (e \in active[s] => s = r) /\ <<s, e>> \notin results
    BY <2>2 DEF StartedOK
  <2>4. ASSUME NEW f \in Events, NEW s \in Runners, f \in active'[s]
        PROVE  /\ starts'[f] = 1
               /\ \A q \in Runners : (f \in active'[q] => q = s) /\ <<q, f>> \notin results'
    <3>1. f \in active[s] /\ f # e
      BY <2>2, <2>3, <2>4
    <3>2. /\ starts[f] = 1
          /\ \A q \in Runners : (f \in active[q] => q = s) /\ <<q, f>> \notin results
      BY <3>1 DEF StartedOK
    <3> QED
      BY <2>2, <3>1, <3>2
  <2>5. ASSUME NEW f \in Events, NEW s \in Runners, <<s, f>> \in results'
        PROVE  /\ starts'[f] = 1
               /\ \A q \in Runners : <<q, f>> \in results' => q = s
    BY <2>2, <2>3, <2>5 DEF StartedOK
  <2> QED
    BY <2>4, <2>5 DEF StartedOK
<1> QED
  BY <1>1, <1>2, <1>3, <1>4, <1>5

(* A spent token stays spent.                                              *)
LEMMA SpentStays ==
    ASSUME TypeOK, SentOK, NEW e \in Events, Spent(e),
           Quiet \/ Sending \/ Delivering \/ Accepting \/ Finishing
    PROVE  Spent(e)'
<1>t. /\ starts \in [Events -> Nat] /\ active \in [Runners -> SUBSET Events]
  BY DEF TypeOK
<1>1. CASE Quiet
  BY <1>1 DEF Quiet, Spent
<1>2. CASE Sending
  BY <1>2 DEF Sending, Spent
<1>3. CASE Delivering
  BY <1>3, DeliverMoves DEF Delivering, Spent
<1>4. CASE Accepting
  <2>1. PICK r \in Runners, f \in Events : Accept(r, f)
    BY <1>4 DEF Accepting
  <2>2. f # e
    BY <2>1 DEF Accept, SentOK, Spent
  <2> QED
    BY <2>1, <2>2, <1>t DEF Accept, Spent, reportVars
<1>5. CASE Finishing
  BY <1>5, <1>t DEF Finishing, Finish, Spent, history
<1> QED
  BY <1>1, <1>2, <1>3, <1>4, <1>5

(* An outcome is written for an execution that is over, and a row that has *)
(* an outcome keeps having one.                                            *)
LEMMA OutcomesNext ==
    ASSUME TypeOK, SentOK, StartedOK, OutcomesOK, [Next]_vars,
           Quiet \/ Sending \/ Delivering \/ Accepting \/ Finishing
    PROVE  OutcomesOK'
<1>t. commands \in [Commands -> Command] /\ results \subseteq Runners \X Events
  BY DEF TypeOK, StoreTypeOK
<1> SUFFICES ASSUME NEW c \in Commands, commands'[c].status \in Finished
             PROVE  \E p \in Paths : Spent([cmd |-> c, via |-> p])'
  BY DEF OutcomesOK
<1>1. CASE commands[c].status \in Finished
  <2>1. PICK p \in Paths : Spent([cmd |-> c, via |-> p])
    BY <1>1 DEF OutcomesOK
  <2>2. [cmd |-> c, via |-> p] \in Events
    BY DEF Events
  <2> QED
    BY <2>1, <2>2, SpentStays
<1>2. CASE commands[c].status \notin Finished
  <2>1. \E r \in Runners, e \in Events, o \in Finished : ReportResult(r, e, o) /\ e.cmd = c
    <3> DEFINE Same == commands'[c].status = commands[c].status
    <3>1. ASSUME NEW d \in Commands, CommandStep(d) PROVE Same \/ commands'[c].status \notin Finished
      <4>1. ASSUME NEW q \in Requests, Insert(d, q) PROVE Same \/ commands'[c].status = "queued"
        BY <4>1, <1>t DEF Insert, InsertCommand, NoCommand
      <4>2. ASSUME Kill(d) PROVE Same
        BY <4>2, <1>t DEF Kill, SetCommandKillRequested, Command
      <4>3. ASSUME Expire(d) PROVE Same
        BY <4>3, <1>t DEF Expire, PassDeadline, Command
      <4> QED
        BY ResultAssumption, <3>1, <4>1, <4>2, <4>3 DEF CommandStep, Route, Notify, NoteLost, HandleNote, NoteIncr,
              NoteIncrFails
    <3>2. ASSUME NEW k \in Conns, StreamStep(k) PROVE Same \/ commands'[c].status \notin Finished
      <4>1. ASSUME NEW d \in Commands, FlushClaim(k, d) \/ FlushClaimLost(k, d)
            PROVE  Same \/ commands'[c].status = "claimed"
        BY <4>1, <1>t DEF FlushClaim, FlushClaimLost, ClaimNextCommand, Command
      <4> QED
        BY ResultAssumption, <3>2, <4>1 DEF StreamStep, Connect, LinkDown, StreamEnd, FlushLook, FlushGivesUp, FlushIncr,
              FlushIncrFails, FlushSend, Deliver
    <3>3. ASSUME NEW r \in Runners, RunnerStep(r),
                 ~\E e \in Events, o \in Finished : ReportResult(r, e, o) /\ e.cmd = c
          PROVE  Same
      <4>1. ASSUME NEW e \in Events, NEW o \in Finished, ReportResult(r, e, o) PROVE Same
        BY <3>3, <4>1, <1>t DEF ReportResult, UpdateCommandStatus, Command
      <4> QED
        BY <3>3, <4>1 DEF RunnerStep, Boot, Heartbeat, Stop, Deregister, Accept, Drop, Finish, ReportLost,
                          ReportSettles, ReportUnsettled
    <3>4. CASE ServerCrash \/ UNCHANGED vars
      BY <1>2, <3>4 DEF ServerCrash, vars
    <3> QED
      BY <1>2, <3>1, <3>2, <3>3, <3>4 DEF Next
  <2>2. PICK r \in Runners, e \in Events, o \in Finished : ReportResult(r, e, o) /\ e.cmd = c
    BY <2>1
  <2>3. <<r, e>> \in results /\ results' = results \ {<<r, e>>} /\ UNCHANGED <<active, starts>>
    BY <2>2 DEF ReportResult, clientVars, history
  <2>4. /\ starts[e] = 1
        /\ \A s \in Runners : e \notin active[s] /\ (<<s, e>> \in results => s = r)
    BY <2>3 DEF StartedOK
  <2>5. Spent(e)'
    BY <2>3, <2>4 DEF Spent
  <2>6. e.via \in Paths /\ e = [cmd |-> c, via |-> e.via]
    BY <2>2 DEF Events
  <2> QED
    BY <2>5, <2>6
<1> QED
  BY <1>1, <1>2
-----------------------------------------------------------------------------
(* The invariant and what follows from it.                                 *)

(* IInv holds initially.                                                   *)
LEMMA InvInit == Init => IInv
<1> SUFFICES ASSUME Init PROVE IInv
  OBVIOUS
<1>1. TypeOK
  BY TypeInit
<1>2. RowsOK
  BY DEF Init, StoreInit, NoCommand, RowsOK
<1>3. StreamsOK /\ FlushesOK
  BY DEF Init, NoStream, NoFlush, StreamsOK, FlushesOK
<1>4. UnsentOK /\ SentOK /\ StartedOK
  BY DEF Init, NoStream, UnsentOK, SentOK, StartedOK
<1>5. OutcomesOK
  BY ResultAssumption DEF Init, StoreInit, NoCommand, OutcomesOK
<1> QED
  BY <1>1, <1>2, <1>3, <1>4, <1>5 DEF IInv

(* IInv is inductive.                                                      *)
LEMMA InvNext == IInv /\ [Next]_vars => IInv'
<1> SUFFICES ASSUME IInv, [Next]_vars PROVE IInv'
  OBVIOUS
<1>1. /\ TypeOK /\ RowsOK /\ StreamsOK /\ FlushesOK
      /\ UnsentOK /\ SentOK /\ StartedOK /\ OutcomesOK
  BY DEF IInv
<1>2. TypeOK' /\ RowsOK' /\ StreamsOK' /\ FlushesOK'
  BY <1>1, TypeNext, RowsNext, StreamsNext, FlushesNext
<1>3. NoneUnsentAgain
  BY <1>1, UnsentNext
<1>4. Quiet \/ Sending \/ Delivering \/ Accepting \/ Finishing
  BY <1>1, FiveKinds
<1>5. UnsentOK' /\ SentOK' /\ StartedOK'
  BY <1>1, <1>3, <1>4, UnsentOKNext, SentOKNext, StartedOKNext
<1>6. OutcomesOK'
  BY <1>1, <1>4, OutcomesNext
<1> QED
  BY <1>2, <1>5, <1>6 DEF IInv

(* Every reachable state satisfies the inductive invariant.                *)
THEOREM Invariance == Spec => []IInv
  BY InvInit, InvNext, PTL DEF Spec

(* However streams overlap and processes crash, one dispatch never starts  *)
(* two processes.                                                          *)
THEOREM OneStartPerDispatch == Spec => []StartedAtMostOnce
<1>1. IInv => StartedAtMostOnce
  BY DEF IInv, SentOK, StartedAtMostOnce
<1> QED
  BY <1>1, Invariance, PTL

(* A claimed row is held by one flush goroutine, of the runner it is       *)
(* assigned to.                                                            *)
THEOREM OneHolderPerRow == Spec => []FlushExclusive
<1>1. IInv => FlushExclusive
  BY DEF IInv, FlushesOK, FlushExclusive, Holds
<1> QED
  BY <1>1, Invariance, PTL
-----------------------------------------------------------------------------
(* Dispatch implements Ledger.                                             *)

StatusOf == [c \in Commands |-> commands[c].status]
OwnerOf  == [c \in Commands |-> commands[c].assigned]
RanOf    == [c \in Commands |-> {p \in Paths : starts[[cmd |-> c, via |-> p]] > 0}]

(* A step that changes neither the ledger's columns nor the executions.    *)
LEMMA LedgerStutters ==
    ASSUME \A c \in Commands : /\ commands'[c].status = commands[c].status
                               /\ commands'[c].assigned = commands[c].assigned,
           starts' = starts
    PROVE  StatusOf' = StatusOf /\ OwnerOf' = OwnerOf /\ RanOf' = RanOf
  BY DEF StatusOf, OwnerOf, RanOf

(* A step that changes one row's status and owner.                         *)
LEMMA LedgerRow ==
    ASSUME TypeOK, NEW c \in Commands, NEW s, NEW r,
           commands'[c].status = s, commands'[c].assigned = r,
           \A d \in Commands : d # c => commands'[d] = commands[d]
    PROVE  /\ StatusOf' = [StatusOf EXCEPT ![c] = s]
           /\ OwnerOf' = [OwnerOf EXCEPT ![c] = r]
  BY DEF StatusOf, OwnerOf

(* Inserting a row is a submission.                                        *)
LEMMA InsertSubmits ==
    ASSUME IInv, NEW c \in Commands, NEW q \in Requests, Insert(c, q)
    PROVE  Promise!Submit(c)
<1>1. commands \in [Commands -> Command] /\ TypeOK
  BY DEF IInv, TypeOK, StoreTypeOK
<1>2. /\ commands[c].status = "absent" /\ commands[c].assigned = None
      /\ commands'[c].status = "queued" /\ commands'[c].assigned = None
      /\ \A d \in Commands : d # c => commands'[d] = commands[d]
  BY <1>1 DEF Insert, InsertCommand, NoCommand, IInv, RowsOK
<1>3. StatusOf' = [StatusOf EXCEPT ![c] = "queued"] /\ OwnerOf' = [OwnerOf EXCEPT ![c] = None]
  BY <1>1, <1>2, LedgerRow
<1>4. OwnerOf' = OwnerOf /\ RanOf' = RanOf /\ StatusOf[c] = "absent"
  BY <1>2, <1>3 DEF Insert, OwnerOf, RanOf, StatusOf, history
<1> QED
  BY <1>3, <1>4 DEF Promise!Submit, StatusOf, OwnerOf, RanOf

(* Claiming a row is an assignment, also when the claim's answer is lost.  *)
LEMMA ClaimAssigns ==
    ASSUME IInv, NEW c \in Commands, NEW r \in Runners, NEW tags, NEW locked,
             ClaimNextCommand(c, r, tags, locked), UNCHANGED starts
    PROVE  Promise!Assign(c, r)
<1>1. commands \in [Commands -> Command] /\ TypeOK
  BY DEF IInv, TypeOK, StoreTypeOK
<1>2. /\ commands[c].status = "queued" /\ commands[c].assigned = None
      /\ commands'[c].status = "claimed" /\ commands'[c].assigned = r
      /\ \A d \in Commands : d # c => commands'[d] = commands[d]
  BY <1>1 DEF ClaimNextCommand, Claimable, IInv, RowsOK, Command
<1>3. StatusOf' = [StatusOf EXCEPT ![c] = "claimed"] /\ OwnerOf' = [OwnerOf EXCEPT ![c] = r]
  BY <1>1, <1>2, LedgerRow
<1>4. RanOf' = RanOf /\ StatusOf[c] = "queued" /\ OwnerOf[c] = None
  BY <1>2 DEF OwnerOf, RanOf, StatusOf
<1> QED
  BY <1>3, <1>4 DEF Promise!Assign, StatusOf, OwnerOf, RanOf

(* Accepting an event is an execution on its path.                         *)
LEMMA AcceptExecutes ==
    ASSUME IInv, NEW r \in Runners, NEW e \in Events, Accept(r, e)
    PROVE  Promise!Execute(e.cmd, e.via)
<1>1. /\ e.cmd \in Commands /\ e.via \in Paths /\ e = [cmd |-> e.cmd, via |-> e.via]
  BY DEF Events
<1>2. e \in inbox[r] /\ starts[e] = 0 /\ ~Unsent(e) /\ starts \in [Events -> Nat]
  BY DEF Accept, IInv, SentOK, UnsentOK, TypeOK
<1>3. starts'[e] = 1 /\ (\A f \in Events : f # e => starts'[f] = starts[f]) /\ commands' = commands
  BY <1>2 DEF Accept
<1>4. commands[e.cmd].status # "absent" /\ (e.via = "claim" => commands[e.cmd].assigned # None)
  BY <1>1, <1>2 DEF Unsent, IInv, RowsOK
<1>5. e.via \notin RanOf[e.cmd]
  BY <1>1, <1>2 DEF RanOf
<1>6. RanOf' = [RanOf EXCEPT ![e.cmd] = @ \cup {e.via}]
  <2>1. ASSUME NEW c \in Commands, NEW p \in Paths
        PROVE  p \in RanOf'[c] <=> p \in RanOf[c] \/ (c = e.cmd /\ p = e.via)
    <3>1. [cmd |-> c, via |-> p] \in Events
      BY DEF Events
    <3>2. [cmd |-> c, via |-> p] = e <=> c = e.cmd /\ p = e.via
      BY <1>1
    <3> QED
      BY <1>2, <1>3, <3>1, <3>2 DEF RanOf
  <2>2. \A c \in Commands : RanOf[c] \subseteq Paths /\ RanOf'[c] \subseteq Paths
    BY DEF RanOf
  <2>3. \A c \in Commands : RanOf'[c] = IF c = e.cmd THEN RanOf[c] \cup {e.via} ELSE RanOf[c]
    BY <1>1, <2>1, <2>2
  <2>4. /\ RanOf = [c \in Commands |-> RanOf[c]]
        /\ RanOf' = [c \in Commands |-> RanOf'[c]]
    BY DEF RanOf
  <2> QED
    BY <2>3, <2>4
<1>7. StatusOf' = StatusOf /\ OwnerOf' = OwnerOf
  BY <1>3 DEF StatusOf, OwnerOf
<1>8. StatusOf[e.cmd] # "absent" /\ (e.via = "claim" => OwnerOf[e.cmd] # None)
  BY <1>1, <1>4 DEF StatusOf, OwnerOf
<1> QED
  BY <1>5, <1>6, <1>7, <1>8 DEF Promise!Execute, StatusOf, OwnerOf, RanOf

(* Reporting a result is a conclusion; it replaces an outcome only when    *)
(* the command was executed on both paths.                                 *)
LEMMA ReportConcludes ==
    ASSUME IInv, NEW r \in Runners, NEW e \in Events, NEW o \in Finished, ReportResult(r, e, o)
    PROVE  Promise!Conclude(e.cmd, o)
<1>1. /\ e.cmd \in Commands /\ e.via \in Paths /\ e = [cmd |-> e.cmd, via |-> e.via]
  BY DEF Events
<1>2. /\ commands \in [Commands -> Command] /\ TypeOK /\ <<r, e>> \in results /\ starts[e] = 1
  BY DEF ReportResult, IInv, TypeOK, StoreTypeOK, StartedOK
<1>3. /\ commands'[e.cmd].status = o /\ commands'[e.cmd].assigned = commands[e.cmd].assigned
      /\ \A d \in Commands : d # e.cmd => commands'[d] = commands[d]
  BY <1>1, <1>2 DEF ReportResult, UpdateCommandStatus, Command
<1>4. StatusOf' = [StatusOf EXCEPT ![e.cmd] = o] /\ OwnerOf' = OwnerOf /\ RanOf' = RanOf
  <2>1. /\ StatusOf' = [StatusOf EXCEPT ![e.cmd] = o]
        /\ OwnerOf' = [OwnerOf EXCEPT ![e.cmd] = commands[e.cmd].assigned]
    BY <1>1, <1>2, <1>3, LedgerRow
  <2> QED
    BY <2>1 DEF OwnerOf, RanOf, ReportResult, history
<1>5. e.via \in RanOf[e.cmd]
  BY <1>1, <1>2 DEF RanOf
<1>6. ASSUME StatusOf[e.cmd] \in Finished PROVE RanOf[e.cmd] = Paths
  <2>1. PICK p \in Paths : Spent([cmd |-> e.cmd, via |-> p])
    BY <1>1, <1>6 DEF StatusOf, IInv, OutcomesOK
  <2>2. ~Spent(e)
    BY <1>2 DEF Spent
  <2>3. p # e.via
    BY <1>1, <2>1, <2>2
  <2>4. p \in RanOf[e.cmd]
    BY <1>1, <2>1 DEF RanOf, Spent
  <2> QED
    BY <1>1, <1>5, <2>3, <2>4 DEF Paths, RanOf
<1> QED
  BY <1>4, <1>5, <1>6 DEF Promise!Conclude, StatusOf, OwnerOf, RanOf
(* Every step is a step of the ledger, or leaves it alone.                 *)
LEMMA LedgerStep == IInv /\ [Next]_vars => [Promise!LedgerNext]_(Promise!ledger)
<1> SUFFICES ASSUME IInv, [Next]_vars
             PROVE  Promise!LedgerNext \/ UNCHANGED Promise!ledger
  OBVIOUS
<1> DEFINE Same == \A c \in Commands : /\ commands'[c].status = commands[c].status
                                       /\ commands'[c].assigned = commands[c].assigned
<1>t. /\ commands \in [Commands -> Command]
      /\ \A k \in Conns : flush[k].pc # "idle" => flush[k].slug \in Runners
  BY DEF IInv, TypeOK, StoreTypeOK, ShapeOK
<1>1. Same /\ starts' = starts => UNCHANGED Promise!ledger
  BY LedgerStutters DEF Promise!ledger, StatusOf, OwnerOf, RanOf
<1>2. UNCHANGED <<commands, starts>> => UNCHANGED Promise!ledger
  BY <1>1
<1>3. ASSUME NEW c \in Commands, CommandStep(c) PROVE Promise!LedgerNext \/ UNCHANGED Promise!ledger
  <2>1. ASSUME NEW q \in Requests, Insert(c, q) PROVE Promise!LedgerNext
    BY <2>1, InsertSubmits DEF Promise!LedgerNext
  <2>2. ASSUME Kill(c) \/ Expire(c) PROVE Same /\ starts' = starts
    BY <2>2, <1>t DEF Kill, Expire, SetCommandKillRequested, PassDeadline, Command, history
  <2>3. CASE \/ Route(c) \/ Notify(c) \/ NoteLost(c) \/ HandleNote(c) \/ NoteIncr(c)
             \/ NoteIncrFails(c)
    BY <2>3, <1>2 DEF Route, Notify, NoteLost, HandleNote, NoteIncr, NoteIncrFails, history
  <2> QED
    BY <1>1, <1>3, <2>1, <2>2, <2>3 DEF CommandStep
<1>4. ASSUME NEW k \in Conns, StreamStep(k) PROVE Promise!LedgerNext \/ UNCHANGED Promise!ledger
  <2>1. ASSUME NEW c \in Commands, FlushClaim(k, c) \/ FlushClaimLost(k, c)
        PROVE  Promise!LedgerNext
    <3>1. /\ flush[k].slug \in Runners /\ ClaimNextCommand(c, flush[k].slug, flush[k].tags, Locked(k))
          /\ UNCHANGED starts
      BY <2>1, <1>t DEF FlushClaim, FlushClaimLost, history
    <3> QED
      BY <3>1, ClaimAssigns DEF Promise!LedgerNext
  <2> QED
    BY <1>2, <1>4, <2>1 DEF StreamStep, Connect, LinkDown, StreamEnd, FlushLook, FlushGivesUp, FlushIncr,
                            FlushIncrFails, FlushSend, Deliver, history
<1>5. ASSUME NEW r \in Runners, RunnerStep(r) PROVE Promise!LedgerNext \/ UNCHANGED Promise!ledger
  <2>1. ASSUME NEW e \in Events, Accept(r, e) PROVE Promise!LedgerNext
    <3>1. e.cmd \in Commands /\ e.via \in Paths
      BY DEF Events
    <3>2. Promise!Execute(e.cmd, e.via)
      BY <2>1, AcceptExecutes
    <3> QED
      BY <3>1, <3>2 DEF Promise!LedgerNext
  <2>2. ASSUME NEW e \in Events, NEW o \in Finished, ReportResult(r, e, o)
        PROVE  Promise!LedgerNext
    <3>1. e.cmd \in Commands
      BY DEF Events
    <3>2. Promise!Conclude(e.cmd, o)
      BY <2>2, ReportConcludes
    <3> QED
      BY <3>1, <3>2 DEF Promise!LedgerNext
  <2> QED
    BY <1>2, <1>5, <2>1, <2>2 DEF RunnerStep, Boot, Heartbeat, Stop, Deregister, Drop, Finish, ReportLost,
                                  ReportSettles, ReportUnsettled, history
<1>6. CASE ServerCrash \/ UNCHANGED vars
  BY <1>2, <1>6 DEF ServerCrash, vars, history
<1> QED
  BY <1>3, <1>4, <1>5, <1>6 DEF Next

(* The whole system, with all its failures, keeps the promise of Ledger.   *)
THEOREM ImplementsLedger == Spec => KeepsLedger
<1>1. Init => Promise!LedgerInit
  BY DEF Init, StoreInit, NoCommand, Events, Promise!LedgerInit
<1> QED
  BY <1>1, LedgerStep, Invariance, PTL DEF Spec, KeepsLedger, Promise!LedgerSpec
-----------------------------------------------------------------------------
(* Dispatch implements Executors.                                          *)

StartedOf == {e \in Events : starts[e] > 0}

(* Accepting an event starts it: it is in a queue, so it never started.    *)
LEMMA AcceptStarts ==
    ASSUME IInv, NEW r \in Runners, NEW e \in Events, Accept(r, e)
    PROVE  Clients!Start(r, e)
<1>1. /\ e \in inbox[r] /\ starts[e] = 0 /\ starts \in [Events -> Nat]
      /\ active \in [Runners -> SUBSET Events]
  BY DEF Accept, IInv, SentOK, TypeOK
<1>2. starts' = [starts EXCEPT ![e] = @ + 1] /\ active' = [active EXCEPT ![r] = @ \cup {e}]
  BY DEF Accept
<1>3. StartedOf' = StartedOf \cup {e} /\ e \notin StartedOf
  BY <1>1, <1>2 DEF StartedOf
<1>4. \A f \in active[r] : [d \in Events |-> d.cmd][f] # [d \in Events |-> d.cmd][e]
  BY <1>1 DEF Accept
<1>5. \A S : Clients!Cardinality(S) = Cardinality(S)
  BY DEF Cardinality, Clients!Cardinality
<1>6. Clients!Cardinality(active[r]) < MaxConcurrency
  BY <1>5 DEF Accept
<1> QED
  BY <1>2, <1>3, <1>4, <1>6 DEF Clients!Start, StartedOf

(* Every step starts a dispatch on one runner, ends one or all of a        *)
(* runner's, or leaves the executors alone.                                *)
LEMMA ExecutorsStep == IInv /\ [Next]_vars => [Clients!ExecutorsNext]_(Clients!executors)
<1> SUFFICES ASSUME IInv, [Next]_vars
             PROVE  Clients!ExecutorsNext \/ UNCHANGED Clients!executors
  OBVIOUS
<1>0. UNCHANGED <<active, starts>> => UNCHANGED Clients!executors
  BY DEF Clients!executors
<1>1. ASSUME NEW r \in Runners, RunnerStep(r)
      PROVE  Clients!ExecutorsNext \/ UNCHANGED Clients!executors
  <2>1. ASSUME NEW e \in Events, Accept(r, e)
        PROVE  Clients!ExecutorsNext
    BY <2>1, AcceptStarts DEF Clients!ExecutorsNext
  <2>2. ASSUME NEW e \in Events, Finish(r, e)
        PROVE  Clients!ExecutorsNext
    <3>1. e \in active[r] /\ Clients!Leave(r, {e})
      BY <2>2 DEF Finish, Clients!Leave, history
    <3> QED
      BY <3>1 DEF Clients!ExecutorsNext
  <2>3. ASSUME Stop(r)
        PROVE  Clients!ExecutorsNext
    <3>1. active' = [active EXCEPT ![r] = @ \ active[r]]
      BY <2>3 DEF Stop
    <3>2. Clients!Leave(r, active[r])
      BY <2>3, <3>1 DEF Stop, Clients!Leave, history
    <3> QED
      BY <3>2 DEF Clients!ExecutorsNext
  <2> QED
    BY <1>0, <1>1, <2>1, <2>2, <2>3
    DEF RunnerStep, Boot, Heartbeat, Deregister, Drop, ReportLost, ReportResult, ReportSettles,
        ReportUnsettled, history, clientVars
<1>2. ASSUME NEW c \in Commands, CommandStep(c)
      PROVE  UNCHANGED <<active, starts>>
  BY <1>2 DEF CommandStep, Insert, Route, Notify, NoteLost, HandleNote, NoteIncr, NoteIncrFails,
              Kill, Expire, history, clientVars
<1>3. ASSUME NEW k \in Conns, StreamStep(k)
      PROVE  UNCHANGED <<active, starts>>
  BY <1>3 DEF StreamStep, Connect, LinkDown, StreamEnd, FlushClaim, FlushClaimLost, FlushLook, FlushGivesUp,
              FlushIncr, FlushIncrFails, FlushSend, Deliver, history, clientVars
<1>4. CASE ServerCrash \/ UNCHANGED vars
  BY <1>0, <1>4 DEF ServerCrash, vars, history, clientVars
<1> QED
  BY <1>0, <1>1, <1>2, <1>3, <1>4 DEF Next

(* All runners together are executors: a dispatch starts once, on one of   *)
(* them, whatever crashes in between, and below the limit.                 *)
THEOREM ImplementsExecutors == Spec => ActAsExecutors
<1>1. Init => Clients!ExecutorsInit
  BY DEF Init, Clients!ExecutorsInit
<1> QED
  BY <1>1, ExecutorsStep, Invariance, PTL DEF Spec, ActAsExecutors, Clients!ExecutorsSpec
=============================================================================
