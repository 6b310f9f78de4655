------------------------------ MODULE Dispatch ------------------------------
(***************************************************************************)
(* How a command reaches a runner and how its result comes back: the       *)
(* server's HTTP handlers (api/handlers), its LISTEN/NOTIFY listener       *)
(* (cmd/server/main.go), its SSE streams and hub (api/sse), and the main   *)
(* loop of the client (client/internal/runner), around the tables of       *)
(* module Store.                                                           *)
(*                                                                         *)
(* A command travels on two paths that do not know of each other:          *)
(*                                                                         *)
(*   "note"   POST /commands inserts the row, picks a runner, NOTIFYs; the *)
(*            listener sends the event to the runner's streams and counts  *)
(*            it.  The row stays 'queued'.                                 *)
(*   "claim"  a stream that opens claims the oldest matching row, counts   *)
(*            it, and sends it.                                            *)
(*                                                                         *)
(* Every statement, every hub.Send and every message is a step of its own, *)
(* so all their interleavings are behaviours.                              *)
(***************************************************************************)
EXTENDS Store, FiniteSets

CONSTANTS Conns,          \* bound: SSE streams open on the server at a time
          Requests,       \* the POST /commands bodies considered
          ChanCap,        \* capacity of a stream's channel (10 in hub.go)
          InboxCap,       \* capacity of the client's eventCh (10 in sse.go)
          MaxConcurrency, \* CLIENT_MAX_CONCURRENCY
          Environment,    \* what may happen from outside, see Surroundings
          NoCmd           \* a flush goroutine that holds no command

ASSUME RequestAssumption ==
    Requests \subseteq [type: TargetTypes, value: Runners \cup Tags, deadline: {"none", "ahead"}]
ASSUME RequestTargets ==
    \A q \in Requests : q.value \in IF q.type = "tag" THEN Tags ELSE Runners
(* Failing or lost statements, breaking connections, stopping clients,     *)
(* crashes of the server, kill requests, passing deadlines.                *)
Surroundings == {"statement", "link", "client", "server", "kill", "time"}
ASSUME EnvironmentAssumption == Environment \subseteq Surroundings
ASSUME NoCmdAssumption == NoCmd \notin Commands

(* A command_dispatch event; via is a label of the model, not on the wire. *)
Paths  == {"note", "claim"}
Events == [cmd: Commands, via: Paths]
Note(c)  == [cmd |-> c, via |-> "note"]
Claim(c) == [cmd |-> c, via |-> "claim"]

VARIABLES
    note,       \* per command: how far POST /commands and the listener are
    to,         \* per command: the slug in its notification
    stream,     \* per stream: its slug, whether the client reads, its channel
    flush,      \* per stream: its flushQueuedCommands goroutine
    up,         \* per runner: the client process has registered and runs
    byes,       \* runners with a deregistration request on its way
    inbox,      \* per runner: SSEListener.eventCh
    active,     \* per runner: Executor.active
    results,    \* results on their way to POST /runners/{slug}/result
    settling,   \* result requests between their two statements
    starts,     \* history: how often each event started a process
    uncounted,  \* history: events whose increment of active_count was lost
    offered     \* history: per command, the runners it has ever matched

clientVars == <<up, byes, inbox, active>>
reportVars == <<results, settling>>
history    == <<starts, uncounted, offered>>
vars == <<commands, runners, note, to, stream, flush, clientVars, reportVars, history>>

NoStream == [slug |-> None, live |-> FALSE, chan |-> {}]
NoFlush  == [pc |-> "idle", slug |-> None, tags |-> {}, cmd |-> NoCmd]

Stream == [slug: Runners \cup {None}, live: BOOLEAN, chan: SUBSET Events]
Flush  == [pc: {"idle", "start", "looked", "claimed", "counted"},
           slug: Runners \cup {None}, tags: SUBSET Tags, cmd: Commands \cup {NoCmd}]

Init == /\ StoreInit
        /\ note = [c \in Commands |-> "idle"]
        /\ to   = [c \in Commands |-> None]
        /\ stream = [k \in Conns |-> NoStream]
        /\ flush  = [k \in Conns |-> NoFlush]
        /\ up     = [r \in Runners |-> FALSE]
        /\ byes   = {}
        /\ inbox  = [r \in Runners |-> {}]
        /\ active = [r \in Runners |-> {}]
        /\ results = {} /\ settling = {}
        /\ starts = [e \in Events |-> 0]
        /\ uncounted = {}
        /\ offered = [c \in Commands |-> {}]
-----------------------------------------------------------------------------
(* Hub.Send: push the event to every channel registered for the slug, drop *)
(* it where the channel is full.  A channel is kept as the set of its      *)
(* events, which admits every order.  The stream of a client that is gone  *)
(* still accepts events, but nobody can ever tell: its channel is not kept.*)
Streams(r) == {k \in Conns : stream[k].slug = r}

(* A faulty variant, for the mutation runs: the slug is not looked up.     *)
PushToAll(s, r, e) ==
    IF s.live /\ Cardinality(s.chan) < ChanCap THEN [s EXCEPT !.chan = @ \cup {e}] ELSE s

Push(s, r, e) ==
    IF s.slug = r /\ s.live /\ Cardinality(s.chan) < ChanCap
    THEN [s EXCEPT !.chan = @ \cup {e}] ELSE s

Send(r, e) == stream' = [k \in Conns |-> Push(stream[k], r, e)]

(* A client is connected by at most one of its streams at a time.          *)
Linked(r) == \E k \in Conns : stream[k].slug = r /\ stream[k].live

Cut(s) == [s EXCEPT !.live = FALSE, !.chan = {}]

(* Rows that other statements may have locked when a claim looks for one:  *)
(* what another flush goroutine is about to claim, or a result to settle.  *)
Locked(k) ==
    {c \in Commands : \/ \E l \in Conns \ {k} : /\ flush[l].pc = "looked"
                                               /\ Claimable(c, flush[l].slug, flush[l].tags)
                      \/ \E x \in results : x[2].cmd = c}

(* The runners a request matches: the named one; or those that have the    *)
(* tag, or had it when a flush goroutine read their tags.                  *)
TagsInUse(r) ==
    runners[r].tags \cup UNION {flush[k].tags : k \in {l \in Conns : flush[l].slug = r}}

Matched(q) == IF q.type = "tag" THEN {r \in Runners : q.value \in TagsInUse(r)} ELSE {q.value}
-----------------------------------------------------------------------------
(* Faulty variants of the actions below, for the mutation runs.            *)

(* A Send that answers false although streams are registered.              *)
HandleNoteUncounted(c) ==
    /\ note[c] = "posted"
    /\ Send(to[c], Note(c))
    /\ note' = [note EXCEPT ![c] = "done"]
    /\ UNCHANGED <<commands, runners, to, flush, clientVars, reportVars, history>>

(* A client that opens a second stream beside the one it reads.            *)
ConnectTwice(r, k) ==
    /\ up[r] /\ Exists(r)
    /\ stream[k].slug = None /\ flush[k].pc = "idle"
    /\ stream' = [stream EXCEPT ![k] = [slug |-> r, live |-> TRUE, chan |-> {}]]
    /\ flush'  = [flush EXCEPT ![k] = [NoFlush EXCEPT !.pc = "start", !.slug = r]]
    /\ UNCHANGED <<commands, runners, note, to, clientVars, reportVars, history>>

(* A flush goroutine that goes on after ErrNotFound.                       *)
FlushIgnoresNotFound(k) ==
    /\ flush[k].pc = "looked"
    /\ flush' = [flush EXCEPT ![k].pc = "claimed"]
    /\ UNCHANGED <<commands, runners, note, to, stream, clientVars, reportVars, history>>

(* A server that gives back what its runner has claimed when a stream ends.*)
StreamEndRequeues(k) ==
    /\ stream[k].slug # None /\ ~stream[k].live
    /\ stream' = [stream EXCEPT ![k] = NoStream]
    /\ commands' = [c \in Commands |->
                      IF commands[c].status = "claimed" /\ commands[c].assigned = stream[k].slug
                      THEN [commands[c] EXCEPT !.status = "queued"] ELSE commands[c]]
    /\ UNCHANGED <<runners, note, to, flush, clientVars, reportVars, history>>

(* A main loop that handles an event without taking it from eventCh.       *)
AcceptPeeks(r, e) ==
    /\ e \in inbox[r]
    /\ Cardinality(active[r]) < MaxConcurrency
    /\ active' = [active EXCEPT ![r] = @ \cup {e}]
    /\ starts' = [starts EXCEPT ![e] = @ + 1]
    /\ UNCHANGED <<commands, runners, note, to, stream, flush, up, byes, inbox,
                   reportVars, uncounted, offered>>

(* A client that reports once more what was settled already.               *)
ReportSettlesAgain(r, e) ==
    /\ <<r, e>> \in settling
    /\ IncrementRunnerActiveCount(r, -1)
    /\ settling' = settling \ {<<r, e>>}
    /\ results'  = results \cup {<<r, e>>}
    /\ UNCHANGED <<commands, note, to, stream, flush, clientVars, history>>
-----------------------------------------------------------------------------
(* POST /commands and the notification path.                               *)

(* CommandHandlers.Send up to the insert.  A slug or runner target is      *)
(* notified as it stands; a tag target is routed first.                    *)
Insert(c, q) ==
    /\ InsertCommand(c, q.type, q.value, q.deadline)
    /\ IF q.type = "tag"
       THEN note' = [note EXCEPT ![c] = "inserted"] /\ UNCHANGED to
       ELSE /\ note' = [note EXCEPT ![c] = "routed"]
            /\ to'   = [to EXCEPT ![c] = q.value]
    /\ offered' = [offered EXCEPT ![c] = Matched(q)]
    /\ UNCHANGED <<runners, stream, flush, clientVars, reportVars, starts, uncounted>>

(* The least busy online runner with the tag, by the active_count read now.*)
(* Among equals the code takes the most recently created; here, any.       *)
LeastBusy(tag) ==
    {r \in OnlineWithTag(tag) :
        \A s \in OnlineWithTag(tag) : runners[r].active <= runners[s].active}

Route(c) ==
    /\ note[c] = "inserted"
    /\ \E r \in LeastBusy(commands[c].value) :
          note' = [note EXCEPT ![c] = "routed"] /\ to' = [to EXCEPT ![c] = r]
    /\ UNCHANGED <<commands, runners, stream, flush, clientVars, reportVars, history>>

(* pg_notify.                                                              *)
Notify(c) ==
    /\ note[c] = "routed"
    /\ note' = [note EXCEPT ![c] = "posted"]
    /\ UNCHANGED <<commands, runners, to, stream, flush, clientVars, reportVars, history>>

(* The request ends without a notification (nobody to route to, or a       *)
(* statement failed and the error was logged), or the notification is lost *)
(* because the listener is not connected or its lookup failed.  No code    *)
(* tries again.                                                            *)
NoteLost(c) ==
    /\ note[c] \in {"inserted", "routed", "posted"}
    /\ note' = [note EXCEPT ![c] = "done"]
    /\ UNCHANGED <<commands, runners, to, stream, flush, clientVars, reportVars, history>>

(* handleNotification up to hub.Send, which answers whether any stream is  *)
(* registered, not whether any took the event.                             *)
HandleNote(c) ==
    /\ note[c] = "posted"
    /\ Send(to[c], Note(c))
    /\ note' = [note EXCEPT ![c] = IF Streams(to[c]) # {} THEN "sent" ELSE "done"]
    /\ UNCHANGED <<commands, runners, to, flush, clientVars, reportVars, history>>

(* ... and the increment that follows a Send that answered true.           *)
NoteIncr(c) ==
    /\ note[c] = "sent"
    /\ IncrementRunnerActiveCount(to[c], 1)
    /\ note' = [note EXCEPT ![c] = "done"]
    /\ UNCHANGED <<commands, to, stream, flush, clientVars, reportVars, history>>

NoteIncrFails(c) ==
    /\ "statement" \in Environment
    /\ note[c] = "sent"
    /\ note' = [note EXCEPT ![c] = "done"]
    /\ uncounted' = uncounted \cup {Note(c)}
    /\ UNCHANGED <<commands, runners, to, stream, flush, clientVars, reportVars, starts, offered>>
-----------------------------------------------------------------------------
(* The SSE streams and their flush goroutines.                             *)

(* Stream up to the main loop: the runner exists, the hub gets a channel,  *)
(* the flush goroutine starts.                                             *)
Connect(r, k) ==
    /\ up[r] /\ Exists(r) /\ ~Linked(r)
    /\ stream[k].slug = None /\ flush[k].pc = "idle"
    /\ stream' = [stream EXCEPT ![k] = [slug |-> r, live |-> TRUE, chan |-> {}]]
    /\ flush'  = [flush EXCEPT ![k] = [NoFlush EXCEPT !.pc = "start", !.slug = r]]
    /\ UNCHANGED <<commands, runners, note, to, clientVars, reportVars, history>>

(* The connection breaks; what the client had not read is lost.            *)
LinkDown(k) ==
    /\ "link" \in Environment
    /\ stream[k].live
    /\ stream' = [stream EXCEPT ![k] = Cut(@)]
    /\ UNCHANGED <<commands, runners, note, to, flush, clientVars, reportVars, history>>

(* The server notices and unregisters.  The flush goroutine runs on.       *)
StreamEnd(k) ==
    /\ stream[k].slug # None /\ ~stream[k].live
    /\ stream' = [stream EXCEPT ![k] = NoStream]
    /\ UNCHANGED <<commands, runners, note, to, flush, clientVars, reportVars, history>>

(* GetRunner: the tags as they are now.                                    *)
FlushLook(k) ==
    /\ flush[k].pc = "start"
    /\ flush' = [flush EXCEPT ![k].pc = "looked", ![k].tags = runners[flush[k].slug].tags]
    /\ UNCHANGED <<commands, runners, note, to, stream, clientVars, reportVars, history>>

(* The claim uses the tags read before, whatever the row says by now.      *)
FlushClaim(k, c) ==
    /\ flush[k].pc = "looked"
    /\ ClaimNextCommand(c, flush[k].slug, flush[k].tags, Locked(k))
    /\ flush' = [flush EXCEPT ![k].pc = "claimed", ![k].tags = {}, ![k].cmd = c]
    /\ UNCHANGED <<runners, note, to, stream, clientVars, reportVars, history>>

(* The claim commits, but its answer is lost, with the database connection *)
(* or with the cancelled request context of a stream that has ended: the   *)
(* goroutine returns as if nothing had been claimed.                       *)
FlushClaimLost(k, c) ==
    /\ "statement" \in Environment \/ ("link" \in Environment /\ ~stream[k].live)
    /\ flush[k].pc = "looked"
    /\ ClaimNextCommand(c, flush[k].slug, flush[k].tags, Locked(k))
    /\ flush' = [flush EXCEPT ![k] = NoFlush]
    /\ UNCHANGED <<runners, note, to, stream, clientVars, reportVars, history>>

(* No row to claim, or a failed statement.                                 *)
FlushGivesUp(k) ==
    /\ flush[k].pc \in {"start", "looked"}
    /\ flush' = [flush EXCEPT ![k] = NoFlush]
    /\ UNCHANGED <<commands, runners, note, to, stream, clientVars, reportVars, history>>

FlushIncr(k) ==
    /\ flush[k].pc = "claimed"
    /\ IncrementRunnerActiveCount(flush[k].slug, 1)
    /\ flush' = [flush EXCEPT ![k].pc = "counted"]
    /\ UNCHANGED <<commands, note, to, stream, clientVars, reportVars, history>>

FlushIncrFails(k) ==
    /\ "statement" \in Environment
    /\ flush[k].pc = "claimed"
    /\ flush' = [flush EXCEPT ![k].pc = "counted"]
    /\ uncounted' = uncounted \cup {Claim(flush[k].cmd)}
    /\ UNCHANGED <<commands, runners, note, to, stream, clientVars, reportVars, starts, offered>>

(* The answer of hub.Send is ignored: if no stream takes the event, the    *)
(* row stays 'claimed' and the runner stays counted.                       *)
FlushSend(k) ==
    /\ flush[k].pc = "counted"
    /\ Send(flush[k].slug, Claim(flush[k].cmd))
    /\ flush' = [flush EXCEPT ![k] = NoFlush]
    /\ UNCHANGED <<commands, runners, note, to, clientVars, reportVars, history>>
-----------------------------------------------------------------------------
(* The client.                                                             *)

(* A client registers, with other tags than the one before it, perhaps:    *)
(* queued commands with such a tag match the runner from now on.           *)
Boot(r) ==
    /\ ~up[r]
    /\ \E tags \in TagSets[r] :
          /\ UpsertRunner(r, tags)
          /\ offered' = [c \in Commands |->
                IF commands[c].type = "tag" /\ commands[c].value \in tags
                THEN offered[c] \cup {r} ELSE offered[c]]
    /\ up' = [up EXCEPT ![r] = TRUE]
    /\ UNCHANGED <<commands, note, to, stream, flush, byes, inbox, active, reportVars,
                   starts, uncounted>>

(* Also a heartbeat still under way when its client stopped.               *)
Heartbeat(r) ==
    /\ UpdateRunnerHeartbeat(r)
    /\ UNCHANGED <<commands, note, to, stream, flush, clientVars, reportVars, history>>

(* The server loop writes an event, the client's listener queues it.       *)
Deliver(k, e) ==
    /\ stream[k].live /\ e \in stream[k].chan
    /\ LET r == stream[k].slug
       IN  /\ Cardinality(inbox[r]) < InboxCap
           /\ inbox' = [inbox EXCEPT ![r] = @ \cup {e}]
    /\ stream' = [stream EXCEPT ![k].chan = @ \ {e}]
    /\ UNCHANGED <<commands, runners, note, to, flush, up, byes, active, reportVars, history>>

(* handleCommandEvent: below the limit and not already running this id.    *)
Accept(r, e) ==
    /\ e \in inbox[r]
    /\ Cardinality(active[r]) < MaxConcurrency
    /\ \A f \in active[r] : f.cmd # e.cmd
    /\ inbox'  = [inbox EXCEPT ![r] = @ \ {e}]
    /\ active' = [active EXCEPT ![r] = @ \cup {e}]
    /\ starts' = [starts EXCEPT ![e] = @ + 1]
    /\ UNCHANGED <<commands, runners, note, to, stream, flush, up, byes, reportVars,
                   uncounted, offered>>

(* At the limit, a duplicate, no "cmd" in the payload, or the process does *)
(* not start: the event is dropped and nothing is reported.                *)
Drop(r, e) ==
    /\ e \in inbox[r]
    /\ inbox' = [inbox EXCEPT ![r] = @ \ {e}]
    /\ UNCHANGED <<commands, runners, note, to, stream, flush, up, byes, active, reportVars, history>>

(* The process ends; the executor forgets it before the result is sent.    *)
Finish(r, e) ==
    /\ e \in active[r]
    /\ active'  = [active EXCEPT ![r] = @ \ {e}]
    /\ results' = results \cup {<<r, e>>}
    /\ UNCHANGED <<commands, runners, note, to, stream, flush, up, byes, inbox, settling, history>>

(* The client is gone, killed or shut down: links, queue and processes go  *)
(* with it.  On the way out it may or may not get its DELETE out.          *)
Stop(r) ==
    /\ "client" \in Environment
    /\ up[r]
    /\ up' = [up EXCEPT ![r] = FALSE]
    /\ byes' = byes \cup {r} \/ UNCHANGED byes
    /\ inbox'  = [inbox EXCEPT ![r] = {}]
    /\ active' = [active EXCEPT ![r] = {}]
    /\ stream' = [k \in Conns |-> IF stream[k].slug = r THEN Cut(stream[k]) ELSE stream[k]]
    /\ UNCHANGED <<commands, runners, note, to, flush, reportVars, history>>

(* DELETE /runners/{slug}: handled, perhaps after a restart, or lost.      *)
Deregister(r) ==
    /\ r \in byes
    /\ UpdateRunnerStatus(r, "offline") \/ UNCHANGED runners
    /\ byes' = byes \ {r}
    /\ UNCHANGED <<commands, note, to, stream, flush, up, inbox, active, reportVars, history>>
-----------------------------------------------------------------------------
(* POST /runners/{slug}/result: two statements.                            *)

(* The one request of handleResult never gets to its first statement.      *)
ReportLost(r, e) ==
    /\ "statement" \in Environment
    /\ <<r, e>> \in results
    /\ results' = results \ {<<r, e>>}
    /\ UNCHANGED <<commands, runners, note, to, stream, flush, clientVars, settling, history>>

ReportResult(r, e, outcome) ==
    /\ <<r, e>> \in results
    /\ UpdateCommandStatus(e.cmd, outcome)
    /\ results'  = results \ {<<r, e>>}
    /\ settling' = settling \cup {<<r, e>>}
    /\ UNCHANGED <<runners, note, to, stream, flush, clientVars, history>>

ReportSettles(r, e) ==
    /\ <<r, e>> \in settling
    /\ IncrementRunnerActiveCount(r, -1)
    /\ settling' = settling \ {<<r, e>>}
    /\ UNCHANGED <<commands, note, to, stream, flush, clientVars, results, history>>

(* The decrement fails and is only logged.                                 *)
ReportUnsettled(r, e) ==
    /\ "statement" \in Environment
    /\ <<r, e>> \in settling
    /\ settling' = settling \ {<<r, e>>}
    /\ UNCHANGED <<commands, runners, note, to, stream, flush, clientVars, results, history>>
-----------------------------------------------------------------------------
Kill(c) ==
    /\ "kill" \in Environment
    /\ SetCommandKillRequested(c)
    /\ UNCHANGED <<runners, note, to, stream, flush, clientVars, reportVars, history>>

Expire(c) ==
    /\ "time" \in Environment
    /\ PassDeadline(c)
    /\ UNCHANGED <<runners, note, to, stream, flush, clientVars, reportVars, history>>

(* The server process dies and comes back with empty memory: streams,      *)
(* requests, notifications and goroutines are gone, the tables are not.    *)
ServerCrash ==
    /\ "server" \in Environment
    /\ stream' = [k \in Conns |-> NoStream]
    /\ flush'  = [k \in Conns |-> NoFlush]
    /\ note'   = [c \in Commands |-> IF note[c] = "idle" THEN "idle" ELSE "done"]
    /\ uncounted' = uncounted \cup {Note(c) : c \in {d \in Commands : note[d] = "sent"}}
    /\ settling' = {}
    /\ UNCHANGED <<commands, runners, to, clientVars, results, starts, offered>>

CommandStep(c) ==
    \/ \E q \in Requests : Insert(c, q)
    \/ Route(c) \/ Notify(c) \/ NoteLost(c) \/ HandleNote(c)
    \/ NoteIncr(c) \/ NoteIncrFails(c) \/ Kill(c) \/ Expire(c)

StreamStep(k) ==
    \/ \E r \in Runners : Connect(r, k)
    \/ LinkDown(k) \/ StreamEnd(k) \/ FlushLook(k)
    \/ \E c \in Commands : FlushClaim(k, c) \/ FlushClaimLost(k, c)
    \/ FlushGivesUp(k) \/ FlushIncr(k) \/ FlushIncrFails(k) \/ FlushSend(k)
    \/ \E e \in Events : Deliver(k, e)

RunnerStep(r) ==
    \/ Boot(r) \/ Heartbeat(r) \/ Stop(r) \/ Deregister(r)
    \/ \E e \in Events : \/ Accept(r, e) \/ Drop(r, e) \/ Finish(r, e) \/ ReportLost(r, e)
                         \/ \E o \in Finished : ReportResult(r, e, o)
                         \/ ReportSettles(r, e) \/ ReportUnsettled(r, e)

Next == \/ \E c \in Commands : CommandStep(c)
        \/ \E k \in Conns : StreamStep(k)
        \/ \E r \in Runners : RunnerStep(r)
        \/ ServerCrash

Spec == Init /\ [][Next]_vars
-----------------------------------------------------------------------------
(* Properties.                                                             *)

Holds(k, c) == flush[k].pc \in {"claimed", "counted"} /\ flush[k].cmd = c

(* A client reads the stream of a runner; what a dead stream's channel     *)
(* holds is not kept.  A flush goroutine works for a runner, and in its    *)
(* later stages holds the row it has claimed.                              *)
ShapeOK == \A k \in Conns :
    /\ stream[k].live => stream[k].slug \in Runners
    /\ ~stream[k].live => stream[k].chan = {}
    /\ flush[k].pc # "idle" => flush[k].slug \in Runners
    /\ flush[k].pc \in {"claimed", "counted"} => flush[k].cmd \in Commands

(* Every variable holds values of its type, streams and flush goroutines   *)
(* of their shape.                                                         *)
TypeOK ==
    /\ StoreTypeOK
    /\ note \in [Commands -> {"idle", "inserted", "routed", "posted", "sent", "done"}]
    /\ to \in [Commands -> Runners \cup {None}]
    /\ stream \in [Conns -> Stream]
    /\ flush \in [Conns -> Flush]
    /\ ShapeOK
    /\ up \in [Runners -> BOOLEAN]
    /\ byes \subseteq Runners
    /\ inbox \in [Runners -> SUBSET Events]
    /\ active \in [Runners -> SUBSET Events]
    /\ results \subseteq Runners \X Events
    /\ settling \subseteq Runners \X Events
    /\ starts \in [Events -> Nat]
    /\ uncounted \subseteq Events
    /\ offered \in [Commands -> SUBSET Runners]

(* One dispatch starts at most one process, whatever is reconnected,       *)
(* crashed or claimed in between; so a command runs at most twice, once    *)
(* for its notification and once for the claim of its row.                 *)
StartedAtMostOnce == \A e \in Events : starts[e] <= 1

(* A claimed row is in the hands of at most one flush goroutine, of the    *)
(* runner it is assigned to, even while streams of one runner overlap.     *)
FlushExclusive ==
    \A c \in Commands : \A k \in Conns : Holds(k, c) =>
        /\ commands[c].assigned = flush[k].slug
        /\ \A l \in Conns : Holds(l, c) => l = k

(* A runner only ever runs, and reports, commands that name it or have a   *)
(* tag it had at some time since they were posted, or had when a stream    *)
(* that was opening then read it.  More does not hold: a runner that comes *)
(* back without the tag still gets what was routed to it, or claimed with  *)
(* the tags it had.                                                        *)
AddressedTo(c, r) == r \in offered[c]

OnlyAddressed ==
    \A r \in Runners : \A e \in active[r] \cup {x[2] : x \in {y \in results : y[1] = r}} :
        AddressedTo(e.cmd, r)

(* active_count may fall below zero, because the listener counts an event  *)
(* after sending it and the result may be settled first; but never by more *)
(* than the increments still to come or lost.                              *)
Owed(r) == {c \in Commands : to[c] = r /\ (note[c] = "sent" \/ Note(c) \in uncounted)}
           \cup {MaxCommands + c : c \in {d \in Commands :
                    commands[d].assigned = r /\ Claim(d) \in uncounted}}

ActiveCountFloor == \A r \in Runners : runners[r].active + Cardinality(Owed(r)) >= 0

(* A command that a client is executing can be killed: POST                *)
(* /commands/{id}/kill finds it (README.md, "Kill a running command").     *)
RunningIsKillable == \A r \in Runners : \A e \in active[r] : Killable(e.cmd)

(* The ledger that the tables and the executions of this system implement. *)
Promise == INSTANCE Ledger WITH
    status   <- [c \in Commands |-> commands[c].status],
    owner    <- [c \in Commands |-> commands[c].assigned],
    ran      <- [c \in Commands |-> {p \in Paths : starts[[cmd |-> c, via |-> p]] > 0}],
    Outcomes <- Finished,
    Nobody   <- None

(* All clients together are executors of the dispatches: wherever an event *)
(* has been before, it starts only where it never started, under the limit.*)
Clients == INSTANCE Executors WITH
    Machines <- Runners,
    Jobs     <- Events,
    held     <- active,
    begun    <- {e \in Events : starts[e] > 0},
    command  <- [e \in Events |-> e.cmd],
    limit    <- MaxConcurrency

ActAsExecutors == Clients!ExecutorsSpec

(* The whole system keeps the promise of module Ledger.                    *)
KeepsLedger == Promise!LedgerSpec
-----------------------------------------------------------------------------
(* Liveness.  What must not be refused forever: the statements of a flush  *)
(* goroutine, which ends in a bounded number of steps.                     *)
FlushFairness ==
    \A k \in Conns : /\ SF_vars(FlushLook(k))
                     /\ SF_vars(\E c \in Commands : FlushClaim(k, c))
                     /\ WF_vars(FlushIncr(k) \/ FlushIncrFails(k))
                     /\ WF_vars(FlushSend(k))

LiveSpec == Spec /\ FlushFairness

Flushing(r) == \E k \in Conns : flush[k].pc = "start" /\ flush[k].slug = r

(* Nothing polls for queued rows, and one stream claims one row: a backlog *)
(* moves only as fast as the runner reconnects.  As long as it does so     *)
(* again and again, no row that it may claim stays behind.                 *)
ReconnectsDrainQueue ==
    \A r \in Runners : []<>Flushing(r) =>
        \A c \in Commands :
            Claimable(c, r, runners[r].tags) ~> ~Claimable(c, r, runners[r].tags)
=============================================================================
