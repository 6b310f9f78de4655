-------------------------------- MODULE Hub --------------------------------
(***************************************************************************)
(* The SSE hub (server/internal/api/sse/hub.go) under its goroutines: one  *)
(* per open stream, which registers a channel, reads it and unregisters it *)
(* (handler.go, Stream), and one per hub.Send, which pushes an event to    *)
(* every channel of a slug.  Module Dispatch takes a Send as one step;     *)
(* here it pushes to one channel at a time under the read lock.            *)
(*                                                                         *)
(* The sync.RWMutex: a goroutine in Lock() first announces itself, which   *)
(* keeps new readers out, then waits for the readers that are in.  A       *)
(* critical section under the write lock is one step.                      *)
(*                                                                         *)
(* The list of channels of a slug is a set, so a Send may visit them in    *)
(* any order; a channel holds a set of events.                             *)
(***************************************************************************)
EXTENDS Naturals, FiniteSets

CONSTANTS Slugs,    \* runner slugs
          Streams,  \* bound: streams ever opened; each makes one channel
          SlugOf,   \* the slug in each stream's URL
          Sends,    \* bound: calls of hub.Send, each with its own event
          ChanCap,  \* capacity of a channel, 10 in the code
          Nobody    \* no goroutine is in Lock()

ASSUME SlugAssumption   == SlugOf \in [Streams -> Slugs]
ASSUME NobodyAssumption == Nobody \notin Streams

VARIABLES
    connections,  \* Hub.connections: the channels of each slug
    chan,         \* the events a stream's channel holds
    closed,       \* channels that have been closed
    phase,        \* per stream: where its goroutine is
    writer,       \* the stream in Lock(), waiting for readers or inside
    send,         \* per Send: its progress, slug, channels to visit, answer
    took,         \* history: the channels that took a Send's event
    full          \* history: the channels that were full when it came

vars == <<connections, chan, closed, phase, writer, send, took, full>>

Send == [pc: {"idle", "pushing", "done"}, slug: Slugs, todo: SUBSET Streams, answer: BOOLEAN]

Init == /\ connections = [g \in Slugs |-> {}]
        /\ chan   = [s \in Streams |-> {}]
        /\ closed = {}
        /\ phase  = [s \in Streams |-> "new"]
        /\ writer = Nobody
        /\ send \in [Sends -> [pc: {"idle"}, slug: Slugs, todo: {{}}, answer: {FALSE}]]
        /\ took = [p \in Sends |-> {}]
        /\ full = [p \in Sends |-> {}]

(* The goroutines that hold the read lock.                                 *)
Readers == {p \in Sends : send[p].pc = "pushing"}
-----------------------------------------------------------------------------
(* Faulty variants of the actions below, for the mutation runs: Unregister *)
(* under the read lock; a push that waits for room; a Send that stops at   *)
(* the first full channel; an Unregister that only closes the channel; a   *)
(* Register without its deferred Unlock.                                   *)
UnregisterShared(s) ==
    /\ phase[s] = "leaving"
    /\ closed' = closed \cup {s}
    /\ connections' = [connections EXCEPT ![SlugOf[s]] = @ \ {s}]
    /\ phase'  = [phase EXCEPT ![s] = "gone"]
    /\ writer' = IF writer = s THEN Nobody ELSE writer
    /\ UNCHANGED <<chan, send, took, full>>

PushWaits(p, s) ==
    /\ send[p].pc = "pushing" /\ s \in send[p].todo
    /\ Cardinality(chan[s]) < ChanCap
    /\ send' = [send EXCEPT ![p].todo = @ \ {s}]
    /\ chan' = [chan EXCEPT ![s] = @ \cup {p}]
    /\ took' = [took EXCEPT ![p] = @ \cup {s}]
    /\ UNCHANGED <<connections, closed, phase, writer, full>>

PushStopsAtFull(p, s) ==
    /\ send[p].pc = "pushing" /\ s \in send[p].todo
    /\ IF Cardinality(chan[s]) < ChanCap
       THEN /\ send' = [send EXCEPT ![p].todo = @ \ {s}]
            /\ chan' = [chan EXCEPT ![s] = @ \cup {p}]
            /\ took' = [took EXCEPT ![p] = @ \cup {s}]
            /\ UNCHANGED full
       ELSE /\ send' = [send EXCEPT ![p].todo = {}]
            /\ full' = [full EXCEPT ![p] = @ \cup {s}]
            /\ UNCHANGED <<chan, took>>
    /\ UNCHANGED <<connections, closed, phase, writer>>

UnregisterKeepsEntry(s) ==
    /\ writer = s /\ phase[s] = "leaving" /\ Readers = {}
    /\ closed' = closed \cup {s}
    /\ phase'  = [phase EXCEPT ![s] = "gone"]
    /\ writer' = Nobody
    /\ UNCHANGED <<connections, chan, send, took, full>>

RegisterKeepsLock(s) ==
    /\ writer = s /\ phase[s] = "new" /\ Readers = {}
    /\ connections' = [connections EXCEPT ![SlugOf[s]] = @ \cup {s}]
    /\ phase' = [phase EXCEPT ![s] = "open"]
    /\ UNCHANGED <<chan, closed, writer, send, took, full>>
-----------------------------------------------------------------------------
(* The goroutine of a stream.                                              *)

(* h.mu.Lock(), of Register or of Unregister, until the readers are out.   *)
Lock(s) ==
    /\ phase[s] \in {"new", "leaving"}
    /\ writer = Nobody
    /\ writer' = s
    /\ UNCHANGED <<connections, chan, closed, phase, send, took, full>>

Register(s) ==
    /\ writer = s /\ phase[s] = "new" /\ Readers = {}
    /\ connections' = [connections EXCEPT ![SlugOf[s]] = @ \cup {s}]
    /\ phase'  = [phase EXCEPT ![s] = "open"]
    /\ writer' = Nobody
    /\ UNCHANGED <<chan, closed, send, took, full>>

(* The loop of Stream takes an event and writes it to the client.          *)
Receive(s) ==
    /\ phase[s] = "open"
    /\ \E p \in chan[s] : chan' = [chan EXCEPT ![s] = @ \ {p}]
    /\ UNCHANGED <<connections, closed, phase, writer, send, took, full>>

(* The request context is done or a write failed: the loop returns.        *)
Leave(s) ==
    /\ phase[s] = "open"
    /\ phase' = [phase EXCEPT ![s] = "leaving"]
    /\ UNCHANGED <<connections, chan, closed, writer, send, took, full>>

Unregister(s) ==
    /\ writer = s /\ phase[s] = "leaving" /\ Readers = {}
    /\ closed' = closed \cup {s}
    /\ connections' = [connections EXCEPT ![SlugOf[s]] = @ \ {s}]
    /\ phase'  = [phase EXCEPT ![s] = "gone"]
    /\ writer' = Nobody
    /\ UNCHANGED <<chan, send, took, full>>
-----------------------------------------------------------------------------
(* The goroutine of a Send.                                                *)

(* RLock(), and the length test.                                           *)
SendBegin(p) ==
    /\ send[p].pc = "idle"
    /\ writer = Nobody
    /\ send' = IF connections[send[p].slug] = {}
               THEN [send EXCEPT ![p].pc = "done"]
               ELSE [send EXCEPT ![p].pc = "pushing", ![p].todo = connections[send[p].slug]]
    /\ UNCHANGED <<connections, chan, closed, phase, writer, took, full>>

(* One round of the loop: a select with a default never waits.             *)
Push(p, s) ==
    /\ send[p].pc = "pushing" /\ s \in send[p].todo
    /\ send' = [send EXCEPT ![p].todo = @ \ {s}]
    /\ IF Cardinality(chan[s]) < ChanCap
       THEN /\ chan' = [chan EXCEPT ![s] = @ \cup {p}]
            /\ took' = [took EXCEPT ![p] = @ \cup {s}]
            /\ UNCHANGED full
       ELSE /\ full' = [full EXCEPT ![p] = @ \cup {s}]
            /\ UNCHANGED <<chan, took>>
    /\ UNCHANGED <<connections, closed, phase, writer>>

(* "return true" and the deferred RUnlock.                                 *)
SendEnd(p) ==
    /\ send[p].pc = "pushing" /\ send[p].todo = {}
    /\ send' = [send EXCEPT ![p].pc = "done", ![p].answer = TRUE]
    /\ UNCHANGED <<connections, chan, closed, phase, writer, took, full>>

StreamStep(s) == Lock(s) \/ Register(s) \/ Receive(s) \/ Leave(s) \/ Unregister(s)
SendStep(p)   == SendBegin(p) \/ (\E s \in Streams : Push(p, s)) \/ SendEnd(p)

Next == (\E s \in Streams : StreamStep(s)) \/ (\E p \in Sends : SendStep(p))

Spec == Init /\ [][Next]_vars

(* The scheduler runs every goroutine that can go on, and Lock() hands the *)
(* mutex over in turn.  A stream need not ever read its channel, nor end:  *)
(* it may be stuck writing to a client that does not read.                 *)
HubFairness ==
    /\ \A s \in Streams : SF_vars(Lock(s)) /\ WF_vars(Register(s) \/ Unregister(s))
    /\ \A p \in Sends : WF_vars(SendBegin(p)) /\ WF_vars((\E s \in Streams : Push(p, s)) \/ SendEnd(p))

LiveSpec == Spec /\ HubFairness
-----------------------------------------------------------------------------
(* Properties.                                                             *)

(* Every variable holds values of its type, a goroutine in Lock() is about *)
(* to register or to unregister, and only a running Send has channels left.*)
TypeOK == /\ connections \in [Slugs -> SUBSET Streams]
          /\ chan \in [Streams -> SUBSET Sends]
          /\ closed \subseteq Streams
          /\ phase \in [Streams -> {"new", "open", "leaving", "gone"}]
          /\ writer \in Streams \cup {Nobody}
          /\ send \in [Sends -> Send]
          /\ took \in [Sends -> SUBSET Streams]
          /\ full \in [Sends -> SUBSET Streams]
          /\ writer # Nobody => phase[writer] \in {"new", "leaving"}
          /\ \A p \in Sends : send[p].pc # "pushing" => send[p].todo = {}

(* No Send is about to push to a closed channel: the push would panic, and *)
(* with it the goroutine of a notification and the whole server.           *)
NoSendOnClosed == \A p \in Readers : send[p].todo \cap closed = {}

(* A channel is listed, under the slug of its stream only, from Register   *)
(* to Unregister: no closed channel stays behind, and a stream that still  *)
(* reads never finds its own channel closed.                               *)
ListedWhileOpen ==
    \A s \in Streams : \A g \in Slugs :
        s \in connections[g] <=> g = SlugOf[s] /\ phase[s] \in {"open", "leaving"} /\ s \notin closed

(* The hub without its lock, as its streams see it.                        *)
Seen == INSTANCE Fanout WITH
    listed   <- {s \in Streams : s \in connections[SlugOf[s]]},
    to       <- [p \in Sends |-> send[p].slug],
    offered  <- [p \in Sends |-> took[p] \cup full[p]],
    returned <- {p \in Sends : send[p].pc = "done"},
    positive <- {p \in Sends : send[p].answer}

(* To every stream a Send is one step, as module Dispatch has it: each     *)
(* stream of its slug is offered the event once, whatever the others hold, *)
(* and the list it goes through is the same to its end.  It answers false  *)
(* if nobody is there, true if somebody got the event.  (hub.go says of the*)
(* answer: "at least one connection received the event"; the code also     *)
(* answers true when every channel was full, which Fanout leaves open.)    *)
SendsAsOne == Seen!FanoutSpec

(* A stream that ends is always unregistered and a Send always returns,    *)
(* although no stream need ever read its channel: a full channel never     *)
(* makes a Send hold the read lock that Unregister waits for.              *)
NobodyWaitsForever ==
    /\ \A s \in Streams : phase[s] = "leaving" ~> phase[s] = "gone"
    /\ \A p \in Sends : <>(send[p].pc = "done")
=============================================================================
