------------------------------- MODULE Fanout -------------------------------
(***************************************************************************)
(* What the SSE hub promises to those who only see its streams: to each    *)
(* stream a hub.Send is one step, which puts the event into its channel or *)
(* drops it if that is full; a Send offers its event once to each stream   *)
(* of one list, which neither grows nor shrinks until it has returned.  It *)
(* answers false if that list has no stream and true if a channel took the *)
(* event; what it answers when all were full is left open: callers take    *)
(* true for "sent".  There are no locks here.                              *)
(***************************************************************************)
EXTENDS Naturals, FiniteSets

CONSTANTS Streams, SlugOf, Sends, ChanCap

VARIABLES listed,    \* the streams that are registered
          closed,    \* the streams whose channels are closed
          chan,      \* per stream: the events it has not received yet
          to,        \* per Send: its slug
          offered,   \* per Send: the streams it has offered its event to
          took,      \* per Send: those of them whose channels had room
          returned,  \* the Sends that are over
          positive   \* those of them that answered true

fanout == <<listed, closed, chan, to, offered, took, returned, positive>>

Audience(g) == {s \in listed : SlugOf[s] = g}

(* No Send for the slug is between its first stream and its return.        *)
Quiet(g) == \A p \in Sends \ returned : to[p] = g => offered[p] = {}

FanoutInit == /\ listed = {} /\ closed = {}
              /\ chan = [s \in Streams |-> {}]
              /\ offered = [p \in Sends |-> {}]
              /\ took = [p \in Sends |-> {}]
              /\ returned = {} /\ positive = {}

Open(s) ==
    /\ s \notin listed \cup closed /\ Quiet(SlugOf[s])
    /\ listed' = listed \cup {s}
    /\ UNCHANGED <<closed, chan, to, offered, took, returned, positive>>

Close(s) ==
    /\ s \in listed /\ Quiet(SlugOf[s])
    /\ listed' = listed \ {s}
    /\ closed' = closed \cup {s}
    /\ UNCHANGED <<chan, to, offered, took, returned, positive>>

Take(s, p) ==
    /\ s \in listed /\ p \in chan[s]
    /\ chan' = [chan EXCEPT ![s] = @ \ {p}]
    /\ UNCHANGED <<listed, closed, to, offered, took, returned, positive>>

Offer(p, s) ==
    /\ p \notin returned /\ s \in Audience(to[p]) \ offered[p]
    /\ offered' = [offered EXCEPT ![p] = @ \cup {s}]
    /\ IF Cardinality(chan[s]) < ChanCap
       THEN /\ chan' = [chan EXCEPT ![s] = @ \cup {p}]
            /\ took' = [took EXCEPT ![p] = @ \cup {s}]
       ELSE UNCHANGED <<chan, took>>
    /\ UNCHANGED <<listed, closed, to, returned, positive>>

Answer(p) ==
    /\ p \notin returned /\ offered[p] = Audience(to[p])
    /\ returned' = returned \cup {p}
    /\ positive' \in {positive, positive \cup {p}}
    /\ offered[p] = {} => p \notin positive'
    /\ took[p] # {} => p \in positive'
    /\ UNCHANGED <<listed, closed, chan, to, offered, took>>

FanoutNext ==
    \/ \E s \in Streams : Open(s) \/ Close(s) \/ (\E p \in Sends : Take(s, p) \/ Offer(p, s))
    \/ \E p \in Sends : Answer(p)

FanoutSpec == FanoutInit /\ [][FanoutNext]_fanout
=============================================================================
