------------------------------ MODULE HubProofs ------------------------------
(***************************************************************************)
(* For every number of streams, of slugs and of Sends: the hub never sends *)
(* on a closed channel, lists a channel exactly while its stream is open,  *)
(* and implements Fanout: to each stream a Send is one step.               *)
(*                                                                         *)
(* What makes it inductive, besides that a stream closes its channel last, *)
(* is InProgress: while a Send holds the read lock, the channels it has    *)
(* visited and those it has yet to visit make up the list of its slug,     *)
(* none of them twice, because the list changes only without readers.      *)
(***************************************************************************)
EXTENDS Hub, TLAPS

(* A Send's visited and remaining channels make up the list of its slug,   *)
(* and no channel is both.                                                 *)
InProgress == \A p \in Sends :
    /\ send[p].pc # "done" => send[p].answer = FALSE
    /\ send[p].pc = "idle" => took[p] = {} /\ full[p] = {}
    /\ send[p].pc = "pushing" =>
          /\ took[p] \cup full[p] \cup send[p].todo = connections[send[p].slug]
          /\ (took[p] \cup full[p]) \cap send[p].todo = {}
          /\ connections[send[p].slug] # {}

(* A channel is closed by the last thing its stream does.                  *)
ClosedIsGone == \A s \in closed : phase[s] = "gone"

HubInv == TypeOK /\ ListedWhileOpen /\ ClosedIsGone /\ InProgress
-----------------------------------------------------------------------------
(* The empty hub satisfies the invariant.                                  *)
LEMMA InitHubInv == Init => HubInv
  <1> SUFFICES ASSUME Init PROVE HubInv
    OBVIOUS
  <1>1. TypeOK
    BY SlugAssumption, NobodyAssumption DEF Init, TypeOK, Send
  <1>2. ListedWhileOpen
    BY DEF Init, ListedWhileOpen
  <1>3. InProgress
    BY DEF Init, InProgress
  <1>4. ClosedIsGone
    BY DEF Init, ClosedIsGone
  <1> QED BY <1>1, <1>2, <1>3, <1>4 DEF HubInv

(* Every step of a stream keeps the invariant: the two that change a list  *)
(* run without readers.                                                    *)
LEMMA StreamStepInv ==
    ASSUME HubInv, NEW s \in Streams, StreamStep(s)
    PROVE  HubInv'
  <1> USE SlugAssumption, NobodyAssumption DEF HubInv, ClosedIsGone
  <1>1. CASE Lock(s)
    BY <1>1 DEF Lock, TypeOK, ListedWhileOpen, InProgress
  <1>2. CASE Register(s)
    <2>0. connections' \in [Slugs -> SUBSET Streams]
      BY <1>2 DEF Register, TypeOK
    <2>1. phase' \in [Streams -> {"new", "open", "leaving", "gone"}]
      BY <1>2 DEF Register, TypeOK
    <2>4. TypeOK'
      BY <1>2, <2>0, <2>1 DEF Register, TypeOK
    <2>2. ListedWhileOpen'
      BY <1>2 DEF Register, TypeOK, ListedWhileOpen
    <2>3. InProgress'
      BY <1>2 DEF Register, Readers, TypeOK, InProgress
    <2>5. ClosedIsGone'
      BY <1>2 DEF Register, TypeOK
    <2> QED BY <2>2, <2>3, <2>4, <2>5
  <1>3. CASE Receive(s)
    <2>1. PICK p \in chan[s] : chan' = [chan EXCEPT ![s] = @ \ {p}]
      BY <1>3 DEF Receive
    <2> QED BY <1>3, <2>1 DEF Receive, TypeOK, ListedWhileOpen, InProgress
  <1>4. CASE Leave(s)
    BY <1>4 DEF Leave, TypeOK, ListedWhileOpen, InProgress
  <1>5. CASE Unregister(s)
    <2>1. TypeOK'
      BY <1>5 DEF Unregister, TypeOK
    <2>2. ListedWhileOpen'
      BY <1>5 DEF Unregister, TypeOK, ListedWhileOpen
    <2>3. InProgress'
      BY <1>5 DEF Unregister, Readers, TypeOK, InProgress
    <2>4. ClosedIsGone'
      BY <1>5 DEF Unregister, TypeOK
    <2> QED BY <2>1, <2>2, <2>3, <2>4
  <1> QED BY <1>1, <1>2, <1>3, <1>4, <1>5 DEF StreamStep

(* Every step of a Send keeps the invariant.                               *)
LEMMA SendStepInv ==
    ASSUME HubInv, NEW p \in Sends, SendStep(p)
    PROVE  HubInv'
  <1> USE SlugAssumption, NobodyAssumption DEF HubInv, ClosedIsGone
  <1>1. CASE SendBegin(p)
    <2>1. connections[send[p].slug] \subseteq Streams
      BY DEF TypeOK, Send
    <2>2. TypeOK'
      BY <1>1, <2>1 DEF SendBegin, TypeOK, Send
    <2>3. ListedWhileOpen'
      BY <1>1 DEF SendBegin, ListedWhileOpen
    <2>4. InProgress'
      BY <1>1 DEF SendBegin, TypeOK, Send, InProgress
    <2> QED BY <1>1, <2>2, <2>3, <2>4 DEF SendBegin
  <1>2. ASSUME NEW s \in Streams, Push(p, s) PROVE HubInv'
    <2>1. /\ send' \in [Sends -> Send]
          /\ \A q \in Sends : send'[q].pc # "pushing" => send'[q].todo = {}
      BY <1>2 DEF Push, TypeOK, Send
    <2>2. took' \in [Sends -> SUBSET Streams] /\ full' \in [Sends -> SUBSET Streams]
      BY <1>2 DEF Push, TypeOK
    <2>3. chan' \in [Streams -> SUBSET Sends]
      BY <1>2 DEF Push, TypeOK
    <2>4. TypeOK'
      BY <1>2, <2>1, <2>2, <2>3 DEF Push, TypeOK
    <2>5. ListedWhileOpen'
      BY <1>2 DEF Push, ListedWhileOpen
    <2>6. ASSUME NEW q \in Sends, q # p
          PROVE  send'[q] = send[q] /\ took'[q] = took[q] /\ full'[q] = full[q]
      BY <1>2, <2>6 DEF Push, TypeOK
    <2>7. /\ send'[p].pc = "pushing" /\ send'[p].slug = send[p].slug
          /\ send'[p].answer = send[p].answer
          /\ send'[p].todo = send[p].todo \ {s}
          /\ took'[p] \cup full'[p] = took[p] \cup full[p] \cup {s}
      BY <1>2 DEF Push, TypeOK, Send
    <2>8. InProgress'
      <3>1. connections' = connections /\ send[p].pc = "pushing" /\ s \in send[p].todo
        BY <1>2 DEF Push
      <3>2. (took'[p] \cup full'[p]) \cap send'[p].todo = {}
        BY <2>7, <3>1 DEF InProgress
      <3>3. took'[p] \cup full'[p] \cup send'[p].todo = connections'[send'[p].slug]
        BY <2>7, <3>1 DEF InProgress
      <3> QED BY <2>6, <2>7, <3>1, <3>2, <3>3 DEF InProgress
    <2> QED BY <1>2, <2>4, <2>5, <2>8 DEF Push
  <1>3. CASE SendEnd(p)
    <2>1. /\ send' \in [Sends -> Send]
          /\ \A q \in Sends : send'[q].pc # "pushing" => send'[q].todo = {}
      BY <1>3 DEF SendEnd, TypeOK, Send
    <2>2. TypeOK'
      BY <1>3, <2>1 DEF SendEnd, TypeOK
    <2>3. ListedWhileOpen'
      BY <1>3 DEF SendEnd, ListedWhileOpen
    <2>4. InProgress'
      BY <1>3 DEF SendEnd, TypeOK, Send, InProgress
    <2> QED BY <1>3, <2>2, <2>3, <2>4 DEF SendEnd
  <1> QED BY <1>1, <1>2, <1>3 DEF SendStep

(* The invariant holds in every reachable state of the hub.                *)
THEOREM HubInvariance == Spec => []HubInv
  <1>1. Init => HubInv
    BY InitHubInv
  <1>2. HubInv /\ [Next]_vars => HubInv'
    <2> SUFFICES ASSUME HubInv, [Next]_vars PROVE HubInv'
      OBVIOUS
    <2>1. CASE Next
      BY <2>1, StreamStepInv, SendStepInv DEF Next
    <2>2. CASE UNCHANGED vars
      BY <2>2 DEF vars, HubInv, TypeOK, ListedWhileOpen, ClosedIsGone, InProgress
    <2> QED BY <2>1, <2>2
  <1> QED BY <1>1, <1>2, PTL DEF Spec

(* The lists name streams, and the lock is held by whoever the steps of    *)
(* Register, Unregister and Send say.                                      *)
THEOREM HubTypes == Spec => []TypeOK
  <1>1. HubInv => TypeOK
    BY DEF HubInv
  <1> QED BY <1>1, HubInvariance, PTL
-----------------------------------------------------------------------------
(* No push to a channel that Unregister has closed, whatever streams end   *)
(* while Sends are under way: a channel still to visit is still listed.    *)
THEOREM NeverSendsOnClosed == Spec => []NoSendOnClosed
  <1>1. HubInv => NoSendOnClosed
    <2> SUFFICES ASSUME HubInv, NEW p \in Readers, NEW s \in send[p].todo
                 PROVE  s \notin closed
      BY DEF NoSendOnClosed
    <2>1. s \in connections[send[p].slug]
      BY DEF HubInv, InProgress, Readers
    <2>2. s \in Streams /\ send[p].slug \in Slugs
      BY <2>1 DEF HubInv, TypeOK, Send, Readers
    <2> QED BY <2>1, <2>2 DEF HubInv, ListedWhileOpen
  <1> QED BY <1>1, HubInvariance, PTL

(* The list of a slug is exactly its streams between Register and          *)
(* Unregister.                                                             *)
THEOREM ListsOpenStreams == Spec => []ListedWhileOpen
  <1>1. HubInv => ListedWhileOpen
    BY DEF HubInv
  <1> QED BY <1>1, HubInvariance, PTL

(* A list holds the streams of its slug, and no other list holds them.     *)
LEMMA ListIsAudience ==
    ASSUME HubInv, NEW g \in Slugs
    PROVE  Seen!Audience(g) = connections[g]
  BY SlugAssumption DEF HubInv, TypeOK, ListedWhileOpen, Seen!Audience

(* Without readers no Send is half done.                                   *)
LEMMA NoReadersQuiet ==
    ASSUME HubInv, Readers = {}, NEW g
    PROVE  Seen!Quiet(g)
  BY DEF HubInv, TypeOK, Send, InProgress, Readers, Seen!Quiet

(* A stream step is a step of its stream in Fanout, or none: what happens  *)
(* around the lock does not show.                                          *)
LEMMA StreamStepMaps ==
    ASSUME HubInv, NEW s \in Streams, StreamStep(s)
    PROVE  [Seen!FanoutNext]_(Seen!fanout)
  <1> USE SlugAssumption DEF HubInv
  <1>1. CASE Lock(s)
    BY <1>1 DEF Lock, Seen!fanout
  <1>2. CASE Register(s)
    <2>1. s \notin connections[SlugOf[s]] /\ s \notin closed
      BY <1>2 DEF Register, ListedWhileOpen, ClosedIsGone
    <2>2. \A x \in Streams : x \in connections'[SlugOf[x]] <=> x = s \/ x \in connections[SlugOf[x]]
      BY <1>2 DEF Register, TypeOK
    <2>3. Seen!Quiet(SlugOf[s])
      BY <1>2, NoReadersQuiet DEF Register
    <2>4. Seen!Open(s)
      BY <1>2, <2>1, <2>2, <2>3 DEF Register, Seen!Open
    <2> QED BY <2>4 DEF Seen!FanoutNext
  <1>3. CASE Receive(s)
    <2>1. PICK p \in chan[s] : chan' = [chan EXCEPT ![s] = @ \ {p}]
      BY <1>3 DEF Receive
    <2>2. p \in Sends /\ s \in connections[SlugOf[s]]
      BY <1>3, <2>1 DEF Receive, TypeOK, ListedWhileOpen, ClosedIsGone
    <2>3. Seen!Take(s, p)
      BY <1>3, <2>1, <2>2 DEF Receive, Seen!Take
    <2> QED BY <2>2, <2>3 DEF Seen!FanoutNext
  <1>4. CASE Leave(s)
    BY <1>4 DEF Leave, Seen!fanout
  <1>5. CASE Unregister(s)
    <2>1. s \in connections[SlugOf[s]]
      BY <1>5 DEF Unregister, ListedWhileOpen, ClosedIsGone
    <2>2. \A x \in Streams : x \in connections'[SlugOf[x]] <=> x # s /\ x \in connections[SlugOf[x]]
      BY <1>5 DEF Unregister, TypeOK
    <2>3. Seen!Quiet(SlugOf[s])
      BY <1>5, NoReadersQuiet DEF Unregister
    <2>4. Seen!Close(s)
      BY <1>5, <2>1, <2>2, <2>3 DEF Unregister, Seen!Close
    <2> QED BY <2>4 DEF Seen!FanoutNext
  <1> QED BY <1>1, <1>2, <1>3, <1>4, <1>5 DEF StreamStep

(* A push is the offer to one stream; the return of a Send, or the length  *)
(* test that ends it at once, is its answer; taking the lock is nothing.   *)
LEMMA SendStepMaps ==
    ASSUME HubInv, NEW p \in Sends, SendStep(p)
    PROVE  [Seen!FanoutNext]_(Seen!fanout)
  <1> USE DEF HubInv
  <1>0. Seen!Audience(send[p].slug) = connections[send[p].slug]
    BY ListIsAudience DEF TypeOK, Send
  <1>a. [q \in Sends |-> send[q].slug]' = [q \in Sends |-> send[q].slug]
    <2>1. \A q \in Sends : send'[q].slug = send[q].slug
      BY DEF SendStep, SendBegin, Push, SendEnd, TypeOK, Send
    <2> QED BY <2>1
  <1>1. CASE SendBegin(p)
    <2>0. took[p] \cup full[p] = {}
      BY <1>1 DEF SendBegin, InProgress
    <2>1. \A q \in Sends : send'[q].answer = send[q].answer
      BY <1>1 DEF SendBegin, TypeOK, Send
    <2>2. CASE connections[send[p].slug] = {}
      <3>1. \A q \in Sends : send'[q].pc = "done" <=> q = p \/ send[q].pc = "done"
        BY <1>1, <2>2 DEF SendBegin, TypeOK, Send
      <3>2. send[p].pc # "done"
        BY <1>1 DEF SendBegin
      <3>3. Seen!Answer(p)
        <4>1. ~send[p].answer /\ took[p] = {}
          BY <1>1, <2>0 DEF SendBegin, InProgress
        <4> QED
          BY <1>0, <1>1, <1>a, <2>0, <2>1, <2>2, <3>1, <3>2, <4>1 DEF SendBegin, Seen!Answer
      <3> QED BY <3>3 DEF Seen!FanoutNext
    <2>3. CASE connections[send[p].slug] # {}
      <3>1. \A q \in Sends : send'[q].pc = "done" <=> send[q].pc = "done"
        BY <1>1, <2>3 DEF SendBegin, TypeOK, Send
      <3>2. /\ {q \in Sends : send[q].pc = "done"}' = {q \in Sends : send[q].pc = "done"}
            /\ {q \in Sends : send[q].answer}' = {q \in Sends : send[q].answer}
        BY <2>1, <3>1
      <3> QED BY <1>1, <1>a, <3>2 DEF SendBegin, Seen!fanout
    <2> QED BY <2>2, <2>3
  <1>2. ASSUME NEW s \in Streams, Push(p, s) PROVE [Seen!FanoutNext]_(Seen!fanout)
    <2>1. s \in connections[send[p].slug] \ (took[p] \cup full[p]) /\ send[p].pc # "done"
      BY <1>2 DEF Push, InProgress
    <2>2. \A q \in Sends : /\ send'[q].answer = send[q].answer
                           /\ send'[q].pc = send[q].pc
      BY <1>2 DEF Push, TypeOK, Send
    <2>3. \A q \in Sends : took'[q] \cup full'[q] =
                  IF q = p THEN took[p] \cup full[p] \cup {s} ELSE took[q] \cup full[q]
      BY <1>2 DEF Push, TypeOK
    <2>4. IF Cardinality(chan[s]) < ChanCap
          THEN /\ chan' = [chan EXCEPT ![s] = @ \cup {p}]
               /\ took' = [took EXCEPT ![p] = @ \cup {s}]
          ELSE UNCHANGED <<chan, took>>
      BY <1>2 DEF Push
    <2>5. Seen!Cardinality(chan[s]) = Cardinality(chan[s])
      BY DEF Cardinality, Seen!Cardinality
    <2>6. s \in Seen!Audience(send[p].slug)
      BY <1>0, <2>1
    <2>7. /\ {q \in Sends : send[q].pc = "done"}' = {q \in Sends : send[q].pc = "done"}
          /\ {q \in Sends : send[q].answer}' = {q \in Sends : send[q].answer}
      BY <2>2
    <2>8. connections' = connections /\ closed' = closed
      BY <1>2 DEF Push
    <2>9. Seen!Offer(p, s)
      BY <1>a, <2>1, <2>3, <2>4, <2>5, <2>6, <2>7, <2>8 DEF Seen!Offer
    <2> QED BY <2>9 DEF Seen!FanoutNext
  <1>3. CASE SendEnd(p)
    <2>1. took[p] \cup full[p] = connections[send[p].slug] /\ connections[send[p].slug] # {}
      BY <1>3 DEF SendEnd, InProgress
    <2>2. \A q \in Sends : /\ send'[q].pc = "done" <=> q = p \/ send[q].pc = "done"
                           /\ send'[q].answer <=> q = p \/ send[q].answer
      BY <1>3 DEF SendEnd, TypeOK, Send
    <2>3. send[p].pc # "done"
      BY <1>3 DEF SendEnd
    <2>4. Seen!Answer(p)
      BY <1>0, <1>3, <1>a, <2>1, <2>2, <2>3 DEF SendEnd, Seen!Answer
    <2> QED BY <2>4 DEF Seen!FanoutNext
  <1> QED BY <1>1, <1>2, <1>3 DEF SendStep

(* The hub keeps the promise of module Fanout: a Send is one step to each  *)
(* stream of a list that does not change before it returns.                *)
THEOREM ImplementsFanout == Spec => SendsAsOne
  <1>1. Init => Seen!FanoutInit
    BY SlugAssumption DEF Init, Seen!FanoutInit
  <1>2. HubInv /\ [Next]_vars => [Seen!FanoutNext]_(Seen!fanout)
    <2> SUFFICES ASSUME HubInv, [Next]_vars PROVE [Seen!FanoutNext]_(Seen!fanout)
      OBVIOUS
    <2>1. CASE Next
      BY <2>1, StreamStepMaps, SendStepMaps DEF Next
    <2>2. CASE UNCHANGED vars
      BY <2>2 DEF vars, Seen!fanout
    <2> QED BY <2>1, <2>2
  <1> QED BY <1>1, <1>2, HubInvariance, PTL DEF Spec, SendsAsOne, Seen!FanoutSpec
=============================================================================
