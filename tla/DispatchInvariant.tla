-------------------------- MODULE DispatchInvariant --------------------------
(***************************************************************************)
(* The inductive invariant of Dispatch.  Its heart is that a dispatch,     *)
(* that is an event of one path, is one token: it is still to be sent, or  *)
(* in one channel or queue, or being executed, or on its way back as a     *)
(* result, and it never returns to an earlier place.                       *)
(***************************************************************************)
EXTENDS Dispatch

(* A row appears with its request, and has no runner before it is claimed. *)
RowsOK == \A c \in Commands :
    /\ commands[c].status = "absent" <=> note[c] = "idle"
    /\ commands[c].status \in {"absent", "queued"} => commands[c].assigned = None
    /\ note[c] \in {"routed", "posted", "sent"} => to[c] \in Runners

(* A runner reads one stream at a time.                                    *)
StreamsOK == \A k, l \in Conns :
    stream[k].live /\ stream[l].live /\ stream[k].slug = stream[l].slug => k = l

(* The row a flush goroutine has claimed is its own.                       *)
FlushesOK == \A k \in Conns : flush[k].pc \in {"claimed", "counted"} =>
    /\ commands[flush[k].cmd].assigned = flush[k].slug
    /\ \A l \in Conns : Holds(l, flush[k].cmd) => l = k

Unsent(e) == IF e.via = "note"
             THEN note[e.cmd] \in {"idle", "inserted", "routed", "posted"}
             ELSE commands[e.cmd].assigned = None \/ \E k \in Conns : Holds(k, e.cmd)

Spent(e) == /\ starts[e] = 1
            /\ \A r \in Runners : e \notin active[r] /\ <<r, e>> \notin results

(* Where the token of a dispatch can be.                                   *)
UnsentOK == \A e \in Events : Unsent(e) =>
    /\ starts[e] = 0
    /\ \A k \in Conns : e \notin stream[k].chan
    /\ \A r \in Runners : e \notin inbox[r]

SentOK == \A e \in Events :
    /\ starts[e] \in {0, 1}
    /\ \A k \in Conns : e \in stream[k].chan =>
          /\ starts[e] = 0
          /\ \A l \in Conns : e \in stream[l].chan => l = k
          /\ \A r \in Runners : e \notin inbox[r]
    /\ \A r \in Runners : e \in inbox[r] =>
          /\ starts[e] = 0
          /\ \A s \in Runners : e \in inbox[s] => s = r

StartedOK == \A e \in Events : \A r \in Runners :
    /\ e \in active[r] =>
          /\ starts[e] = 1
          /\ \A s \in Runners : (e \in active[s] => s = r) /\ <<s, e>> \notin results
    /\ <<r, e>> \in results =>
          /\ starts[e] = 1
          /\ \A s \in Runners : <<s, e>> \in results => s = r

(* An outcome in the table comes from an execution that is over.           *)
OutcomesOK == \A c \in Commands :
    commands[c].status \in Finished => \E p \in Paths : Spent([cmd |-> c, via |-> p])

(* The whole invariant.                                                    *)
IInv == /\ TypeOK /\ RowsOK /\ StreamsOK /\ FlushesOK
        /\ UnsentOK /\ SentOK /\ StartedOK /\ OutcomesOK
-----------------------------------------------------------------------------
(* For whom a command is.  A notification and an assignment name a runner  *)
(* that the row has matched; a request with a tag target is routed before  *)
(* it is notified.                                                         *)
RoutesOK == \A c \in Commands :
    /\ commands[c].status = "absent" => commands[c].value = None /\ offered[c] = {}
    /\ note[c] = "inserted" => commands[c].type = "tag"
    /\ note[c] \in {"routed", "posted"} => AddressedTo(c, to[c])
    /\ commands[c].assigned # None => AddressedTo(c, commands[c].assigned)

(* Whoever the table, or the tags a flush goroutine has read, say the row  *)
(* is for, it has matched: what is read is at worst stale.                 *)
MatchesOK == \A c \in Commands : \A r \in Runners :
    /\ commands[c].type \in {"slug", "runner"} /\ commands[c].value = r => AddressedTo(c, r)
    /\ commands[c].type = "tag" /\ commands[c].value \in TagsInUse(r) => AddressedTo(c, r)

(* Wherever an event is, it is with a runner its row has matched.          *)
PlacesOK == \A e \in Events :
    /\ \A k \in Conns : e \in stream[k].chan => AddressedTo(e.cmd, stream[k].slug)
    /\ \A r \in Runners :
          e \in inbox[r] \/ e \in active[r] \/ <<r, e>> \in results => AddressedTo(e.cmd, r)

(* Why OnlyAddressed holds, although each of these steps reads what the    *)
(* step before it found.                                                   *)
AddressInv == RoutesOK /\ MatchesOK /\ PlacesOK
-----------------------------------------------------------------------------
(* Why active_count has a floor.  The dispatches that have been sent to a  *)
(* runner, or are about to be, and whose decrement may still come.         *)
Outstanding(r) == {e \in Events :
    \/ \E k \in Conns : /\ stream[k].slug = r
                        /\ e \in stream[k].chan
    \/ \E k \in Conns : /\ flush[k].pc = "counted" /\ flush[k].slug = r
                        /\ e = Claim(flush[k].cmd)
    \/ e \in inbox[r] \/ e \in active[r]
    \/ <<r, e>> \in results \/ <<r, e>> \in settling}

(* A lost increment belongs to a dispatch that is past its counting.       *)
UncountedOK == \A c \in Commands :
    /\ Note(c) \in uncounted => note[c] = "done"
    /\ Claim(c) \in uncounted =>
          /\ commands[c].assigned # None
          /\ \A k \in Conns : ~(flush[k].pc = "claimed" /\ flush[k].cmd = c)

(* A result is settled once: its execution is nowhere else any more.       *)
SettlingOK == \A r \in Runners : \A e \in Events : <<r, e>> \in settling => Spent(e)

(* Each of them has been counted, or its increment is owed.                *)
CountOK == \A r \in Runners :
    runners[r].active + Cardinality(Owed(r)) >= Cardinality(Outstanding(r))

(* So every decrement finds what it takes away, although it may come       *)
(* before its increment, and whichever of the statements are lost.         *)
CountInv == UncountedOK /\ SettlingOK /\ CountOK
=============================================================================
