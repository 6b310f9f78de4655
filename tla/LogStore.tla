------------------------------ MODULE LogStore ------------------------------
(***************************************************************************)
(* The logs table and everybody who works on it: runners that ship batches *)
(* of lines (handlers/runners.go), the retention worker that deletes lines *)
(* by age and by number (workers/retention.go), a reader that asks for one *)
(* page after another (handlers/commands.go) and the SDKs' WatchLogs, which*)
(* polls.  Every SQL statement is one step (postgres/store.go).            *)
(*                                                                         *)
(* A line is known by an id.  Its sequence number is the one the runner    *)
(* gave it: numbers start over when logSeq is reset, so lines of a command *)
(* may share one.  Time is counted in days.                                *)
(***************************************************************************)
EXTENDS Naturals, Sequences, FiniteSets

CONSTANTS Lines,        \* bound: the lines the runners ship
          Batches,      \* sets of lines that are shipped together
          Commands,     \* the texts that are command ids
          Policies,     \* the rows of log_retention_policies, in their order
          Watched,      \* the command that is read and followed
          DefaultPage,  \* 100 in the code
          LargestPage,  \* 1000 in the code
          BytesPerMB,   \* 1024 * 1024 in the code
          BytesPerLine, \* what a line is taken for, 100 in the code
          FollowPage,   \* the page WatchLogs asks for, 100
          Sizes,        \* page sizes a reader may ask for
          LastDay       \* bound

ASSUME LineAssumption ==
    /\ IsFiniteSet(Lines) /\ Batches \subseteq SUBSET Lines
    /\ \A b, d \in Batches : b # d => b \cap d = {}
    /\ \A l \in Lines : l.seq \in Nat /\ l.ts \in Nat
ASSUME PolicyAssumption ==
    /\ Policies \in Seq([scope: STRING, id: STRING, maxAgeDays: Nat, maxSizeMB: Nat])
    /\ LastDay \in Nat /\ BytesPerMB \in Nat /\ BytesPerLine \in Nat \ {0}
ASSUME PageAssumption ==
    DefaultPage \in 1 .. LargestPage /\ FollowPage \in 1 .. LargestPage /\ Sizes \subseteq Nat

VARIABLES
    logs,       \* the table
    shipping,   \* batches on their way to the server
    today,
    worker,     \* the policy the retention worker is at, and the statement
    reader,     \* a reader that asks for page after page
    lastSeq,    \* WatchLogs
    delivered   \* the lines WatchLogs has sent to its channel

vars == <<logs, shipping, today, worker, reader, lastSeq, delivered>>

Idle == [policy |-> 0, limit |-> "age"]

Init == /\ logs = {}
        /\ shipping = Batches
        /\ today = 0
        /\ worker = Idle
        /\ reader = [pc |-> "new", page |-> 1, size |-> 0, got |-> {}, there |-> {}]
        /\ lastSeq = 0
        /\ delivered = {}

Of(c) == {l \in logs : l.command = c}
-----------------------------------------------------------------------------
(* GetLogs: ORDER BY seq LIMIT OFFSET.  Lines with the same number come in *)
(* any order, and in another one in the next query.                        *)

PageSize(size) == IF size \in 1 .. LargestPage THEN size ELSE DefaultPage

(* A faulty variant, for the mutation runs: no ORDER BY.                   *)
PagesUnordered(rows, page, size) ==
    LET n == PageSize(size)
        offset == (page - 1) * n
        left == IF Cardinality(rows) > offset THEN Cardinality(rows) - offset ELSE 0
    IN  {P \in SUBSET rows : Cardinality(P) = IF left < n THEN left ELSE n}

NotAfter(A, B) == \A l \in A, m \in B : l.seq <= m.seq

Pages(rows, page, size) ==
    LET n == PageSize(size)
        offset == (page - 1) * n
        left == IF Cardinality(rows) > offset THEN Cardinality(rows) - offset ELSE 0
        length == IF left < n THEN left ELSE n
    IN  {P \in SUBSET rows :
            /\ Cardinality(P) = length
            /\ length > 0 => \E before \in SUBSET (rows \ P) :
                  /\ Cardinality(before) = offset
                  /\ NotAfter(before, rows \ before)
                  /\ NotAfter(P, rows \ (before \cup P))}
-----------------------------------------------------------------------------
(* The retention worker's statements.                                      *)

Applies(p) == \/ p.scope \in {"global", "runner"}
              \/ p.scope = "command" /\ p.id \in Commands

Covers(p, l) == \/ p.scope = "global"
                \/ p.scope = "runner" /\ l.runner = p.id
                \/ p.scope = "command" /\ l.command = p.id

Scoped(p) == {l \in logs : Covers(p, l)}

Old(p, l) == p.maxAgeDays > 0 /\ Covers(p, l) /\ l.ts + p.maxAgeDays < today

DeleteLogsByAge(p) == {l \in logs : Old(p, l)}

(* A limit in MB is one in lines: no line's size is looked at.             *)
MaxLogs(p) == (p.maxSizeMB * BytesPerMB) \div BytesPerLine

(* A faulty variant, for the mutation runs: the inner count forgets the    *)
(* scope.                                                                  *)
DeleteLogsBySizeOfAll(p) ==
    LET rows == Scoped(p)
        excess == IF Cardinality(logs) > MaxLogs(p) THEN Cardinality(logs) - MaxLogs(p) ELSE 0
        most == IF excess > Cardinality(rows) THEN Cardinality(rows) ELSE excess
    IN  {D \in SUBSET rows : /\ Cardinality(D) = most
                             /\ \A d \in D, k \in rows \ D : d.ts <= k.ts}

(* The sets of lines a size statement may delete: the oldest ones that are *)
(* too many; among lines of the same time any.                             *)
DeleteLogsBySize(p) ==
    LET rows == Scoped(p)
        excess == IF Cardinality(rows) > MaxLogs(p) THEN Cardinality(rows) - MaxLogs(p) ELSE 0
    IN  {D \in SUBSET rows : /\ Cardinality(D) = excess
                             /\ \A d \in D, k \in rows \ D : d.ts <= k.ts}
-----------------------------------------------------------------------------
(* Faulty variants, for the mutation runs: a batch whose answer is lost    *)
(* and that is shipped again; an error that ends the round; a follower     *)
(* whose query forgets the command.                                        *)
BatchInsertRetried(b) ==
    /\ b \in shipping /\ \A l \in b : l.ts <= today
    /\ logs' = logs \cup b
    /\ UNCHANGED <<shipping, today, worker, reader, lastSeq, delivered>>

PolicyFailsRound ==
    /\ worker.policy # 0
    /\ LET p == Policies[worker.policy] IN
       IF worker.limit = "age" THEN p.maxAgeDays > 0 ELSE p.maxSizeMB > 0
    /\ worker' = Idle
    /\ UNCHANGED <<logs, shipping, today, reader, lastSeq, delivered>>

PollEverything ==
    /\ \E P \in Pages(logs, 1, FollowPage) :
          LET news == {l \in P : l.seq > lastSeq} IN
          /\ news # {}
          /\ \E d \in SUBSET news :
                /\ \A l \in news : Cardinality({m \in d : m.seq = l.seq}) = 1
                /\ delivered' = delivered \cup d
          /\ \E l \in news : (\A m \in news : m.seq <= l.seq) /\ lastSeq' = l.seq
    /\ UNCHANGED <<logs, shipping, today, worker, reader>>
-----------------------------------------------------------------------------
(* Runners: POST /runners/{slug}/logs.                                     *)

(* All the INSERTs of a batch are one implicit transaction.                *)
BatchInsertLogs(b) ==
    /\ b \in shipping /\ \A l \in b : l.ts <= today
    /\ logs' = logs \cup b
    /\ shipping' = shipping \ {b}
    /\ UNCHANGED <<today, worker, reader, lastSeq, delivered>>

(* A bad id or a statement that fails: nothing is inserted, and the shipper*)
(* drops the batch.                                                        *)
BatchFails(b) ==
    /\ b \in shipping /\ \A l \in b : l.ts <= today
    /\ shipping' = shipping \ {b}
    /\ UNCHANGED <<logs, today, worker, reader, lastSeq, delivered>>

NextDay == /\ today < LastDay
           /\ today' = today + 1
           /\ UNCHANGED <<logs, shipping, worker, reader, lastSeq, delivered>>
-----------------------------------------------------------------------------
(* Retention.run and applyPolicy.                                          *)

Policy == Policies[worker.policy]

NextPolicy == IF worker.policy < Len(Policies)
              THEN [policy |-> worker.policy + 1, limit |-> "age"]
              ELSE Idle

(* A tick; a round in which the policies cannot be read changes nothing.   *)
RetentionTick ==
    /\ worker = Idle
    /\ worker' = NextPolicy
    /\ UNCHANGED <<logs, shipping, today, reader, lastSeq, delivered>>

(* What a reader may rely on ends with the first line that is deleted.     *)
Delete(gone) ==
    /\ logs' = logs \ gone
    /\ reader' = IF gone = {} THEN reader ELSE [reader EXCEPT !.there = {}]

ApplyAge ==
    /\ worker.policy # 0 /\ worker.limit = "age"
    /\ Policy.maxAgeDays > 0 => Applies(Policy)
    /\ Delete(DeleteLogsByAge(Policy))
    /\ worker' = [worker EXCEPT !.limit = "size"]
    /\ UNCHANGED <<shipping, today, lastSeq, delivered>>

ApplySize ==
    /\ worker.policy # 0 /\ worker.limit = "size"
    /\ IF Policy.maxSizeMB > 0
       THEN Applies(Policy) /\ \E gone \in DeleteLogsBySize(Policy) : Delete(gone)
       ELSE UNCHANGED <<logs, reader>>
    /\ worker' = NextPolicy
    /\ UNCHANGED <<shipping, today, lastSeq, delivered>>

(* A scope that is not supported, an id that is none, a statement that     *)
(* fails: the rest of the policy is skipped, the next one is applied.      *)
PolicyFails ==
    /\ worker.policy # 0
    /\ IF worker.limit = "age" THEN Policy.maxAgeDays > 0 ELSE Policy.maxSizeMB > 0
    /\ worker' = NextPolicy
    /\ UNCHANGED <<logs, shipping, today, reader, lastSeq, delivered>>
-----------------------------------------------------------------------------
(* A reader that asks for page after page until one is empty.              *)

ReadBegin(size) ==
    /\ reader.pc = "new"
    /\ reader' = [reader EXCEPT !.pc = "reading", !.size = size, !.there = Of(Watched)]
    /\ UNCHANGED <<logs, shipping, today, worker, lastSeq, delivered>>

ReadPage ==
    /\ reader.pc = "reading"
    /\ \E P \in Pages(Of(Watched), reader.page, reader.size) :
          reader' = IF P = {} THEN [reader EXCEPT !.pc = "done"]
                    ELSE [reader EXCEPT !.page = @ + 1, !.got = @ \cup P]
    /\ UNCHANGED <<logs, shipping, today, worker, lastSeq, delivered>>
-----------------------------------------------------------------------------
(* WatchLogs: every second the first page, of which the lines with a larger*)
(* number than the last one are sent on, one of each number.  A poll that  *)
(* fails or brings nothing new changes nothing.                            *)
Poll ==
    /\ \E P \in Pages(Of(Watched), 1, FollowPage) :
          LET news == {l \in P : l.seq > lastSeq} IN
          /\ news # {}
          /\ \E d \in SUBSET news :
                /\ \A l \in news : Cardinality({m \in d : m.seq = l.seq}) = 1
                /\ delivered' = delivered \cup d
          /\ \E l \in news : (\A m \in news : m.seq <= l.seq) /\ lastSeq' = l.seq
    /\ UNCHANGED <<logs, shipping, today, worker, reader>>

Ship == \E b \in Batches : BatchInsertLogs(b) \/ BatchFails(b)
Retain == RetentionTick \/ ApplyAge \/ ApplySize \/ PolicyFails
ReadLogs == (\E size \in Sizes : ReadBegin(size)) \/ ReadPage

Next == Ship \/ NextDay \/ Retain \/ ReadLogs \/ Poll

(* The worker's ticker ticks, a statement that is tried again and again    *)
(* succeeds in the end, and the follower polls.                            *)
LogFairness ==
    /\ WF_vars(Retain) /\ WF_vars(Poll)
    /\ \A n \in {m \in DOMAIN Policies : Applies(Policies[m])} :
          SF_vars(worker.policy = n /\ ApplyAge) /\ SF_vars(worker.policy = n /\ ApplySize)

Spec == Init /\ [][Next]_vars /\ LogFairness
-----------------------------------------------------------------------------
(* Properties.                                                             *)

(* Variables have their types; what is still on its way is not yet in the  *)
(* table: no line is inserted twice.                                       *)
TypeOK ==
    /\ logs \subseteq Lines
    /\ shipping \subseteq Batches
    /\ \A b \in shipping : b \cap logs = {}
    /\ today \in 0 .. LastDay
    /\ worker \in [policy: 0 .. Len(Policies), limit: {"age", "size"}]
    /\ worker.policy = 0 => worker = Idle
    /\ reader \in [pc: {"new", "reading", "done"}, page: Nat \ {0}, size: Sizes \cup {0},
                   got: SUBSET Lines, there: SUBSET Lines]
    /\ reader.there \subseteq logs
    /\ lastSeq \in Nat
    /\ delivered \subseteq Lines

(* So many lines the policy has room for, at BytesPerLine each.            *)
Fitting(p) == {n \in Nat : n * BytesPerLine <= p.maxSizeMB * BytesPerMB}

(* Every line the worker deletes is one that a policy which covers it does *)
(* not want: it is too old, or the lines that are not older and stay leave *)
(* no room for it.  A count or an order that is wrong, a scope forgotten in*)
(* one place of a nested statement, loses logs that were to be kept, and   *)
(* nothing brings them back.                                               *)
Unwanted(p, l) ==
    \/ Old(p, l)
    \/ /\ p.maxSizeMB > 0 /\ Covers(p, l)
       /\ Cardinality({k \in Scoped(p) \cap logs' : l.ts <= k.ts}) + 1 \notin Fitting(p)

DeletesOnlyUnwanted ==
    [][\A l \in logs \ logs' : \E n \in DOMAIN Policies : Unwanted(Policies[n], l)]_vars

(* Every limit that can be applied takes effect, however often policies    *)
(* before it, or their first half, fail.                                   *)
LimitsTakeEffect ==
    \A n \in DOMAIN Policies : LET p == Policies[n] IN
        Applies(p) =>
            /\ \A l \in Lines : l \in logs /\ Old(p, l) ~> l \notin logs
            /\ p.maxSizeMB > 0 => []<>(Cardinality(Scoped(p)) \in Fitting(p))

(* A reader misses no line that was there when it began: batches that come *)
(* late, with numbers in between, only move lines to later pages.  Not so  *)
(* for lines that share their number, which a page boundary may hide, and  *)
(* after a deletion, which moves lines to pages already read.              *)
OwnNumber(l) == \A m \in Of(l.command) : m.seq = l.seq => m = l

PagedReadMissesNothing ==
    reader.pc = "done" => \A l \in reader.there : OwnNumber(l) => l \in reader.got

(* Why: the rows before a line that has its own number only become more,   *)
(* and as long as the reader has not got it there are at least as many of  *)
(* them as it has skipped.                                                 *)
Smaller(l) == {m \in Of(Watched) : m.seq < l.seq}

ReadInv ==
    /\ reader.there \subseteq Of(Watched)
    /\ reader.pc = "new" => reader.there = {} /\ reader.page = 1
    /\ \A l \in reader.there : OwnNumber(l) =>
          \/ l \in reader.got
          \/ /\ reader.pc = "reading"
             /\ (reader.page - 1) * PageSize(reader.size) <= Cardinality(Smaller(l))

(* The follower reaches every line that stays on its page, except those    *)
(* numbered 0, unless it has sent a line of that number or a larger one    *)
(* already (a batch that came late).                                       *)
OnFirstPage(l) ==
    l \in Of(Watched) /\ Cardinality({m \in Of(Watched) : m.seq <= l.seq}) <= FollowPage

FollowerReaches ==
    \A l \in Lines : l.command = Watched /\ l.seq > 0 =>
        (OnFirstPage(l) ~> \/ ~OnFirstPage(l)
                           \/ \E d \in delivered : d.command = Watched /\ d.seq >= l.seq)

(* The Python SDK says of the same loop: "Poll and yield new logs as they  *)
(* arrive".                                                                *)
FollowerDelivers ==
    \A l \in Lines : l \in Of(Watched) ~> l \in delivered \/ l \notin logs
=============================================================================
