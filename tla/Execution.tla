----------------------------- MODULE Execution -----------------------------
(***************************************************************************)
(* One runner process at work (client/internal/runner/lifecycle.go and     *)
(* executor.go, client/internal/shipper/logs.go): the main loop accepts    *)
(* dispatched commands, each runs in a process whose two pipes are read by *)
(* goroutines of their own, a third goroutine waits for the process and    *)
(* then closes the channel the readers send to, a fourth numbers the lines *)
(* for the log shipper, a fifth reports the result.                        *)
(*                                                                         *)
(* Text: a process writes the pieces 1, 2, 3, ... to a pipe, those in      *)
(* Newlines end a line, those in Bare are a newline and nothing else.  A   *)
(* line is the sequence of the pieces it is made of.  A read returns any   *)
(* number of the pieces that are in the pipe.                              *)
(***************************************************************************)
EXTENDS Naturals, Sequences, FiniteSets

CONSTANTS Jobs,            \* bound: command_dispatch events the client gets
          Commands,        \* command ids; two events may carry the same one
          Sources,         \* "stdout" and "stderr"
          Newlines,        \* the pieces that end a line
          Bare,            \* those of them that have no text before the newline
          TextOf,          \* bound: how many pieces a job may write to a pipe
          LogCap,          \* capacity of logCh, 100 in the code
          Limits,          \* values of CLIENT_MAX_CONCURRENCY considered
          NoJob            \* the main loop is at its select

ASSUME TextAssumption == TextOf \in [Jobs -> Nat] /\ Bare \subseteq Newlines /\ Newlines \subseteq Nat
ASSUME JobAssumption  == NoJob \notin Jobs
ASSUME LimitAssumption == LogCap \in Nat /\ Limits \subseteq Nat

VARIABLES
    cmd,       \* per job: the command id in its event
    limit,     \* MaxConcurrency, read at start
    main,      \* the job the main loop has accepted and not started or refused
    proc,      \* per job: its process, and how far the waiting goroutine is
    active,    \* the keys of Executor.active
    wrote,     \* per pipe: how many pieces the process has written
    reader,    \* per pipe: its streamOutput
    logCh,     \* per job: the lines on their way to streamLogs
    logSeq,    \* Runner.logSeq; a missing key reads as 0
    buffer,    \* LogShipper.buffer
    batches,   \* batches that are being shipped
    rows,      \* the logs table
    reported,  \* jobs whose result has been sent
    alive,     \* the client process has not panicked
    lost       \* history: the pieces known to be lost

streaming == <<wrote, reader, logCh>>
shipping  == <<buffer, batches, rows, lost>>
vars == <<cmd, limit, main, proc, active, streaming, logSeq, shipping, reported, alive>>

Progress == {"new", "checked", "listed", "refused",
             "running", "exited", "waited", "forgotten", "closed"}

Reader == [pc: {"off", "reading", "rest", "done"}, got: Nat,
           data: Seq(Nat), incomplete: Seq(Nat)]
Output == [job: Jobs, source: Sources, text: Seq(Nat)]
Entry  == [cmd: Commands, seq: Nat, out: Output]

Init == /\ cmd \in [Jobs -> Commands]
        /\ limit \in Limits
        /\ main = NoJob
        /\ proc = [j \in Jobs |-> "new"]
        /\ active = {}
        /\ wrote  = [j \in Jobs |-> [s \in Sources |-> 0]]
        /\ reader = [j \in Jobs |-> [s \in Sources |->
                       [pc |-> "off", got |-> 0, data |-> <<>>, incomplete |-> <<>>]]]
        /\ logCh  = [j \in Jobs |-> <<>>]
        /\ logSeq = [c \in Commands |-> 0]
        /\ buffer = {} /\ batches = {} /\ rows = {}
        /\ reported = {} /\ alive = TRUE /\ lost = {}
-----------------------------------------------------------------------------
(* Faulty variants of the actions below, for the mutation runs: a limit    *)
(* that is off by one; an Execute that does not look for a running process *)
(* of the same command; an error path that forgets the command whatever    *)
(* the error was; an Execute that starts no readers; a handleResult that   *)
(* looks the execution up first; a reader that forgets the unterminated    *)
(* last line, or sends one when there is none; a flush that ships the      *)
(* buffer without emptying it; a streamLogs whose increment is lost to     *)
(* that of another line.                                                   *)
HandleOverLimit(j) ==
    /\ main = NoJob /\ proc[j] = "new"
    /\ IF Cardinality(active) > limit
       THEN proc' = [proc EXCEPT ![j] = "refused"] /\ UNCHANGED <<main, logSeq>>
       ELSE main' = j /\ logSeq' = [logSeq EXCEPT ![cmd[j]] = 0] /\ UNCHANGED proc
    /\ UNCHANGED <<cmd, limit, active, streaming, shipping, reported, alive>>

ExecuteUnchecked(j) ==
    /\ main = j /\ proc[j] = "new"
    /\ proc' = [proc EXCEPT ![j] = "checked"]
    /\ UNCHANGED <<cmd, limit, main, active, streaming, logSeq, shipping, reported, alive>>

RefuseForgets(j) ==
    /\ main = j /\ main' = NoJob
    /\ (proc[j] = "new" /\ cmd[j] \in active) \/ proc[j] = "checked"
    /\ proc' = [proc EXCEPT ![j] = "refused"]
    /\ active' = active \ {cmd[j]}
    /\ UNCHANGED <<cmd, limit, streaming, logSeq, shipping, reported, alive>>

ExecuteUnread(j) ==
    /\ main = j /\ main' = NoJob
    /\ proc[j] = "listed"
    /\ proc' = [proc EXCEPT ![j] = "running"]
    /\ UNCHANGED <<cmd, limit, active, streaming, logSeq, shipping, reported, alive>>

HandleResultIfActive(j) ==
    /\ proc[j] \in {"forgotten", "closed"} /\ j \notin reported
    /\ cmd[j] \in active
    /\ logSeq' = [logSeq EXCEPT ![cmd[j]] = 0]
    /\ reported' = reported \cup {j}
    /\ UNCHANGED <<cmd, limit, main, proc, active, streaming, shipping, alive>>

ReadEndsForgetsRest(j, s) ==
    /\ reader[j][s].pc = "reading" /\ reader[j][s].data = <<>>
    /\ reader[j][s].got = wrote[j][s]
    /\ reader' = [reader EXCEPT ![j][s].pc = "done"]
    /\ UNCHANGED <<cmd, limit, main, proc, active, wrote, logCh, logSeq, shipping, reported, alive>>

ReadEndsAlwaysRest(j, s) ==
    LET rd == reader[j][s] IN
    /\ rd.pc = "reading" /\ rd.data = <<>>
    /\ rd.got = wrote[j][s] \/ proc[j] \notin {"running", "exited"}
    /\ reader' = [reader EXCEPT ![j][s].pc = "rest"]
    /\ lost' = lost \cup {<<j, s, n>> : n \in rd.got + 1 .. wrote[j][s]}
    /\ UNCHANGED <<cmd, limit, main, proc, active, wrote, logCh, logSeq,
                   buffer, batches, rows, reported, alive>>

FlushKeepsBuffer ==
    /\ buffer # {}
    /\ batches' = batches \cup {buffer}
    /\ UNCHANGED <<cmd, limit, main, proc, active, streaming, logSeq, buffer, rows, reported, alive, lost>>

NumberLost(j) ==
    /\ logCh[j] # <<>>
    /\ buffer' = buffer \cup {[cmd |-> cmd[j], seq |-> logSeq[cmd[j]], out |-> Head(logCh[j])]}
    /\ logCh'  = [logCh EXCEPT ![j] = Tail(@)]
    /\ logSeq' \in {logSeq, [logSeq EXCEPT ![cmd[j]] = @ + 1]}
    /\ UNCHANGED <<cmd, limit, main, proc, active, wrote, reader, batches, rows, reported, alive, lost>>
-----------------------------------------------------------------------------
(* The main loop: handleCommandEvent.                                      *)

(* The concurrency limit, and the reset of the sequence number, which is   *)
(* done before Execute finds out whether this command runs already.        *)
Handle(j) ==
    /\ main = NoJob /\ proc[j] = "new"
    /\ IF Cardinality(active) >= limit
       THEN proc' = [proc EXCEPT ![j] = "refused"] /\ UNCHANGED <<main, logSeq>>
       ELSE main' = j /\ logSeq' = [logSeq EXCEPT ![cmd[j]] = 0] /\ UNCHANGED proc
    /\ UNCHANGED <<cmd, limit, active, streaming, shipping, reported, alive>>

(* Execute holds Executor.mu twice, and starts the process under no lock:  *)
(* first it looks whether the command runs already, ...                    *)
ExecuteTest(j) ==
    /\ main = j /\ proc[j] = "new"
    /\ cmd[j] \notin active
    /\ proc' = [proc EXCEPT ![j] = "checked"]
    /\ UNCHANGED <<cmd, limit, main, active, streaming, logSeq, shipping, reported, alive>>

(* ... then it adds the command, which has no process yet, ...             *)
ExecuteInsert(j) ==
    /\ main = j /\ proc[j] = "checked"
    /\ proc'   = [proc EXCEPT ![j] = "listed"]
    /\ active' = active \cup {cmd[j]}
    /\ UNCHANGED <<cmd, limit, main, streaming, logSeq, shipping, reported, alive>>

(* ... then it starts the process and its goroutines, ...                  *)
ExecuteStart(j) ==
    /\ main = j /\ main' = NoJob
    /\ proc[j] = "listed"
    /\ proc'   = [proc EXCEPT ![j] = "running"]
    /\ reader' = [reader EXCEPT ![j] = [s \in Sources |-> [@[s] EXCEPT !.pc = "reading"]]]
    /\ UNCHANGED <<cmd, limit, active, wrote, logCh, logSeq, shipping, reported, alive>>

(* ... or takes the command off again.                                     *)
StartFails(j) ==
    /\ main = j /\ main' = NoJob
    /\ proc[j] = "listed"
    /\ proc'   = [proc EXCEPT ![j] = "refused"]
    /\ active' = active \ {cmd[j]}
    /\ UNCHANGED <<cmd, limit, streaming, logSeq, shipping, reported, alive>>

(* Execute gives up before: the command runs already, or there is no pipe. *)
Refuse(j) ==
    /\ main = j /\ main' = NoJob
    /\ (proc[j] = "new" /\ cmd[j] \in active) \/ proc[j] = "checked"
    /\ proc' = [proc EXCEPT ![j] = "refused"]
    /\ UNCHANGED <<cmd, limit, active, streaming, logSeq, shipping, reported, alive>>
-----------------------------------------------------------------------------
(* The process and the goroutine that waits for it.                        *)

(* The executor holds a process of this job; it has a key for it.          *)
Held(j)   == proc[j] \in {"running", "exited", "waited"}
Listed(j) == proc[j] \in {"listed", "running", "exited", "waited"}
HeldJobs   == {j \in Jobs : Held(j)}
ListedJobs == {j \in Jobs : Listed(j)}

(* A process whose pipe has come to its end has closed it and writes no    *)
(* more to it.                                                             *)
Write(j, s) ==
    /\ proc[j] = "running" /\ reader[j][s].pc = "reading" /\ wrote[j][s] < TextOf[j]
    /\ wrote' = [wrote EXCEPT ![j][s] = @ + 1]
    /\ UNCHANGED <<cmd, limit, main, proc, active, reader, logCh, logSeq, shipping, reported, alive>>

Advance(j, from, to) ==
    /\ proc[j] = from
    /\ proc' = [proc EXCEPT ![j] = to]
    /\ UNCHANGED <<cmd, limit, main, streaming, logSeq, shipping, reported, alive>>

(* The process exits, or is killed at the end of its timeout.              *)
Exit(j) == Advance(j, "running", "exited") /\ UNCHANGED active

(* cmd.Wait reaps the process and closes the pipes, read to the end or not.*)
Wait(j) == Advance(j, "exited", "waited") /\ UNCHANGED active

(* delete(e.active, commandID), and the result goes to resultCh.           *)
Forget(j) == Advance(j, "waited", "forgotten") /\ active' = active \ {cmd[j]}

(* The deferred close(logCh).                                              *)
CloseLog(j) == Advance(j, "forgotten", "closed") /\ UNCHANGED active

(* handleResult.                                                           *)
HandleResult(j) ==
    /\ proc[j] \in {"forgotten", "closed"} /\ j \notin reported
    /\ logSeq' = [logSeq EXCEPT ![cmd[j]] = 0]
    /\ reported' = reported \cup {j}
    /\ UNCHANGED <<cmd, limit, main, proc, active, streaming, shipping, alive>>
-----------------------------------------------------------------------------
(* streamOutput, one per pipe.                                             *)

PipeOpen(j) == proc[j] \in {"running", "exited"}
EndsLine(data) == {n \in DOMAIN data : data[n] \in Newlines}
Pieces(j, s, text) == {<<j, s, text[n]>> : n \in DOMAIN text}

(* What is left of a chunk once no complete line is in it becomes          *)
(* "incomplete".  If nothing is left, "incomplete" keeps what it held,     *)
(* although those bytes were the beginning of a line already sent.         *)
Settled(rd, data) ==
    IF EndsLine(data) # {} THEN [rd EXCEPT !.data = data]
    ELSE IF data = <<>> THEN [rd EXCEPT !.data = <<>>]
    ELSE [rd EXCEPT !.data = <<>>, !.incomplete = data]

Read(j, s) ==
    LET rd == reader[j][s] IN
    /\ rd.pc = "reading" /\ rd.data = <<>> /\ PipeOpen(j)
    /\ \E n \in rd.got + 1 .. wrote[j][s] :
          reader' = [reader EXCEPT ![j][s] =
              Settled([rd EXCEPT !.got = n],
                      rd.incomplete \o [i \in 1 .. n - rd.got |-> rd.got + i])]
    /\ UNCHANGED <<cmd, limit, main, proc, active, wrote, logCh, logSeq, shipping, reported, alive>>

(* Read answers EOF, because the process has closed its end or is no more, *)
(* or an error because Wait has closed the pipe.                           *)
ReadEnds(j, s) ==
    LET rd == reader[j][s] IN
    /\ rd.pc = "reading" /\ rd.data = <<>>
    /\ rd.got = wrote[j][s] \/ ~PipeOpen(j)
    /\ reader' = [reader EXCEPT ![j][s].pc = IF rd.incomplete = <<>> THEN "done" ELSE "rest"]
    /\ lost' = lost \cup {<<j, s, n>> : n \in rd.got + 1 .. wrote[j][s]}
    /\ UNCHANGED <<cmd, limit, main, proc, active, wrote, logCh, logSeq,
                   buffer, batches, rows, reported, alive>>

(* A send to the closed logCh panics, also from a select with a default,   *)
(* and takes the whole client down.                                        *)
Panic == alive' = FALSE /\ UNCHANGED <<cmd, limit, main, proc, active, streaming, logSeq, shipping, reported>>

(* The next complete line of the chunk, and what comes after it.           *)
FirstEnd(data)  == CHOOSE n \in EndsLine(data) : \A m \in EndsLine(data) : n <= m
NextLine(data)  == SubSeq(data, 1, FirstEnd(data))
AfterLine(data) == SubSeq(data, FirstEnd(data) + 1, Len(data))
Blank(line)     == Len(line) = 1 /\ line[1] \in Bare

HasLine(j, s) == reader[j][s].pc = "reading" /\ reader[j][s].data # <<>>

(* A blank line is passed over, ...                                        *)
SkipBlank(j, s) ==
    LET rd == reader[j][s] IN
    /\ HasLine(j, s) /\ Blank(NextLine(rd.data))
    /\ reader' = [reader EXCEPT ![j][s] = Settled(rd, AfterLine(rd.data))]
    /\ UNCHANGED <<cmd, limit, main, proc, active, wrote, logCh, logSeq, shipping, reported, alive>>

(* ... any other is sent, or dropped when the channel is full.             *)
SendLine(j, s) ==
    LET rd == reader[j][s]
        line == NextLine(rd.data)
    IN  /\ HasLine(j, s) /\ ~Blank(line)
        /\ proc[j] # "closed"
        /\ reader' = [reader EXCEPT ![j][s] = Settled(rd, AfterLine(rd.data))]
        /\ IF Len(logCh[j]) < LogCap
           THEN /\ logCh' = [logCh EXCEPT ![j] = Append(@, [job |-> j, source |-> s, text |-> line])]
                /\ UNCHANGED lost
           ELSE lost' = lost \cup Pieces(j, s, line) /\ UNCHANGED logCh
        /\ UNCHANGED <<cmd, limit, main, proc, active, wrote, logSeq, buffer, batches, rows, reported, alive>>

(* After the loop: what is incomplete is sent, waiting for room.           *)
SendRest(j, s) ==
    LET rd == reader[j][s] IN
    /\ rd.pc = "rest"
    /\ proc[j] # "closed" /\ Len(logCh[j]) < LogCap
    /\ logCh'  = [logCh EXCEPT ![j] = Append(@, [job |-> j, source |-> s, text |-> rd.incomplete])]
    /\ reader' = [reader EXCEPT ![j][s].pc = "done"]
    /\ UNCHANGED <<cmd, limit, main, proc, active, wrote, logSeq, shipping, reported, alive>>

SendPanics(j, s) ==
    /\ proc[j] = "closed"
    /\ \/ HasLine(j, s) /\ ~Blank(NextLine(reader[j][s].data))
       \/ reader[j][s].pc = "rest"
    /\ Panic
-----------------------------------------------------------------------------
(* streamLogs and the log shipper.                                         *)

(* streamLogs numbers a line and adds it to the shipper's buffer.          *)
Number(j) ==
    /\ logCh[j] # <<>>
    /\ buffer' = buffer \cup {[cmd |-> cmd[j], seq |-> logSeq[cmd[j]], out |-> Head(logCh[j])]}
    /\ logCh'  = [logCh EXCEPT ![j] = Tail(@)]
    /\ logSeq' = [logSeq EXCEPT ![cmd[j]] = @ + 1]
    /\ UNCHANGED <<cmd, limit, main, proc, active, wrote, reader, batches, rows, reported, alive, lost>>

(* A tick, or a goroutine started by a full buffer.                        *)
Flush ==
    /\ buffer # {}
    /\ batches' = batches \cup {buffer}
    /\ buffer'  = {}
    /\ UNCHANGED <<cmd, limit, main, proc, active, streaming, logSeq, rows, reported, alive, lost>>

(* POST /runners/{slug}/logs: one batch, one implicit transaction.         *)
Ship(b) ==
    /\ b \in batches
    /\ rows'    = rows \cup b
    /\ batches' = batches \ {b}
    /\ UNCHANGED <<cmd, limit, main, proc, active, streaming, logSeq, buffer, reported, alive, lost>>

(* A batch that fails is logged and dropped.                               *)
ShipFails(b) ==
    /\ b \in batches
    /\ batches' = batches \ {b}
    /\ lost' = lost \cup UNION {Pieces(e.out.job, e.out.source, e.out.text) : e \in b}
    /\ UNCHANGED <<cmd, limit, main, proc, active, streaming, logSeq, buffer, rows, reported, alive>>

MainStep(j) == \/ Handle(j) \/ ExecuteTest(j) \/ ExecuteInsert(j)
               \/ ExecuteStart(j) \/ StartFails(j) \/ Refuse(j)
WaitStep(j) == Exit(j) \/ Wait(j) \/ Forget(j) \/ CloseLog(j) \/ HandleResult(j)
PipeStep(j, s) ==
    \/ Write(j, s) \/ Read(j, s) \/ ReadEnds(j, s)
    \/ SkipBlank(j, s) \/ SendLine(j, s) \/ SendRest(j, s) \/ SendPanics(j, s)
ShipStep == (\E j \in Jobs : Number(j)) \/ Flush \/ (\E b \in batches : Ship(b) \/ ShipFails(b))

Next == /\ alive
        /\ \/ \E j \in Jobs : MainStep(j) \/ WaitStep(j) \/ \E s \in Sources : PipeStep(j, s)
           \/ ShipStep

Spec == Init /\ [][Next]_vars

(* A process ends at its timeout at the latest, and goroutines that can go *)
(* on do; nothing forces a reader or a numbering goroutine to be in time.  *)
ExecutionFairness == \A j \in Jobs : WF_vars(alive /\ WaitStep(j))

LiveSpec == Spec /\ ExecutionFairness
-----------------------------------------------------------------------------
(* Properties.                                                             *)

(* Every variable holds values of its type, and the readers of a job start *)
(* with its process.                                                       *)
TypeOK ==
    /\ cmd \in [Jobs -> Commands]
    /\ limit \in Limits
    /\ main \in Jobs \cup {NoJob}
    /\ proc \in [Jobs -> Progress]
    /\ active \subseteq Commands
    /\ wrote \in [Jobs -> [Sources -> Nat]]
    /\ reader \in [Jobs -> [Sources -> Reader]]
    /\ logCh \in [Jobs -> Seq(Output)]
    /\ logSeq \in [Commands -> Nat]
    /\ buffer \subseteq Entry /\ rows \subseteq Entry
    /\ \A b \in batches : b \subseteq Entry
    /\ reported \subseteq Jobs
    /\ alive \in BOOLEAN
    /\ lost \subseteq Jobs \X Sources \X Nat
    /\ \A j \in Jobs : \A s \in Sources :
          reader[j][s].pc = "off" <=> proc[j] \in {"new", "checked", "listed", "refused"}

(* Executor.active holds one process of a command at a time, although it   *)
(* is unlocked between the test and the insertion, and a result or a start *)
(* that fails may delete a key at any time.                                *)
OneProcessPerCommand ==
    \A j, l \in Jobs : Held(j) /\ Held(l) /\ cmd[j] = cmd[l] => j = l

(* Never more processes than the configured limit, which is tested before  *)
(* and apart from the insertion into Executor.active.                      *)
LimitKept == Cardinality(HeldJobs) <= limit

(* Why both hold: Executor.active has one key for every command listed,    *)
(* with a process or without one yet; between the two tests and the        *)
(* insertion only deletions can happen, because the one goroutine that     *)
(* inserts is the one that has tested.                                     *)
ExecutorInv ==
    /\ cmd \in [Jobs -> Commands]
    /\ proc \in [Jobs -> Progress]
    /\ limit \in Nat /\ active \subseteq Commands
    /\ IsFiniteSet(active) /\ IsFiniteSet(ListedJobs)
    /\ Cardinality(active) = Cardinality(ListedJobs)
    /\ Cardinality(active) <= limit
    /\ main \in Jobs \cup {NoJob}
    /\ main # NoJob => proc[main] \in {"new", "checked", "listed"}
    /\ \A j \in Jobs : proc[j] \in {"checked", "listed"} => main = j
    /\ main # NoJob /\ proc[main] # "listed" => Cardinality(active) < limit
    /\ \A j \in Jobs : proc[j] = "checked" => cmd[j] \notin active
    /\ \A j \in Jobs : Listed(j) => cmd[j] \in active
    /\ \A j, l \in Jobs : Listed(j) /\ Listed(l) /\ cmd[j] = cmd[l] => j = l

(* The client executes a job once at most, and keeps the promise of module *)
(* Executors, although what it tests and what it inserts are steps apart.  *)
Executor == INSTANCE Executors WITH
    Machines <- {"client"},
    held     <- [m \in {"client"} |-> HeldJobs],
    begun    <- {j \in Jobs : proc[j] \notin {"new", "checked", "listed", "refused"}},
    command  <- cmd

ActsAsExecutor == Executor!ExecutorsSpec

(* The lines in a channel, those that streamLogs has numbered, and all     *)
(* that have been sent and not dropped since.                              *)
Lines(j) == {logCh[j][i] : i \in DOMAIN logCh[j]}
Entries  == buffer \cup rows \cup UNION batches
Sent     == {e.out : e \in Entries} \cup UNION {Lines(j) : j \in Jobs}

(* A line is in one place at a time and reaches the table once, however    *)
(* the ticker and the full buffer start their flushes.                     *)
ShippedOnce ==
    /\ buffer \cap rows = {}
    /\ \A b \in batches : b \cap (buffer \cup rows) = {}
    /\ \A b, d \in batches : b # d => b \cap d = {}
    /\ \A e, f \in Entries : e.out = f.out => e = f

(* Whatever text a process has written is still in its pipe, in its reader,*)
(* on its way, or in the table, unless it fell to a full channel, a pipe   *)
(* that was closed unread or a failed shipment: wherever a read cuts it.   *)
(* (A newline with no text before it may go, with the blank line it ends.) *)
(* ("incomplete" counts only between chunks: while one is in work it may   *)
(* be stale.)                                                              *)
Unsent(rd) == IF rd.data = <<>> THEN rd.incomplete ELSE rd.data

InReader(rd, n) ==
    \/ rd.pc \in {"off", "reading"} /\ n > rd.got
    \/ rd.pc # "done" /\ \E i \in DOMAIN Unsent(rd) : Unsent(rd)[i] = n

InSent(j, s, n) == \E o \in Sent : <<j, s, n>> \in Pieces(o.job, o.source, o.text)

NoOutputVanishes ==
    alive => \A j \in Jobs : \A s \in Sources : \A n \in 1 .. wrote[j][s] \ Bare :
        <<j, s, n>> \in lost \/ InReader(reader[j][s], n) \/ InSent(j, s, n)

(* Why both hold.  A reader that is not reading has no chunk in work, one  *)
(* that has holds a line that ends in it, and the ends of its lines are    *)
(* later and later pieces; "incomplete" holds none.  So the piece a line   *)
(* ends with tells it from all others of its pipe and is the latest of     *)
(* those sent; only the remainder sent at the end has no such piece.       *)
EndOf(text) == text[Len(text)]

ReaderOK(rd) ==
    /\ rd.pc # "reading" => rd.data = <<>>
    /\ rd.pc = "rest" => rd.incomplete # <<>>
    /\ rd.data # <<>> => EndsLine(rd.data) # {}
    /\ EndsLine(rd.incomplete) = {}
    /\ \A i \in DOMAIN rd.data : rd.data[i] <= rd.got
    /\ \A i \in DOMAIN rd.incomplete : rd.incomplete[i] <= rd.got
    /\ \A i, k \in EndsLine(rd.data) : i < k => rd.data[i] < rd.data[k]

ReadersOK ==
    \A j \in Jobs : \A s \in Sources :
        /\ reader[j][s].got <= wrote[j][s]
        /\ ReaderOK(reader[j][s])

LineOK(o) ==
    LET rd == reader[o.job][o.source] IN
    /\ rd.pc # "off" /\ o.text # <<>> /\ EndOf(o.text) <= rd.got
    /\ EndOf(o.text) \in Newlines \/ rd.pc = "done"
    /\ \A i \in EndsLine(rd.data) : EndOf(o.text) < rd.data[i]

LinesOK ==
    /\ \A j \in Jobs : \A i, k \in DOMAIN logCh[j] :
          logCh[j][i].job = j /\ (logCh[j][i] = logCh[j][k] => i = k)
    /\ \A j \in Jobs : \A o \in Lines(j) : \A e \in Entries : e.out # o
    /\ \A o \in Sent : LineOK(o)

OutputInv == ReadersOK /\ LinesOK

(* A complete line comes before those of its pipe that end later, and      *)
(* before the remainder that has no newline.                               *)
Before(o, p) ==
    /\ o.job = p.job /\ o.source = p.source
    /\ EndOf(o.text) \in Newlines
    /\ EndOf(p.text) \in Newlines => EndOf(o.text) < EndOf(p.text)

(* Until its result is reported, and as long as no other dispatch of the   *)
(* same command is looked at, the lines of a command carry numbers of their*)
(* own, and those of a pipe in the order in which the lines end, so that   *)
(* ORDER BY seq shows what was written.  Either event takes logSeq back to *)
(* 0 while lines are still on their way.                                   *)
AloneSoFar(j) ==
    /\ j \notin reported
    /\ \A l \in Jobs \ {j} : cmd[l] = cmd[j] => proc[l] = "new" /\ main # l

NumberedInOrder ==
    \A e, f \in Entries :
        e # f /\ e.out.job = f.out.job /\ AloneSoFar(e.out.job) =>
            /\ e.seq # f.seq
            /\ Before(e.out, f.out) => e.seq < f.seq

(* An accepted command ends in a report, unless the client dies first.     *)
EveryRunEnds == \A j \in Jobs : proc[j] = "running" ~> j \in reported \/ ~alive

(* What client/README.md says of a command: "On completion, result (exit   *)
(* code, timestamps) is reported to server".                               *)
EveryRunReports == \A j \in Jobs : proc[j] = "running" ~> j \in reported

(* client/README.md: "Stdout/stderr are streamed line-by-line", so what is *)
(* sent as a line holds no text of two lines.                              *)
LinesUnmixed ==
    \A e \in buffer \cup rows : \A n \in 1 .. Len(e.out.text) - 1 :
        e.out.text[n + 1] = e.out.text[n] + 1 /\ e.out.text[n] \notin Newlines
=============================================================================
