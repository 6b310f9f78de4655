------------------------------ MODULE Sampling ------------------------------
(***************************************************************************)
(* The metric shipper of a runner (client/internal/shipper/metrics.go)     *)
(* beside the executions of module Execution.  The main loop marks the     *)
(* command it accepts as the active one and the goroutine that reports a   *)
(* result removes the mark (lifecycle.go); the shipper, on every tick,     *)
(* reads the mark, then asks the executor for the process, then looks at   *)
(* the process, then ships the sample: four steps under different locks.   *)
(* From the second step on it has a pid, which the operating system gives  *)
(* to another process once this one has been waited for.                   *)
(***************************************************************************)
EXTENDS Execution

CONSTANTS NoCommand,       \* activeCommand is ""
          Pids             \* process ids; GetPID answers 0 for none

ASSUME NoCommandAssumption == NoCommand \notin Commands
ASSUME PidsAssumption == Pids \subseteq Nat \ {0}

VARIABLES
    activeCommand,   \* Runner.activeCommand
    sampler,         \* where the shipper's goroutine is, and with what
    metrics,         \* the metrics table: the command named, the pid and its process
    latest,          \* history: the job the main loop accepted last
    pid              \* per job: the pid of its process, 0 before it has one

sampling == <<activeCommand, sampler, metrics, latest, pid>>
svars == <<vars, sampling>>

(* The job whose process is looked at; NoJob for a process of no job.      *)
Sampler == [pc: {"idle", "named", "found", "sampled"}, cmd: Commands \cup {NoCommand},
            pid: Pids \cup {0}, job: Jobs \cup {NoJob}]
Metric  == [cmd: Commands, pid: Pids, job: Jobs \cup {NoJob}]
Waiting == [pc |-> "idle", cmd |-> NoCommand, pid |-> 0, job |-> NoJob]

SInit == /\ Init
         /\ activeCommand = NoCommand
         /\ sampler = Waiting
         /\ metrics = {}
         /\ latest = NoJob
         /\ pid = [j \in Jobs |-> 0]

(* A process keeps its pid until it is waited for.                         *)
HasPid(j, p)   == proc[j] \in {"running", "exited"} /\ pid[j] = p
Sampled        == [cmd |-> sampler.cmd, pid |-> sampler.pid, job |-> sampler.job]
-----------------------------------------------------------------------------
(* Faulty variants, for the mutation runs: a result that removes whatever  *)
(* mark there is; a shipper that ends when a process has gone; one that    *)
(* takes any process that runs; one that files a sample under the mark of  *)
(* the moment; one that keeps a sample it has shipped.                     *)
ReleaseAny(j) ==
    /\ HandleResult(j)
    /\ activeCommand' = NoCommand
    /\ UNCHANGED <<sampler, metrics, latest, pid>>

CollectOrEnd ==
    /\ sampler.pc = "found"
    /\ \/ \E j \in Jobs : /\ HasPid(j, sampler.pid)
                          /\ sampler' = [sampler EXCEPT !.pc = "sampled", !.job = j]
       \/ ~(\E j \in Jobs : HasPid(j, sampler.pid)) /\ sampler' = [sampler EXCEPT !.cmd = NoCommand]
    /\ UNCHANGED <<vars, activeCommand, metrics, latest, pid>>

GetAnyPID ==
    /\ sampler.pc = "named"
    /\ \/ \E j \in HeldJobs : sampler' = [sampler EXCEPT !.pc = "found", !.pid = pid[j]]
       \/ HeldJobs = {} /\ sampler' = Waiting
    /\ UNCHANGED <<vars, activeCommand, metrics, latest, pid>>

ShipSampleAsMarked ==
    /\ sampler.pc = "sampled" /\ activeCommand # NoCommand
    /\ metrics' = metrics \cup {[Sampled EXCEPT !.cmd = activeCommand]}
    /\ sampler' = Waiting
    /\ UNCHANGED <<vars, activeCommand, latest, pid>>

ShipSampleKept ==
    /\ sampler.pc = "sampled"
    /\ metrics' = metrics \cup {Sampled}
    /\ sampler' = [sampler EXCEPT !.pc = "idle"]
    /\ UNCHANGED <<vars, activeCommand, latest, pid>>
-----------------------------------------------------------------------------
(* handleCommandEvent: the mark is set before Execute, also if Execute     *)
(* then refuses.                                                           *)
AcceptCommand(j) ==
    /\ Handle(j)
    /\ activeCommand' = IF main' = j THEN cmd[j] ELSE activeCommand
    /\ latest' = IF main' = j THEN j ELSE latest
    /\ UNCHANGED <<sampler, metrics, pid>>

(* handleResult: the mark goes if it names this command.                   *)
ReleaseCommand(j) ==
    /\ HandleResult(j)
    /\ activeCommand' = IF activeCommand = cmd[j] THEN NoCommand ELSE activeCommand
    /\ UNCHANGED <<sampler, metrics, latest, pid>>

(* cmd.Start: the system gives the process a pid that no other has.        *)
StartProcess(j) ==
    /\ ExecuteStart(j)
    /\ \E p \in Pids : /\ \A l \in Jobs : ~HasPid(l, p)
                       /\ pid' = [pid EXCEPT ![j] = p]
    /\ UNCHANGED <<activeCommand, sampler, metrics, latest>>

Elsewhere ==
    /\ \/ \E j \in Jobs : \/ ExecuteTest(j) \/ ExecuteInsert(j) \/ StartFails(j) \/ Refuse(j)
                          \/ Exit(j) \/ Wait(j) \/ Forget(j) \/ CloseLog(j)
                          \/ \E s \in Sources : PipeStep(j, s)
       \/ ShipStep
    /\ UNCHANGED sampling
-----------------------------------------------------------------------------
(* MetricShipper.Start, one tick.  A tick without a mark does nothing.     *)

(* getActiveCommandInfo reads the mark under Runner.mu ...                 *)
ReadActive ==
    /\ sampler.pc = "idle" /\ activeCommand # NoCommand
    /\ sampler' = [Waiting EXCEPT !.pc = "named", !.cmd = activeCommand]
    /\ UNCHANGED <<vars, activeCommand, metrics, latest, pid>>

(* ... and asks the executor for the pid under Executor.mu; a command that *)
(* is not there, or has no process yet, is not sampled on this tick.       *)
GetPID ==
    /\ sampler.pc = "named"
    /\ \/ \E j \in HeldJobs : /\ cmd[j] = sampler.cmd
                              /\ sampler' = [sampler EXCEPT !.pc = "found", !.pid = pid[j]]
       \/ (\A j \in HeldJobs : cmd[j] # sampler.cmd) /\ sampler' = Waiting
    /\ UNCHANGED <<vars, activeCommand, metrics, latest, pid>>

(* collect, under no lock: whatever process has that pid now, one of this  *)
(* client or, as soon as the pid is free, any other of the machine.        *)
Collect ==
    /\ sampler.pc = "found"
    /\ \/ \E j \in Jobs : /\ HasPid(j, sampler.pid)
                          /\ sampler' = [sampler EXCEPT !.pc = "sampled", !.job = j]
       \/ /\ \A j \in Jobs : ~HasPid(j, sampler.pid)
          /\ sampler' \in {Waiting, [sampler EXCEPT !.pc = "sampled", !.job = NoJob]}
    /\ UNCHANGED <<vars, activeCommand, metrics, latest, pid>>

(* The store inserts a batch in one implicit transaction.                  *)
BatchInsertMetrics(samples) == metrics' = metrics \cup samples

(* flush: POST /runners/{slug}/metrics.                                    *)
ShipSample ==
    /\ sampler.pc = "sampled"
    /\ BatchInsertMetrics({Sampled})
    /\ sampler' = Waiting
    /\ UNCHANGED <<vars, activeCommand, latest, pid>>

(* A sample that cannot be shipped is dropped.                             *)
ShipSampleFails ==
    /\ sampler.pc = "sampled"
    /\ sampler' = Waiting
    /\ UNCHANGED <<vars, activeCommand, metrics, latest, pid>>

Sample == ReadActive \/ GetPID \/ Collect \/ ShipSample \/ ShipSampleFails

SNext == /\ alive
         /\ \/ \E j \in Jobs : AcceptCommand(j) \/ StartProcess(j) \/ ReleaseCommand(j)
            \/ Elsewhere
            \/ Sample

(* The shipper ticks and its requests do not fail for ever; processes may  *)
(* run as long as they like.                                               *)
SSpec == SInit /\ [][SNext]_svars /\ WF_svars(alive /\ Sample) /\ SF_svars(alive /\ ShipSample)
-----------------------------------------------------------------------------
(* Properties.                                                             *)

(* The variables have their types: between its steps the shipper holds a   *)
(* command from the first one on and a pid from the second one on, and     *)
(* nothing of an earlier tick; a job has a pid exactly if it has had a     *)
(* process.                                                                *)
SamplerOK ==
    /\ activeCommand \in Commands \cup {NoCommand}
    /\ sampler \in Sampler
    /\ sampler.pc = "idle" => sampler = Waiting
    /\ sampler.pc # "idle" => sampler.cmd \in Commands
    /\ sampler.pc \in {"found", "sampled"} => sampler.pid \in Pids
    /\ metrics \subseteq Metric
    /\ latest \in Jobs \cup {NoJob}
    /\ pid \in [Jobs -> Pids \cup {0}]
    /\ \A j \in Jobs : pid[j] = 0 <=> proc[j] \in {"new", "checked", "listed", "refused"}

(* A sample is of a process of the command it is filed under, although the *)
(* mark may have moved on, and processes may have come and gone, between   *)
(* the steps of the shipper - unless the process was waited for between    *)
(* GetPID and the look at its pid, which may be another's by then.         *)
Reaped(j) == proc[j] \in {"waited", "forgotten", "closed"}

OwnSample(m) ==
    \/ m.job \in Jobs /\ cmd[m.job] = m.cmd
    \/ \E j \in Jobs : Reaped(j) /\ cmd[j] = m.cmd /\ pid[j] = m.pid

SamplesAreOwn == \A m \in metrics : OwnSample(m)

(* Why: a pid is of one process at a time, and the shipper's pid is, or    *)
(* was, that of a process of its command.                                  *)
SamplesInv ==
    /\ SamplesAreOwn
    /\ \A j, l \in Jobs : HasPid(j, pid[l]) /\ HasPid(l, pid[l]) => j = l
    /\ sampler.pc \in {"found", "sampled"} =>
          \E j \in Jobs : cmd[j] = sampler.cmd /\ pid[j] = sampler.pid
    /\ sampler.pc = "sampled" => OwnSample(Sampled)

(* The command accepted last keeps its mark as long as it is executed,     *)
(* whatever becomes of the others, unless an earlier execution of the same *)
(* command reports its result meanwhile.  The earlier commands have lost   *)
(* it to the last one and are not sampled any more.                        *)
LatestIsMarked ==
    /\ activeCommand # NoCommand => latest # NoJob /\ activeCommand = cmd[latest]
    /\ latest # NoJob /\ (main = latest \/ Held(latest)) =>
          \/ activeCommand = cmd[latest]
          \/ \E j \in reported : j # latest /\ cmd[j] = cmd[latest]

(* A command that stays marked and running is sampled in the end, whatever *)
(* other processes end under the shipper's hands.                          *)
MarkedIsSampled ==
    \A j \in Jobs :
        proc[j] = "running" /\ activeCommand = cmd[j]
            ~> \/ \E m \in metrics : m.job = j
               \/ proc[j] # "running" \/ activeCommand # cmd[j] \/ ~alive
=============================================================================
