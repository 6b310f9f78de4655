--------------------------- MODULE SamplingProofs ---------------------------
(***************************************************************************)
(* Proofs about the metric shipper, for every set of dispatch events and   *)
(* commands and every limit.  The executor's invariant is taken over from  *)
(* ExecutionProofs: the shipper adds nothing to the steps of Execution, so *)
(* that what is proved of processes and output holds beside it.            *)
(***************************************************************************)
EXTENDS Sampling, OutputProofs

(* The shipper's part of the state space.                                  *)
SInv == SamplerOK /\ SamplesInv

(* Every step is one of Execution or leaves its variables alone.           *)
LEMMA StepsOfExecution == [SNext]_svars => [Next]_vars
<1> SUFFICES ASSUME [SNext]_svars PROVE [Next]_vars
  OBVIOUS
<1>1. CASE alive /\ \E j \in Jobs : AcceptCommand(j) \/ StartProcess(j) \/ ReleaseCommand(j)
  BY <1>1 DEF AcceptCommand, StartProcess, ReleaseCommand, Next, MainStep, WaitStep
<1>2. CASE alive /\ Elsewhere
  BY <1>2 DEF Elsewhere, Next, MainStep, WaitStep
<1>3. CASE Sample \/ UNCHANGED svars
  BY <1>3 DEF Sample, svars, ReadActive, GetPID, Collect, ShipSample, BatchInsertMetrics, ShipSampleFails
<1> QED
  BY <1>1, <1>2, <1>3 DEF SNext

LEMMA SamplerStarts == SInit => SInv /\ LatestIsMarked
<1> SUFFICES ASSUME SInit PROVE SInv /\ LatestIsMarked
  OBVIOUS
<1>1. SamplerOK
  BY DEF SInit, Init, SamplerOK, Sampler, Waiting
<1>2. SamplesInv /\ LatestIsMarked
  BY DEF SInit, Init, SamplesInv, SamplesAreOwn, HasPid, LatestIsMarked, Waiting
<1> QED
  BY <1>1, <1>2 DEF SInv

LEMMA CommandsStay == [Next]_vars => UNCHANGED cmd
<1> SUFFICES ASSUME [Next]_vars PROVE UNCHANGED cmd
  OBVIOUS
<1>1. ASSUME NEW j \in Jobs, MainStep(j) PROVE UNCHANGED cmd
  BY <1>1, MainMoves
<1>2. ASSUME NEW j \in Jobs, WaitStep(j) PROVE UNCHANGED cmd
  BY <1>2 DEF WaitStep, Exit, Wait, Forget, CloseLog, Advance, HandleResult
<1>3. ASSUME NEW j \in Jobs, NEW s \in Sources, PipeStep(j, s) PROVE UNCHANGED cmd
  BY <1>3 DEF PipeStep, Write, Read, ReadEnds, SkipBlank, SendLine, SendRest, SendPanics, Panic
<1>4. CASE ShipStep
  BY <1>4 DEF ShipStep, Number, Flush, Ship, ShipFails
<1>5. CASE UNCHANGED vars
  BY <1>5 DEF vars
<1> QED
  BY <1>1, <1>2, <1>3, <1>4, <1>5 DEF Next

(* A process comes only by a start; otherwise it stays what it is or goes. *)
OnlyGoes(l) ==
    /\ proc[l] \in Unbegun <=> proc'[l] \in Unbegun
    /\ proc'[l] \in {"running", "exited"} => proc[l] \in {"running", "exited"}
    /\ Reaped(l) => proc'[l] \in {"waited", "forgotten", "closed"}

LEMMA ProcessesGo ==
    ASSUME ExecutorInv, [Next]_vars, NEW l \in Jobs, ~ExecuteStart(l)
    PROVE  OnlyGoes(l)
<1>0. proc \in [Jobs -> Progress]
  BY DEF ExecutorInv
<1>1. CASE UNCHANGED proc
  BY <1>1 DEF OnlyGoes, Reaped
<1>2. ASSUME NEW j \in Jobs, NEW p \in Unbegun, proc[j] \in Unbegun, proc' = [proc EXCEPT ![j] = p]
      PROVE  OnlyGoes(l)
  BY <1>0, <1>2 DEF OnlyGoes, Reaped, Unbegun
<1>3. ASSUME NEW j \in Jobs, MainStep(j) PROVE OnlyGoes(l)
  <2>1. CASE Handle(j)
    <3>1. proc' = proc \/ (proc[j] \in Unbegun /\ proc' = [proc EXCEPT ![j] = "refused"])
      BY <2>1 DEF Handle, Unbegun
    <3> QED
      BY <1>1, <1>2, <3>1 DEF Unbegun
  <2>2. CASE ExecuteTest(j) \/ ExecuteInsert(j) \/ StartFails(j) \/ Refuse(j)
    <3>1. /\ proc[j] \in Unbegun
          /\ \E p \in Unbegun : proc' = [proc EXCEPT ![j] = p]
      BY <2>2 DEF ExecuteTest, ExecuteInsert, StartFails, Refuse, Unbegun
    <3> QED
      BY <1>2, <3>1
  <2>3. CASE ExecuteStart(j)
    <3>1. l # j /\ proc' = [proc EXCEPT ![j] = "running"]
      BY <2>3 DEF ExecuteStart
    <3> QED
      BY <1>0, <3>1 DEF OnlyGoes, Reaped
  <2> QED
    BY <1>3, <2>1, <2>2, <2>3 DEF MainStep
<1>4. ASSUME NEW j \in Jobs, WaitStep(j) PROVE OnlyGoes(l)
  <2>1. CASE Exit(j) \/ Wait(j)
    BY <1>0, <2>1 DEF Exit, Wait, Advance, OnlyGoes, Reaped, Unbegun
  <2>2. CASE Forget(j) \/ CloseLog(j)
    BY <1>0, <2>2 DEF Forget, CloseLog, Advance, OnlyGoes, Reaped, Unbegun
  <2>3. CASE HandleResult(j)
    BY <1>1, <2>3 DEF HandleResult
  <2> QED
    BY <1>4, <2>1, <2>2, <2>3 DEF WaitStep
<1>5. ASSUME NEW j \in Jobs, NEW s \in Sources, PipeStep(j, s) PROVE UNCHANGED proc
  BY <1>5 DEF PipeStep, Write, Read, ReadEnds, SkipBlank, SendLine, SendRest, SendPanics, Panic
<1>6. CASE ShipStep
  BY <1>1, <1>6 DEF ShipStep, Number, Flush, Ship, ShipFails
<1>7. CASE UNCHANGED vars
  BY <1>1, <1>7 DEF vars
<1> QED
  BY <1>1, <1>3, <1>4, <1>5, <1>6, <1>7 DEF Next

(* The steps of the client other than the shipper's and the starts.        *)
LEMMA ClientKeepsSampler ==
    ASSUME SInv, UNCHANGED <<cmd, sampler, metrics, pid>>, \A l \in Jobs : OnlyGoes(l),
           activeCommand' \in Commands \cup {NoCommand}, latest' \in Jobs \cup {NoJob}
    PROVE  SInv'
<1>1. SamplerOK'
  BY DEF SInv, SamplerOK, Waiting, OnlyGoes, Unbegun
<1>2. \A l \in Jobs : Reaped(l) => Reaped(l)'
  BY DEF OnlyGoes, Reaped
<1>3. ASSUME NEW m, OwnSample(m) PROVE OwnSample(m)'
  BY <1>2, <1>3 DEF OwnSample
<1>4. \A j \in Jobs : \A p : HasPid(j, p)' => HasPid(j, p)
  BY DEF HasPid, OnlyGoes
<1>5. \A j, l \in Jobs : HasPid(j, pid[l])' /\ HasPid(l, pid[l])' => j = l
  <2>1. \A j, l \in Jobs : HasPid(j, pid[l])' => HasPid(j, pid[l])
    BY DEF HasPid, OnlyGoes
  <2> QED
    BY <2>1 DEF SInv, SamplesInv
<1>6. Sampled' = Sampled
  BY DEF Sampled
<1>7. SamplesAreOwn' /\ (sampler.pc = "sampled" => OwnSample(Sampled)')
  BY <1>3, <1>6 DEF SInv, SamplesInv, SamplesAreOwn
<1> QED
  BY <1>1, <1>5, <1>7 DEF SInv, SamplesInv

(* The pid of a process that starts is no other's, and the shipper's is of *)
(* a process that has started before.                                      *)
LEMMA StartKeepsSampler ==
    ASSUME SInv, ExecutorInv, NEW j \in Jobs, StartProcess(j)
    PROVE  SInv'
<1>1. /\ proc[j] = "listed" /\ proc' = [proc EXCEPT ![j] = "running"]
      /\ UNCHANGED <<cmd, activeCommand, sampler, metrics, latest>>
  BY DEF StartProcess, ExecuteStart
<1>2. PICK p \in Pids : (\A l \in Jobs : ~HasPid(l, p)) /\ pid' = [pid EXCEPT ![j] = p]
  BY DEF StartProcess
<1>3. /\ pid \in [Jobs -> Pids \cup {0}] /\ proc \in [Jobs -> Progress] /\ p # 0 /\ pid[j] = 0
  BY <1>1, PidsAssumption DEF SInv, SamplerOK, ExecutorInv
<1>4. \A l \in Jobs \ {j} : pid'[l] = pid[l] /\ proc'[l] = proc[l]
  BY <1>1, <1>2, <1>3
<1>5. pid'[j] = p /\ proc'[j] = "running"
  BY <1>1, <1>2, <1>3
<1>6. SamplerOK'
  BY <1>1, <1>2, <1>3, <1>4, <1>5 DEF SInv, SamplerOK, Waiting
<1>7. ASSUME NEW l \in Jobs, Reaped(l) PROVE Reaped(l)' /\ pid'[l] = pid[l]
  BY <1>1, <1>4, <1>7 DEF Reaped
<1>8. ASSUME NEW m, OwnSample(m) PROVE OwnSample(m)'
  BY <1>1, <1>7, <1>8 DEF OwnSample
<1>9. SamplesAreOwn' /\ (sampler.pc = "sampled" => OwnSample(Sampled)')
  BY <1>1, <1>8 DEF SInv, SamplesInv, SamplesAreOwn, Sampled
<1>10. ASSUME NEW i \in Jobs, NEW l \in Jobs, HasPid(i, pid[l])', HasPid(l, pid[l])'
       PROVE  i = l
  <2>1. CASE i = j \/ l = j
    BY <1>2, <1>4, <1>5, <1>10, <2>1 DEF HasPid
  <2>2. CASE i # j /\ l # j
    BY <1>4, <1>10, <2>2 DEF HasPid, SInv, SamplesInv
  <2> QED
    BY <2>1, <2>2
<1>11. ASSUME sampler.pc \in {"found", "sampled"}
       PROVE  \E l \in Jobs : cmd[l] = sampler.cmd /\ pid'[l] = sampler.pid
  <2>1. sampler.pid # 0
    BY <1>11, PidsAssumption DEF SInv, SamplerOK
  <2>2. PICK l \in Jobs : cmd[l] = sampler.cmd /\ pid[l] = sampler.pid
    BY <1>11 DEF SInv, SamplesInv
  <2> QED
    BY <1>3, <1>4, <2>1, <2>2
<1> QED
  BY <1>1, <1>6, <1>9, <1>10, <1>11 DEF SInv, SamplesInv

(* The shipper's own steps.                                                *)
LEMMA SampleKeepsSampler ==
    ASSUME SInv, ExecutorInv, Sample
    PROVE  SInv'
<1>0. /\ UNCHANGED <<cmd, proc, activeCommand, latest, pid>>
      /\ \A m : OwnSample(m)' <=> OwnSample(m)
  <2>1. UNCHANGED <<cmd, proc, activeCommand, latest, pid>>
    BY DEF Sample, ReadActive, GetPID, Collect, ShipSample, BatchInsertMetrics, ShipSampleFails, vars
  <2> QED
    BY <2>1 DEF OwnSample, Reaped
<1>1. \A i, l \in Jobs : HasPid(i, pid[l])' /\ HasPid(l, pid[l])' => i = l
  BY <1>0 DEF SInv, SamplesInv, HasPid
<1>2. ASSUME sampler' = Waiting, UNCHANGED metrics PROVE SInv'
  <2>1. SamplerOK'
    BY <1>0, <1>2 DEF SInv, SamplerOK, Sampler, Waiting
  <2>2. SamplesAreOwn' /\ sampler'.pc = "idle"
    BY <1>0, <1>2 DEF SInv, SamplesInv, SamplesAreOwn, Waiting
  <2> QED
    BY <1>1, <2>1, <2>2 DEF SInv, SamplesInv
<1>3. CASE ReadActive
  <2>1. /\ sampler' = [Waiting EXCEPT !.pc = "named", !.cmd = activeCommand]
        /\ activeCommand \in Commands /\ UNCHANGED metrics
    BY <1>3 DEF ReadActive, SInv, SamplerOK
  <2>2. sampler' = [pc |-> "named", cmd |-> activeCommand, pid |-> 0, job |-> NoJob]
    BY <2>1 DEF Waiting
  <2>3. SamplerOK'
    BY <1>0, <2>1, <2>2 DEF SInv, SamplerOK, Sampler
  <2>4. SamplesAreOwn'
    BY <1>0, <2>1 DEF SInv, SamplesInv, SamplesAreOwn
  <2> QED
    BY <1>1, <2>2, <2>3, <2>4 DEF SInv, SamplesInv
<1>4. CASE GetPID
  <2>1. ASSUME NEW j \in HeldJobs, cmd[j] = sampler.cmd, sampler.pc = "named", UNCHANGED metrics,
               sampler' = [sampler EXCEPT !.pc = "found", !.pid = pid[j]]
        PROVE  SInv'
    <3>1. j \in Jobs /\ pid[j] \in Pids
      BY <2>1 DEF HeldJobs, Held, SInv, SamplerOK
    <3>2. /\ sampler' \in Sampler /\ sampler'.pc = "found" /\ sampler'.pid = pid[j]
          /\ sampler'.cmd = sampler.cmd
      BY <2>1, <3>1 DEF SInv, SamplerOK, Sampler
    <3>3. SamplerOK'
      BY <1>0, <2>1, <3>1, <3>2 DEF SInv, SamplerOK
    <3>4. SamplesAreOwn'
      BY <1>0, <2>1 DEF SInv, SamplesInv, SamplesAreOwn
    <3>5. \E l \in Jobs : cmd'[l] = sampler'.cmd /\ pid'[l] = sampler'.pid
      BY <1>0, <2>1, <3>1, <3>2
    <3> QED
      BY <1>1, <3>2, <3>3, <3>4, <3>5 DEF SInv, SamplesInv
  <2> QED
    BY <1>2, <1>4, <2>1 DEF GetPID
<1>5. CASE Collect
  <2>0. /\ sampler \in Sampler /\ sampler.pc = "found" /\ UNCHANGED metrics
        /\ sampler.cmd \in Commands /\ sampler.pid \in Pids
    BY <1>5 DEF Collect, SInv, SamplerOK
  <2>1. PICK l \in Jobs : cmd[l] = sampler.cmd /\ pid[l] = sampler.pid
    BY <2>0 DEF SInv, SamplesInv
  <2>2. HasPid(l, sampler.pid) \/ Reaped(l)
    <3>1. pid[l] # 0
      BY <2>0, <2>1, PidsAssumption
    <3>2. proc[l] \in Progress /\ proc[l] \notin {"new", "checked", "listed", "refused"}
      BY <3>1 DEF SInv, SamplerOK, ExecutorInv
    <3> QED
      BY <2>1, <3>2 DEF Progress, HasPid, Reaped
  <2>3. ASSUME NEW j \in Jobs \cup {NoJob},
               sampler' = [sampler EXCEPT !.pc = "sampled", !.job = j],
               (j \in Jobs /\ cmd[j] = sampler.cmd) \/ Reaped(l)
        PROVE  SInv'
    <3>1. /\ sampler' \in Sampler /\ sampler'.pc = "sampled" /\ sampler'.job = j
          /\ sampler'.cmd = sampler.cmd /\ sampler'.pid = sampler.pid
      BY <2>0, <2>3 DEF Sampler
    <3>2. SamplerOK'
      BY <1>0, <2>0, <3>1 DEF SInv, SamplerOK
    <3>3. SamplesAreOwn'
      BY <1>0, <2>0 DEF SInv, SamplesInv, SamplesAreOwn
    <3>4. Sampled' = [cmd |-> sampler.cmd, pid |-> sampler.pid, job |-> j]
      BY <3>1 DEF Sampled
    <3>5. OwnSample([cmd |-> sampler.cmd, pid |-> sampler.pid, job |-> j])
      BY <2>1, <2>3 DEF OwnSample
    <3>6. OwnSample(Sampled)'
      <4>1. OwnSample(Sampled') <=> OwnSample(Sampled)'
        BY <1>0 DEF OwnSample, Reaped
      <4> QED
        BY <3>4, <3>5, <4>1
    <3> QED
      BY <1>0, <1>1, <2>1, <3>1, <3>2, <3>3, <3>6 DEF SInv, SamplesInv
  <2>4. ASSUME NEW j \in Jobs, HasPid(j, sampler.pid) PROVE cmd[j] = sampler.cmd \/ Reaped(l)
    <3>1. HasPid(l, sampler.pid) => j = l
      BY <2>1, <2>4 DEF SInv, SamplesInv
    <3> QED
      BY <2>1, <2>2, <3>1
  <2> QED
    BY <1>2, <1>5, <2>0, <2>2, <2>3, <2>4 DEF Collect
<1>6. CASE ShipSample
  <2>1. metrics' = metrics \cup {Sampled} /\ sampler' = Waiting /\ sampler.pc = "sampled"
    BY <1>6 DEF ShipSample, BatchInsertMetrics
  <2>2. Sampled \in Metric
    BY <2>1 DEF SInv, SamplerOK, Sampled, Sampler, Metric
  <2>3. SamplerOK'
    BY <1>0, <2>1, <2>2 DEF SInv, SamplerOK, Sampler, Waiting
  <2>4. \A m \in metrics' : OwnSample(m)'
    BY <1>0, <2>1 DEF SInv, SamplesInv, SamplesAreOwn
  <2> QED
    BY <1>1, <2>1, <2>3, <2>4 DEF SInv, SamplesInv, SamplesAreOwn, Waiting
<1>7. CASE ShipSampleFails
  BY <1>2, <1>7 DEF ShipSampleFails
<1> QED
  BY <1>3, <1>4, <1>5, <1>6, <1>7 DEF Sample

LEMMA SamplerKept == SInv /\ ExecutorInv /\ [SNext]_svars => SInv'
<1> SUFFICES ASSUME SInv, ExecutorInv, [SNext]_svars
             PROVE  SInv'
  OBVIOUS
<1>0. UNCHANGED cmd /\ [Next]_vars
  BY StepsOfExecution, CommandsStay
<1>1. ASSUME NEW j \in Jobs, AcceptCommand(j)
      PROVE  SInv'
  <2>1. \A l \in Jobs : ~ExecuteStart(l)
    BY <1>1, JobAssumption DEF AcceptCommand, Handle, ExecuteStart
  <2>2. /\ activeCommand' \in Commands \cup {NoCommand} /\ latest' \in Jobs \cup {NoJob}
        /\ UNCHANGED <<sampler, metrics, pid>>
    BY <1>1 DEF AcceptCommand, SInv, SamplerOK, ExecutorInv
  <2> QED
    BY <1>0, <2>1, <2>2, ProcessesGo, ClientKeepsSampler
<1>2. ASSUME NEW j \in Jobs, ReleaseCommand(j)
      PROVE  SInv'
  <2>1. \A l \in Jobs : ~ExecuteStart(l)
    BY <1>2, JobAssumption DEF ReleaseCommand, HandleResult, ExecuteStart
  <2> QED
    BY <1>0, <1>2, <2>1, ProcessesGo, ClientKeepsSampler DEF ReleaseCommand, SInv, SamplerOK
<1>3. CASE Elsewhere
  <2>1. \A l \in Jobs : ~ExecuteStart(l)
    <3>1. ASSUME UNCHANGED main PROVE \A l \in Jobs : ~ExecuteStart(l)
      BY <3>1, JobAssumption DEF ExecuteStart
    <3>2. ASSUME NEW j \in Jobs, main = j, proc' = [proc EXCEPT ![j] = "refused"]
          PROVE  \A l \in Jobs : ~ExecuteStart(l)
      BY <3>2 DEF ExecuteStart, ExecutorInv
    <3>3. ASSUME NEW j \in Jobs, ExecuteTest(j) \/ ExecuteInsert(j) PROVE UNCHANGED main
      BY <3>3 DEF ExecuteTest, ExecuteInsert
    <3>4. ASSUME NEW j \in Jobs, StartFails(j) \/ Refuse(j)
          PROVE  main = j /\ proc' = [proc EXCEPT ![j] = "refused"]
      BY <3>4 DEF StartFails, Refuse
    <3>5. ASSUME NEW j \in Jobs, Exit(j) \/ Wait(j) \/ Forget(j) \/ CloseLog(j) PROVE UNCHANGED main
      BY <3>5 DEF Exit, Wait, Forget, CloseLog, Advance
    <3>6. ASSUME NEW j \in Jobs, NEW s \in Sources, PipeStep(j, s) PROVE UNCHANGED main
      BY <3>6 DEF PipeStep, Write, Read, ReadEnds, SkipBlank, SendLine, SendRest, SendPanics, Panic
    <3>7. ShipStep => UNCHANGED main
      BY DEF ShipStep, Number, Flush, Ship, ShipFails
    <3> QED
      BY <1>3, <3>1, <3>2, <3>3, <3>4, <3>5, <3>6, <3>7 DEF Elsewhere
  <2> QED
    BY <1>0, <1>3, <2>1, ProcessesGo, ClientKeepsSampler DEF Elsewhere, sampling, SInv, SamplerOK
<1>4. ASSUME NEW j \in Jobs, StartProcess(j)
      PROVE  SInv'
  BY <1>4, StartKeepsSampler
<1>5. CASE Sample
  BY <1>5, SampleKeepsSampler
<1>6. CASE UNCHANGED svars
  <2>1. \A l \in Jobs : OnlyGoes(l)
    BY <1>6 DEF svars, vars, OnlyGoes, Reaped
  <2> QED
    BY <1>6, <2>1, ClientKeepsSampler DEF svars, sampling, vars, SInv, SamplerOK
<1> QED
  BY <1>1, <1>2, <1>3, <1>4, <1>5, <1>6 DEF SNext

(* The mark is only taken from the command accepted last by a result of    *)
(* its own, which comes when it is not executed any more, or of a twin.    *)
LEMMA MarkKept ==
    SInv /\ ExecutorInv /\ LatestIsMarked /\ [SNext]_svars => LatestIsMarked'
<1> SUFFICES ASSUME SInv, ExecutorInv, LatestIsMarked, [SNext]_svars
             PROVE  LatestIsMarked'
  OBVIOUS
<1>0. UNCHANGED cmd
  BY StepsOfExecution, CommandsStay
<1>1. ASSUME NEW j \in Jobs, AcceptCommand(j)
      PROVE  LatestIsMarked'
  <2>1. CASE main' = j
    BY <1>0, <1>1, <2>1, JobAssumption DEF AcceptCommand, LatestIsMarked
  <2>2. CASE main' # j
    <3>1. /\ proc' = [proc EXCEPT ![j] = "refused"] /\ main' = main
          /\ UNCHANGED <<activeCommand, latest, reported>>
      BY <1>1, <2>2 DEF AcceptCommand, Handle
    <3>2. \A l \in Jobs : Held(l)' => Held(l)
      BY <3>1 DEF Held, ExecutorInv
    <3> QED
      BY <1>0, <3>1, <3>2 DEF LatestIsMarked, SInv, SamplerOK
  <2> QED
    BY <2>1, <2>2
<1>2. ASSUME NEW j \in Jobs, ReleaseCommand(j)
      PROVE  LatestIsMarked'
  <2>1. /\ reported' = reported \cup {j} /\ UNCHANGED <<main, proc, latest>>
        /\ proc[j] \in {"forgotten", "closed"}
        /\ activeCommand' = IF activeCommand = cmd[j] THEN NoCommand ELSE activeCommand
    BY <1>2 DEF ReleaseCommand, HandleResult
  <2>2. main # j /\ ~Held(j)
    BY <2>1, JobAssumption DEF ExecutorInv, Held
  <2>3. CASE activeCommand = cmd[j]
    BY <1>0, <2>1, <2>2, <2>3, NoCommandAssumption DEF LatestIsMarked, Held
  <2>4. CASE activeCommand # cmd[j]
    BY <1>0, <2>1, <2>4 DEF LatestIsMarked, Held
  <2> QED
    BY <2>3, <2>4
<1>3. ASSUME NEW j \in Jobs, StartProcess(j)
      PROVE  LatestIsMarked'
  <2>1. /\ main = j /\ main' = NoJob /\ proc' = [proc EXCEPT ![j] = "running"]
        /\ UNCHANGED <<reported, latest, activeCommand>>
    BY <1>3 DEF StartProcess, ExecuteStart
  <2>2. \A l \in Jobs : Held(l)' => Held(l) \/ l = main
    BY <2>1 DEF Held, ExecutorInv
  <2> QED
    BY <1>0, <2>1, <2>2 DEF LatestIsMarked, SInv, SamplerOK
<1>4. ASSUME UNCHANGED <<activeCommand, latest, reported>>,
             main' = main \/ main' = NoJob,
             \A l \in Jobs : Held(l)' => Held(l)
      PROVE  LatestIsMarked'
  BY <1>0, <1>4 DEF LatestIsMarked, SInv, SamplerOK
<1>5. ASSUME NEW j \in Jobs, ExecuteTest(j) \/ ExecuteInsert(j) \/ StartFails(j) \/ Refuse(j),
             UNCHANGED sampling
      PROVE  LatestIsMarked'
  <2>1. /\ main' = main \/ main' = NoJob
        /\ UNCHANGED <<activeCommand, latest, reported>>
        /\ \E p \in {"checked", "listed", "refused"} : proc' = [proc EXCEPT ![j] = p]
    BY <1>5 DEF ExecuteTest, ExecuteInsert, StartFails, Refuse, sampling
  <2>2. \A l \in Jobs : Held(l)' => Held(l)
    BY <2>1 DEF Held, ExecutorInv
  <2> QED
    BY <1>4, <2>1, <2>2
<1>6. ASSUME NEW j \in Jobs, Exit(j) \/ Wait(j) \/ Forget(j) \/ CloseLog(j), UNCHANGED sampling
      PROVE  LatestIsMarked'
  <2>1. \A l \in Jobs : Held(l)' => Held(l)
    BY <1>6 DEF Exit, Wait, Forget, CloseLog, Advance, Held, ExecutorInv
  <2> QED
    BY <1>4, <1>6, <2>1 DEF Exit, Wait, Forget, CloseLog, Advance, sampling
<1>7. ASSUME UNCHANGED <<activeCommand, latest, reported, main, proc>>
      PROVE  LatestIsMarked'
  BY <1>4, <1>7 DEF Held
<1>8. CASE \E j \in Jobs, s \in Sources : PipeStep(j, s) /\ UNCHANGED sampling
  BY <1>7, <1>8 DEF PipeStep, Write, Read, ReadEnds, SkipBlank, SendLine, SendRest, SendPanics, Panic, sampling
<1>9. CASE ShipStep /\ UNCHANGED sampling
  BY <1>7, <1>9 DEF ShipStep, Number, Flush, Ship, ShipFails, sampling
<1>10. CASE Sample \/ UNCHANGED svars
  <2>1. UNCHANGED <<activeCommand, latest, vars>>
    BY <1>10 DEF Sample, ReadActive, GetPID, Collect, ShipSample, BatchInsertMetrics, ShipSampleFails, svars, sampling
  <2> QED
    BY <1>7, <2>1 DEF vars
<1> QED
  BY <1>1, <1>2, <1>3, <1>5, <1>6, <1>8, <1>9, <1>10 DEF SNext, Elsewhere
-----------------------------------------------------------------------------
(* The client with its metric shipper is still the client of Execution.    *)
THEOREM SamplingIsExecution == SSpec => Spec
<1>1. SInit => Init
  BY DEF SInit
<1> QED
  BY <1>1, StepsOfExecution, PTL DEF SSpec, Spec

(* What Execution promises of processes and of their output, it promises   *)
(* while the shipper reads and writes between its steps.                   *)
THEOREM SamplingKeepsPromises ==
    SSpec => /\ [](OneProcessPerCommand /\ LimitKept /\ ShippedOnce /\ NoOutputVanishes)
             /\ []NumberedInOrder /\ ActsAsExecutor
<1>1. Spec => [](OneProcessPerCommand /\ LimitKept)
  BY NeverTwiceAtOnce, KeepsLimit, PTL
<1>2. Spec => [](ShippedOnce /\ NoOutputVanishes)
  BY NeverShippedTwice, OutputIsAccountedFor, PTL
<1> QED
  BY <1>1, <1>2, SamplingIsExecution, LinesNumberedInOrder, ImplementsExecutor, PTL

LEMMA SamplerInvariance == SSpec => []SInv
<1>1. SInit => SInv
  BY SamplerStarts
<1> QED
  BY <1>1, SamplerKept, SamplingIsExecution, ExecutorInvariance, PTL DEF SSpec

(* The shipper's variables keep their types.                               *)
THEOREM SamplerTypes == SSpec => []SamplerOK
<1>1. SInv => SamplerOK
  BY DEF SInv
<1> QED
  BY <1>1, SamplerInvariance, PTL

(* A sample filed under a command is of a process of that command, or has  *)
(* the pid of one that was waited for before the shipper looked at it: pids*)
(* are used again, but never by two processes at a time.                   *)
THEOREM SamplesHaveTheirCommand == SSpec => [](SamplesInv /\ SamplesAreOwn)
<1>1. SInv => SamplesInv /\ SamplesAreOwn
  BY DEF SInv, SamplesInv
<1> QED
  BY <1>1, SamplerInvariance, PTL

(* The command accepted last is the marked one while it is executed, unless*)
(* another execution of the same command has reported.                     *)
THEOREM LatestKeepsMark == SSpec => []LatestIsMarked
<1>1. SInit => LatestIsMarked
  BY SamplerStarts
<1> QED
  BY <1>1, SamplerInvariance, SamplingIsExecution, ExecutorInvariance, MarkKept, PTL DEF SSpec
=============================================================================
