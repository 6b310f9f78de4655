-------------------------- MODULE ExecutionProofs --------------------------
(***************************************************************************)
(* Proofs about the executor and its main loop, for every set of dispatch  *)
(* events, commands and pipes, every output, and every limit.              *)
(***************************************************************************)
EXTENDS Execution, FiniteSetTheorems, TLAPS

(* What the executor invariant speaks of.                                  *)
executor == <<cmd, limit, main, proc, active>>

(* A job that is neither listed nor taken off leaves the listed jobs alone.*)
LEMMA ListedKept ==
    ASSUME proc \in [Jobs -> Progress], NEW j \in Jobs, NEW p,
           proc' = [proc EXCEPT ![j] = p],
           Listed(j) <=> p \in {"listed", "running", "exited", "waited"}
    PROVE  /\ \A l \in Jobs : Listed(l)' <=> Listed(l)
           /\ ListedJobs' = ListedJobs
  BY DEF Listed, ListedJobs

(* The initial state.                                                      *)
LEMMA ExecutorInit == Init => ExecutorInv
<1> SUFFICES ASSUME Init PROVE ExecutorInv
  OBVIOUS
<1>1. \A j \in Jobs : ~Listed(j)
  BY DEF Init, Listed
<1>2. ListedJobs = {}
  BY <1>1 DEF ListedJobs
<1>3. IsFiniteSet({}) /\ Cardinality({}) = 0
  BY FS_EmptySet
<1> QED
  BY <1>1, <1>2, <1>3, LimitAssumption DEF Init, ExecutorInv, Progress

(* Steps that do not concern the executor.                                 *)
LEMMA ExecutorStutter == ExecutorInv /\ UNCHANGED executor => ExecutorInv'
  BY DEF ExecutorInv, executor, Listed, ListedJobs

(* The limit is tested, and the main loop takes the job to Execute.        *)
LEMMA HandleKeeps ==
    ASSUME ExecutorInv, NEW j \in Jobs, Handle(j)
    PROVE  ExecutorInv'
<1>0. Cardinality(active) \in Nat
  BY FS_CardinalityType DEF ExecutorInv
<1>1. CASE Cardinality(active) >= limit
  <2>1. /\ proc' = [proc EXCEPT ![j] = "refused"]
        /\ UNCHANGED <<cmd, limit, main, active>>
        /\ main = NoJob
    BY <1>1 DEF Handle
  <2>2. /\ \A l \in Jobs : Listed(l)' <=> Listed(l)
        /\ ListedJobs' = ListedJobs
    BY <2>1, ListedKept DEF Handle, Listed, ExecutorInv
  <2> QED
    BY <2>1, <2>2 DEF ExecutorInv, Progress
<1>2. CASE ~(Cardinality(active) >= limit)
  <2>1. /\ main' = j /\ proc[j] = "new" /\ main = NoJob
        /\ UNCHANGED <<cmd, limit, proc, active>>
    BY <1>2 DEF Handle
  <2>2. Cardinality(active) < limit
    BY <1>0, <1>2 DEF ExecutorInv
  <2>3. \A l \in Jobs : proc[l] \notin {"checked", "listed"}
    BY <2>1, JobAssumption DEF ExecutorInv
  <2> QED
    BY <2>1, <2>2, <2>3 DEF ExecutorInv, Listed, ListedJobs
<1> QED
  BY <1>1, <1>2

(* The job of the main loop moves on without being listed.                 *)
LEMMA TestKeeps ==
    ASSUME ExecutorInv, NEW j \in Jobs, ExecuteTest(j)
    PROVE  ExecutorInv'
<1>1. /\ main = j /\ main # NoJob /\ proc[j] = "new" /\ cmd[j] \notin active
      /\ proc' = [proc EXCEPT ![j] = "checked"]
      /\ UNCHANGED <<cmd, limit, main, active>>
  BY JobAssumption DEF ExecuteTest
<1>2. /\ \A l \in Jobs : Listed(l)' <=> Listed(l)
      /\ ListedJobs' = ListedJobs
  BY <1>1, ListedKept DEF ExecutorInv, Listed
<1> QED
  BY <1>1, <1>2 DEF ExecutorInv, Progress

(* A key and a listed job are added together, one of each.                 *)
LEMMA InsertKeeps ==
    ASSUME ExecutorInv, NEW j \in Jobs, ExecuteInsert(j)
    PROVE  ExecutorInv'
<1>1. /\ main = j /\ main # NoJob /\ proc[j] = "checked"
      /\ active' = active \cup {cmd[j]}
      /\ proc' = [proc EXCEPT ![j] = "listed"]
      /\ UNCHANGED <<cmd, limit, main>>
  BY JobAssumption DEF ExecuteInsert
<1>2. cmd[j] \notin active /\ Cardinality(active) < limit
  BY <1>1 DEF ExecutorInv
<1>3. \A l \in Jobs : Listed(l)' <=> Listed(l) \/ l = j
  BY <1>1 DEF Listed, ExecutorInv
<1>4. j \notin ListedJobs /\ ListedJobs' = ListedJobs \cup {j}
  BY <1>1, <1>3 DEF ListedJobs, Listed
<1>5. /\ IsFiniteSet(active') /\ Cardinality(active') = Cardinality(active) + 1
      /\ IsFiniteSet(ListedJobs') /\ Cardinality(ListedJobs') = Cardinality(ListedJobs) + 1
  BY <1>1, <1>2, <1>4, FS_AddElement DEF ExecutorInv
<1>6. Cardinality(active') = Cardinality(ListedJobs') /\ Cardinality(active') <= limit'
  BY <1>1, <1>2, <1>5, FS_CardinalityType DEF ExecutorInv
<1>7. \A i, l \in Jobs : Listed(i)' /\ Listed(l)' /\ cmd'[i] = cmd'[l] => i = l
  BY <1>1, <1>2, <1>3 DEF ExecutorInv
<1>8. \A l \in Jobs : Listed(l)' => cmd'[l] \in active'
  BY <1>1, <1>3 DEF ExecutorInv
<1>9. \A l \in Jobs : proc'[l] # "checked" /\ (proc'[l] = "listed" => main' = l)
  BY <1>1 DEF ExecutorInv
<1> QED
  BY <1>1, <1>5, <1>6, <1>7, <1>8, <1>9 DEF ExecutorInv, Progress

(* The process starts under a key that is there already.                   *)
LEMMA StartKeeps ==
    ASSUME ExecutorInv, NEW j \in Jobs, ExecuteStart(j)
    PROVE  ExecutorInv'
<1>1. /\ main = j /\ main' = NoJob /\ main # NoJob /\ proc[j] = "listed"
      /\ proc' = [proc EXCEPT ![j] = "running"]
      /\ UNCHANGED <<cmd, limit, active>>
  BY JobAssumption DEF ExecuteStart
<1>2. /\ \A l \in Jobs : Listed(l)' <=> Listed(l)
      /\ ListedJobs' = ListedJobs
  BY <1>1, ListedKept DEF ExecutorInv, Listed
<1>3. \A l \in Jobs : proc'[l] \notin {"checked", "listed"}
  BY <1>1 DEF ExecutorInv
<1> QED
  BY <1>1, <1>2, <1>3 DEF ExecutorInv, Progress

(* Execute gives up before the command is listed.                          *)
LEMMA RefuseKeeps ==
    ASSUME ExecutorInv, NEW j \in Jobs, Refuse(j)
    PROVE  ExecutorInv'
<1>1. /\ main = j /\ main' = NoJob /\ main # NoJob /\ proc[j] \in {"new", "checked"}
      /\ proc' = [proc EXCEPT ![j] = "refused"]
      /\ UNCHANGED <<cmd, limit, active>>
  BY JobAssumption DEF Refuse
<1>2. /\ \A l \in Jobs : Listed(l)' <=> Listed(l)
      /\ ListedJobs' = ListedJobs
  BY <1>1, ListedKept DEF ExecutorInv, Listed
<1>3. \A l \in Jobs : proc'[l] \notin {"checked", "listed"}
  BY <1>1 DEF ExecutorInv
<1> QED
  BY <1>1, <1>2, <1>3 DEF ExecutorInv, Progress

(* A process goes one step further without leaving the executor, or long   *)
(* after it has.                                                           *)
LEMMA AdvanceKeeps ==
    ASSUME ExecutorInv, NEW j \in Jobs, NEW from \in Progress, NEW to \in Progress,
           Advance(j, from, to), UNCHANGED active,
           from \notin {"new", "checked", "listed"}, to \notin {"new", "checked", "listed"},
           from \in {"running", "exited", "waited"} <=> to \in {"running", "exited", "waited"}
    PROVE  ExecutorInv'
<1>1. proc[j] = from /\ proc' = [proc EXCEPT ![j] = to] /\ UNCHANGED <<cmd, limit, main, active>>
  BY DEF Advance
<1>2. /\ \A l \in Jobs : Listed(l)' <=> Listed(l)
      /\ ListedJobs' = ListedJobs
  BY <1>1, ListedKept DEF ExecutorInv, Listed
<1>3. main # NoJob => proc'[main] = proc[main]
  BY <1>1 DEF ExecutorInv
<1>4. \A l \in Jobs : proc'[l] \in {"checked", "listed"} => proc'[l] = proc[l]
  BY <1>1 DEF ExecutorInv
<1> QED
  BY <1>1, <1>2, <1>3, <1>4 DEF ExecutorInv

(* A key and a listed job leave together: when a process has been waited   *)
(* for, or when it has failed to start.                                    *)
LEMMA DeleteKeeps ==
    ASSUME ExecutorInv, NEW j \in Jobs, NEW to \in {"forgotten", "refused"},
           Listed(j), proc' = [proc EXCEPT ![j] = to],
           active' = active \ {cmd[j]}, UNCHANGED <<cmd, limit>>,
           \/ proc[j] = "waited" /\ main' = main
           \/ proc[j] = "listed" /\ main' = NoJob
    PROVE  ExecutorInv'
<1>1. cmd[j] \in active
  BY DEF ExecutorInv
<1>2. \A l \in Jobs : Listed(l)' <=> Listed(l) /\ l # j
  BY DEF Listed, ExecutorInv
<1>3. j \in ListedJobs /\ ListedJobs' = ListedJobs \ {j}
  BY <1>2 DEF ListedJobs
<1>4. /\ IsFiniteSet(active') /\ Cardinality(active') = Cardinality(active) - 1
      /\ IsFiniteSet(ListedJobs') /\ Cardinality(ListedJobs') = Cardinality(ListedJobs) - 1
  BY <1>1, <1>3, FS_RemoveElement DEF ExecutorInv
<1>5. main' # NoJob => main' = main /\ main \in Jobs /\ proc'[main] = proc[main]
  BY DEF ExecutorInv
<1>6. /\ Cardinality(active') = Cardinality(ListedJobs')
      /\ Cardinality(active') <= limit'
      /\ main' # NoJob /\ proc'[main'] # "listed" => Cardinality(active') < limit'
  BY <1>4, <1>5, FS_CardinalityType DEF ExecutorInv
<1>7. \A l \in Jobs : Listed(l)' => cmd'[l] \in active'
  BY <1>2 DEF ExecutorInv
<1>8. \A l \in Jobs : proc'[l] \in {"checked", "listed"} => main' = l /\ proc'[l] = proc[l]
  BY DEF ExecutorInv
<1>9. \A l \in Jobs : proc'[l] = "checked" => cmd'[l] \notin active'
  BY <1>8 DEF ExecutorInv
<1>10. /\ proc' \in [Jobs -> Progress] /\ active' \subseteq Commands
       /\ main' \in Jobs \cup {NoJob}
  BY DEF ExecutorInv, Progress
<1>11. \A i, l \in Jobs : Listed(i)' /\ Listed(l)' /\ cmd'[i] = cmd'[l] => i = l
  BY <1>2 DEF ExecutorInv
<1>12. main' # NoJob => proc'[main'] \in {"new", "checked", "listed"}
  BY <1>5 DEF ExecutorInv
<1>13. /\ cmd' \in [Jobs -> Commands] /\ limit' \in Nat
  BY DEF ExecutorInv
<1> QED
  BY <1>4, <1>6, <1>7, <1>8, <1>9, <1>10, <1>11, <1>12, <1>13 DEF ExecutorInv

LEMMA ForgetKeeps ==
    ASSUME ExecutorInv, NEW j \in Jobs, Forget(j)
    PROVE  ExecutorInv'
  BY DeleteKeeps DEF Forget, Advance, Listed

LEMMA StartFailsKeeps ==
    ASSUME ExecutorInv, NEW j \in Jobs, StartFails(j)
    PROVE  ExecutorInv'
  BY DeleteKeeps DEF StartFails, Listed

(* Every step keeps the invariant.                                         *)
LEMMA ExecutorStep == ExecutorInv /\ [Next]_vars => ExecutorInv'
<1> SUFFICES ASSUME ExecutorInv, [Next]_vars PROVE ExecutorInv'
  OBVIOUS
<1>1. CASE \E j \in Jobs : MainStep(j)
  BY <1>1, HandleKeeps, TestKeeps, InsertKeeps, StartKeeps, StartFailsKeeps, RefuseKeeps
  DEF MainStep
<1>2. ASSUME NEW j \in Jobs, WaitStep(j) PROVE ExecutorInv'
  <2>1. CASE Exit(j)
    BY <2>1, AdvanceKeeps DEF Exit, Progress
  <2>2. CASE Wait(j)
    BY <2>2, AdvanceKeeps DEF Wait, Progress
  <2>3. CASE Forget(j)
    BY <2>3, ForgetKeeps
  <2>4. CASE CloseLog(j)
    BY <2>4, AdvanceKeeps DEF CloseLog, Progress
  <2>5. CASE HandleResult(j)
    BY <2>5, ExecutorStutter DEF HandleResult, executor
  <2> QED
    BY <1>2, <2>1, <2>2, <2>3, <2>4, <2>5 DEF WaitStep
<1>3. ASSUME NEW j \in Jobs, NEW s \in Sources, PipeStep(j, s) PROVE UNCHANGED executor
  BY <1>3 DEF PipeStep, Write, Read, ReadEnds, SkipBlank, SendLine, SendRest, SendPanics, Panic, executor
<1>4. ASSUME ShipStep PROVE UNCHANGED executor
  BY <1>4 DEF ShipStep, Number, Flush, Ship, ShipFails, executor
<1>5. CASE UNCHANGED vars
  BY <1>5, ExecutorStutter DEF vars, executor
<1> QED
  BY <1>1, <1>2, <1>3, <1>4, <1>5, ExecutorStutter DEF Next

(* The keys of Executor.active, the processes and the limit agree in every *)
(* reachable state.                                                        *)
THEOREM ExecutorInvariance == Spec => []ExecutorInv
  BY ExecutorInit, ExecutorStep, PTL DEF Spec

(* The executor never runs two processes for one command id, although it   *)
(* tests for one, adds the key and starts the process in three steps, with *)
(* the deletions of other goroutines between them.                         *)
THEOREM NeverTwiceAtOnce == Spec => []OneProcessPerCommand
<1>1. ExecutorInv => OneProcessPerCommand
  BY DEF ExecutorInv, OneProcessPerCommand, Held, Listed
<1> QED
  BY <1>1, ExecutorInvariance, PTL

(* The runner never exceeds CLIENT_MAX_CONCURRENCY, which is tested in one *)
(* critical section and acted upon in another.                             *)
THEOREM KeepsLimit == Spec => []LimitKept
<1>1. ExecutorInv => LimitKept
  <2>1. HeldJobs \subseteq ListedJobs
    BY DEF HeldJobs, ListedJobs, Held, Listed
  <2>2. ExecutorInv => Cardinality(HeldJobs) <= Cardinality(ListedJobs) /\ IsFiniteSet(HeldJobs)
    BY <2>1, FS_Subset DEF ExecutorInv
  <2> QED
    BY <2>2, FS_CardinalityType DEF ExecutorInv, LimitKept
<1> QED
  BY <1>1, ExecutorInvariance, PTL
-----------------------------------------------------------------------------
(* The client as one of the executors.  Its machine, which holds its held  *)
(* jobs, has begun those that have ever had a process.                     *)
Unbegun == {"new", "checked", "listed", "refused"}
Begun == {j \in Jobs : proc[j] \notin Unbegun}
HeldBy == [m \in {"client"} |-> HeldJobs]

(* What the abstract executor sees of a step.                              *)
LEMMA ExecutorSees ==
    HeldBy' = HeldBy /\ Begun' = Begun /\ UNCHANGED <<cmd, limit>> =>
        UNCHANGED Executor!executors
  BY DEF Executor!executors, HeldBy, Begun, Unbegun, HeldJobs, Held

(* The start of a process is the start of a job: the limit, tested by      *)
(* Handle, and the keys, tested by Execute, still stand for the processes. *)
LEMMA ExecuteStarts ==
    ASSUME ExecutorInv, NEW j \in Jobs, ExecuteStart(j)
    PROVE  Executor!ExecutorsNext
<1>1. /\ proc[j] = "listed"
      /\ proc' = [proc EXCEPT ![j] = "running"]
      /\ UNCHANGED <<cmd, limit>>
  BY DEF ExecuteStart
<1>2. Cardinality(HeldJobs) < limit
  <2>1. j \in ListedJobs /\ HeldJobs \subseteq ListedJobs \ {j}
    BY <1>1 DEF HeldJobs, ListedJobs, Held, Listed
  <2>2. /\ IsFiniteSet(ListedJobs \ {j})
        /\ Cardinality(ListedJobs \ {j}) = Cardinality(ListedJobs) - 1
    BY <2>1, FS_RemoveElement DEF ExecutorInv
  <2>3. IsFiniteSet(HeldJobs) /\ Cardinality(HeldJobs) <= Cardinality(ListedJobs \ {j})
    BY <2>1, <2>2, FS_Subset
  <2> QED
    BY <2>2, <2>3, FS_CardinalityType DEF ExecutorInv
<1>3. HeldJobs' = HeldJobs \cup {j} /\ Begun' = Begun \cup {j} /\ j \notin Begun
  BY <1>1 DEF ExecutorInv, HeldJobs, Held, Begun, Unbegun
<1>4. \A i \in HeldJobs : cmd[i] # cmd[j]
  BY <1>1 DEF ExecutorInv, HeldJobs, Held, Listed
<1>5. HeldBy["client"] = HeldJobs /\ HeldBy' = [HeldBy EXCEPT !["client"] = @ \cup {j}]
  BY <1>3 DEF HeldBy
<1>6. \A S : Executor!Cardinality(S) = Cardinality(S)
  BY DEF Cardinality, Executor!Cardinality
<1>7. Executor!Start("client", j)
  BY <1>1, <1>2, <1>3, <1>4, <1>5, <1>6 DEF Executor!Start, HeldBy, Begun, Unbegun
<1> QED
  BY <1>7 DEF Executor!ExecutorsNext

(* Forget is where a job leaves.                                           *)
LEMMA ForgetLeaves ==
    ASSUME ExecutorInv, NEW j \in Jobs, Forget(j)
    PROVE  Executor!ExecutorsNext
<1>1. /\ proc[j] = "waited" /\ proc' = [proc EXCEPT ![j] = "forgotten"]
      /\ UNCHANGED <<cmd, limit>>
  BY DEF Forget, Advance
<1>2. j \in HeldJobs /\ HeldJobs' = HeldJobs \ {j} /\ Begun' = Begun
  BY <1>1 DEF ExecutorInv, HeldJobs, Held, Begun, Unbegun
<1>3. HeldBy["client"] = HeldJobs /\ HeldBy' = [HeldBy EXCEPT !["client"] = @ \ {j}]
  BY <1>2 DEF HeldBy
<1>4. Executor!Leave("client", {j})
  BY <1>1, <1>2, <1>3 DEF Executor!Leave, HeldBy, Begun, Unbegun
<1> QED
  BY <1>2, <1>3, <1>4 DEF Executor!ExecutorsNext, HeldBy

(* Every other step changes neither the held nor the begun jobs.           *)
LEMMA ExecutorsStep == ExecutorInv /\ [Next]_vars => [Executor!ExecutorsNext]_(Executor!executors)
<1> SUFFICES ASSUME ExecutorInv, [Next]_vars
             PROVE  Executor!ExecutorsNext \/ UNCHANGED Executor!executors
  OBVIOUS
<1>0. ASSUME NEW j \in Jobs, NEW p, proc' = [proc EXCEPT ![j] = p], UNCHANGED <<cmd, limit>>,
             Held(j) <=> p \in {"running", "exited", "waited"},
             proc[j] \in Unbegun <=> p \in Unbegun
      PROVE  UNCHANGED Executor!executors
  <2>1. HeldJobs' = HeldJobs /\ Begun' = Begun
    BY <1>0 DEF ExecutorInv, HeldJobs, Held, Begun, Unbegun
  <2> QED
    BY <1>0, <2>1, ExecutorSees DEF HeldBy
<1>s. ASSUME UNCHANGED <<cmd, limit, proc>>
      PROVE  UNCHANGED Executor!executors
  BY <1>s, ExecutorSees DEF HeldBy, HeldJobs, Held, Begun, Unbegun
<1>1. ASSUME NEW j \in Jobs, MainStep(j)
      PROVE  Executor!ExecutorsNext \/ UNCHANGED Executor!executors
  <2>1. CASE Handle(j)
    <3>1. UNCHANGED <<cmd, limit>> /\ proc[j] = "new"
          /\ (UNCHANGED proc \/ proc' = [proc EXCEPT ![j] = "refused"])
      BY <2>1 DEF Handle
    <3> QED
      BY <3>1, <1>0, <1>s DEF Held, Unbegun
  <2>2. CASE ExecuteStart(j)
    BY <2>2, ExecuteStarts
  <2>3. CASE ExecuteTest(j) \/ ExecuteInsert(j)
    <3>1. /\ proc[j] \in Unbegun /\ UNCHANGED <<cmd, limit>>
          /\ \E p \in Unbegun : proc' = [proc EXCEPT ![j] = p]
      BY <2>3 DEF ExecuteTest, ExecuteInsert, Unbegun
    <3> QED
      BY <3>1, <1>0 DEF Held, Unbegun
  <2>4. CASE StartFails(j) \/ Refuse(j)
    <3>1. /\ proc[j] \in Unbegun /\ UNCHANGED <<cmd, limit>>
          /\ proc' = [proc EXCEPT ![j] = "refused"]
      BY <2>4 DEF StartFails, Refuse, Unbegun
    <3> QED
      BY <3>1, <1>0 DEF Held, Unbegun
  <2> QED
    BY <1>1, <2>1, <2>2, <2>3, <2>4 DEF MainStep
<1>2. ASSUME NEW j \in Jobs, WaitStep(j)
      PROVE  Executor!ExecutorsNext \/ UNCHANGED Executor!executors
  <2>1. CASE Forget(j)
    BY <2>1, ForgetLeaves
  <2>2. CASE Exit(j) \/ Wait(j) \/ CloseLog(j)
    BY <2>2, <1>0 DEF Exit, Wait, CloseLog, Advance, Held, Unbegun
  <2>3. CASE HandleResult(j)
    BY <2>3, <1>s DEF HandleResult
  <2> QED
    BY <1>2, <2>1, <2>2, <2>3 DEF WaitStep
<1>3. ASSUME NEW j \in Jobs, NEW s \in Sources, PipeStep(j, s)
      PROVE  UNCHANGED <<cmd, limit, proc>>
  BY <1>3 DEF PipeStep, Write, Read, ReadEnds, SkipBlank, SendLine, SendRest, SendPanics, Panic
<1>4. ASSUME ShipStep
      PROVE  UNCHANGED <<cmd, limit, proc>>
  BY <1>4 DEF ShipStep, Number, Flush, Ship, ShipFails
<1>5. CASE UNCHANGED vars
  BY <1>5, <1>s DEF vars
<1> QED
  BY <1>1, <1>2, <1>3, <1>4, <1>5, <1>s DEF Next

(* The client implements the abstract executor: what Handle and Execute    *)
(* have tested, each for itself, is still so when the process starts.      *)
THEOREM ImplementsExecutor == Spec => ActsAsExecutor
<1>1. Init => Executor!ExecutorsInit
  BY DEF Init, Executor!ExecutorsInit, HeldJobs, Held
<1> QED
  BY <1>1, ExecutorsStep, ExecutorInvariance, PTL
  DEF Spec, ActsAsExecutor, Executor!ExecutorsSpec
=============================================================================
