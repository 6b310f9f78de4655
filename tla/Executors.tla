----------------------------- MODULE Executors -----------------------------
(***************************************************************************)
(* What the executors of all runners promise together: a job, that is one  *)
(* dispatch of a command, is executed at most once, on one machine; no     *)
(* machine exceeds its limit or executes one command twice at a time.      *)
(* Execution implements it for its one client, where tests and insertions  *)
(* are steps apart, and Dispatch for all its runners.                      *)
(***************************************************************************)
EXTENDS Naturals, FiniteSets

CONSTANTS Machines, Jobs

VARIABLES held,     \* per machine: the jobs it executes
          begun,    \* the jobs that have ever been executed
          command,  \* per job: the command id it carries
          limit     \* what a machine may execute at a time

executors == <<held, begun, command, limit>>

ExecutorsInit == held = [m \in Machines |-> {}] /\ begun = {}

Start(m, j) ==
    /\ j \notin begun
    /\ Cardinality(held[m]) < limit
    /\ \A i \in held[m] : command[i] # command[j]
    /\ held'  = [held EXCEPT ![m] = @ \cup {j}]
    /\ begun' = begun \cup {j}
    /\ UNCHANGED <<command, limit>>

(* One job ends, or all of them with their machine.                        *)
Leave(m, ended) ==
    /\ held' = [held EXCEPT ![m] = @ \ ended]
    /\ UNCHANGED <<begun, command, limit>>

ExecutorsNext ==
    \E m \in Machines : \/ \E j \in Jobs : Start(m, j)
                        \/ Leave(m, held[m]) \/ \E j \in held[m] : Leave(m, {j})

ExecutorsSpec == ExecutorsInit /\ [][ExecutorsNext]_executors
=============================================================================
