------------------------------- MODULE Ledger -------------------------------
(***************************************************************************)
(* What the service does promise about one command, whatever happens to    *)
(* streams, notifications, processes and requests: the row is queued once, *)
(* claimed for at most one runner and never given back; it is executed at  *)
(* most once for being announced and at most once for being claimed; only  *)
(* an execution produces an outcome; and an outcome is replaced only when  *)
(* there were two executions.                                              *)
(***************************************************************************)
CONSTANTS Commands, Runners, Paths, Outcomes, Nobody

VARIABLES status,  \* per command: "absent", "queued", "claimed" or an outcome
          owner,   \* per command: the runner its row was claimed for
          ran      \* per command: the paths on which it has been executed

ledger == <<status, owner, ran>>

LedgerInit == /\ status = [c \in Commands |-> "absent"]
              /\ owner  = [c \in Commands |-> Nobody]
              /\ ran    = [c \in Commands |-> {}]

Submit(c) == /\ status[c] = "absent"
             /\ status' = [status EXCEPT ![c] = "queued"]
             /\ UNCHANGED <<owner, ran>>

Assign(c, r) == /\ status[c] = "queued" /\ owner[c] = Nobody
                /\ status' = [status EXCEPT ![c] = "claimed"]
                /\ owner'  = [owner EXCEPT ![c] = r]
                /\ UNCHANGED ran

Execute(c, p) == /\ status[c] # "absent" /\ p \notin ran[c]
                 /\ p = "claim" => owner[c] # Nobody
                 /\ ran' = [ran EXCEPT ![c] = @ \cup {p}]
                 /\ UNCHANGED <<status, owner>>

Conclude(c, o) == /\ ran[c] # {}
                  /\ status[c] \in Outcomes => ran[c] = Paths
                  /\ status' = [status EXCEPT ![c] = o]
                  /\ UNCHANGED <<owner, ran>>

LedgerNext == \E c \in Commands : \/ Submit(c)
                                  \/ \E r \in Runners : Assign(c, r)
                                  \/ \E p \in Paths : Execute(c, p)
                                  \/ \E o \in Outcomes : Conclude(c, o)

LedgerSpec == LedgerInit /\ [][LedgerNext]_ledger
=============================================================================
