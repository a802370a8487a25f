---------------------------- MODULE JobLifecycle ----------------------------
(***************************************************************************)
(* What the fine-tuning service promises of its jobs: the life each goes   *)
(* through, whoever calls and trains.  A job is there from its creation to *)
(* its deletion and never again, it makes progress only once it has been   *)
(* started, a running one is not deleted, and one that was completed or    *)
(* cancelled never runs again.                                             *)
(***************************************************************************)
EXTENDS Integers

CONSTANTS
  Jobs,   \* job ids
  Epochs  \* epochs to train

VARIABLES
  jobs,    \* id -> [status, epoch]
  created  \* ids of the jobs created so far

vars == <<jobs, created>>

Init == jobs = [j \in {} |-> 0] /\ created = {}

Create(j) ==
  /\ j \notin created
  /\ created' = created \cup {j}
  /\ jobs' = [k \in DOMAIN jobs \cup {j} |->
                IF k = j THEN [status |-> "Pending", epoch |-> 0] ELSE jobs[k]]

Is(j, statuses) == j \in DOMAIN jobs /\ jobs[j].status \in statuses

Move(j, from, to) ==
  /\ Is(j, from)
  /\ jobs' = [jobs EXCEPT ![j] = [@ EXCEPT !.status = to]]
  /\ UNCHANGED created

Run(j) == Move(j, {"Pending", "Paused"}, "Running")
Pause(j) == Move(j, {"Running"}, "Paused")
Cancel(j) == Move(j, {"Pending", "Running", "Paused"}, "Cancelled")

\* A job cancelled during its last epoch ends up completed.
Complete(j) == Move(j, {"Running", "Paused", "Cancelled"}, "Completed")

Progress(j) ==
  /\ Is(j, {"Running", "Paused", "Completed", "Cancelled"})
  /\ \E e \in 1..Epochs :
       jobs' = [jobs EXCEPT ![j] = [@ EXCEPT !.epoch = e]]
  /\ UNCHANGED created

Delete(j) ==
  /\ Is(j, {"Pending", "Paused", "Completed", "Cancelled"})
  /\ jobs' = [k \in DOMAIN jobs \ {j} |-> jobs[k]]
  /\ UNCHANGED created

Next ==
  \E j \in Jobs :
    \/ Create(j) \/ Run(j) \/ Pause(j) \/ Cancel(j)
    \/ Progress(j) \/ Complete(j) \/ Delete(j)

Spec == Init /\ [][Next]_vars
=============================================================================
