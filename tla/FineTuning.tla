----------------------------- MODULE FineTuning -----------------------------
(***************************************************************************)
(* The fine-tuning service (services/fine-tuning): jobs that clients       *)
(* create, start, pause, resume, cancel and delete, and the background     *)
(* tasks that train them, one more for each start_job.                     *)
(*                                                                         *)
(* Everything is under one tokio lock, which is fair: requests are granted *)
(* in the order they are made.  No call keeps it over an await but one: a  *)
(* trainer that finds its job paused waits for the resume under the read   *)
(* guard it found that out with, and asks for a second one at each turn.   *)
(* A caller may drop its future while it waits for the lock; a trainer,    *)
(* being a task of its own, is never dropped.                              *)
(***************************************************************************)
EXTENDS Integers, Sequences, SequencesExt

CONSTANTS
  Clients,   \* tasks that call the service
  Jobs,      \* job ids (UUIDs)
  NoJob,     \* none of them
  Trainers,  \* background tasks: a bound on how many run at a time
  Epochs,    \* config.epochs
  MaxCalls   \* bound on the number of calls

ASSUME FineTuningAssumption ==
  /\ Clients \cap Trainers = {}
  /\ NoJob \notin Jobs
  /\ Epochs \in Nat /\ MaxCalls \in Nat

VARIABLES
  jobs,     \* the jobs map: id -> [status, epoch]
  used,     \* ids of the jobs created so far
  call,     \* the call each client waits in
  trainer,  \* what each background task is doing
  queue,    \* who waits for the lock, in order
  calls     \* calls made so far

vars == <<jobs, used, call, trainer, queue, calls>>

Idle == [kind |-> "none", job |-> NoJob]
Off == [pc |-> "off", job |-> NoJob, epoch |-> 0]

Final == {"Completed", "Cancelled"}
Writes == {"create", "start", "pause", "resume", "cancel", "delete"}
Kinds == Writes \cup {"read"}

Init ==
  /\ jobs = [j \in {} |-> 0]
  /\ used = {}
  /\ call = [c \in Clients |-> Idle]
  /\ trainer = [r \in Trainers |-> Off]
  /\ queue = <<>>
  /\ calls = 0

-----------------------------------------------------------------------------
(* The lock *)

\* Trainers that keep their read guard while they wait.
GuardHolders == {r \in Trainers : trainer[r].pc \in {"paused", "recheck"}}

Reading(p) ==
  \/ p \in Clients /\ call[p].kind = "read"
  \/ p \in Trainers /\ trainer[p].pc \in {"check", "recheck"}

Granted(p) ==
  /\ queue # <<>> /\ Head(queue) = p
  /\ Reading(p) \/ GuardHolders = {}

Queued(p) == \E i \in 1..Len(queue) : queue[i] = p

-----------------------------------------------------------------------------
(* Clients *)

\* Ids of jobs that wait to be entered into the map.
Unborn == {call[c].job : c \in {d \in Clients : call[d].kind = "create"}}

\* Every create_job has an id of its own; callers know those of jobs that are
\* or were in the map.
Call(c, kind, j) ==
  /\ call[c].kind = "none" /\ calls < MaxCalls
  /\ IF kind = "create" THEN j \notin used \cup Unborn ELSE j \in used
  /\ call' = [call EXCEPT ![c] = [kind |-> kind, job |-> j]]
  /\ queue' = Append(queue, c)
  /\ calls' = calls + 1
  /\ UNCHANGED <<jobs, used, trainer>>

\* The caller drops the future of its call while that waits for the lock.
DropCall(c) ==
  /\ \E i \in 1..Len(queue) : queue[i] = c /\ queue' = RemoveAt(queue, i)
  /\ call' = [call EXCEPT ![c] = Idle]
  /\ UNCHANGED <<jobs, used, trainer, calls>>

\* The client has the lock; its call returns within the step.
Serves(c, kind) == call[c].kind = kind /\ Granted(c)

Returns(c) ==
  /\ call' = [call EXCEPT ![c] = Idle]
  /\ queue' = Tail(queue)
  /\ UNCHANGED calls

Has(c, statuses) ==
  call[c].job \in DOMAIN jobs /\ jobs[call[c].job].status \in statuses

SetStatus(j, status) == jobs' = [jobs EXCEPT ![j] = [@ EXCEPT !.status = status]]

CreateJob(c) ==
  /\ Serves(c, "create")
  /\ jobs' = [j \in DOMAIN jobs \cup {call[c].job} |->
                IF j = call[c].job THEN [status |-> "Pending", epoch |-> 0]
                                   ELSE jobs[j]]
  /\ used' = used \cup {call[c].job}
  /\ Returns(c) /\ UNCHANGED trainer

\* What can be started (a bug: whatever is not running).
NotRunning == {"Pending", "Paused", "Completed", "Cancelled"}
Startable == {"Pending", "Paused"}

Spawned(j) == [pc |-> IF Epochs = 0 THEN "finish" ELSE "check",
               job |-> j, epoch |-> 1]

StartJob(c) ==
  /\ Serves(c, "start") /\ Has(c, Startable)
  /\ SetStatus(call[c].job, "Running")
  /\ \E r \in Trainers :
       /\ trainer[r] = Off
       /\ trainer' = [trainer EXCEPT ![r] = Spawned(call[c].job)]
  /\ Returns(c) /\ UNCHANGED used

PauseJob(c) ==
  /\ Serves(c, "pause") /\ Has(c, {"Running"})
  /\ SetStatus(call[c].job, "Paused")
  /\ Returns(c) /\ UNCHANGED <<used, trainer>>

ResumeJob(c) ==
  /\ Serves(c, "resume") /\ Has(c, {"Paused"})
  /\ SetStatus(call[c].job, "Running")
  /\ Returns(c) /\ UNCHANGED <<used, trainer>>

Cancellable == {"Pending", "Running", "Paused"}

CancelJob(c) ==
  /\ Serves(c, "cancel") /\ Has(c, Cancellable)
  /\ SetStatus(call[c].job, "Cancelled")
  /\ Returns(c) /\ UNCHANGED <<used, trainer>>

Deletable == {"Pending", "Paused", "Completed", "Cancelled"}

DeleteJob(c) ==
  /\ Serves(c, "delete") /\ Has(c, Deletable)
  /\ jobs' = [j \in DOMAIN jobs \ {call[c].job} |-> jobs[j]]
  /\ Returns(c) /\ UNCHANGED <<used, trainer>>

\* JobNotFound, InvalidState, and the calls that only read.
Refused(c) ==
  \/ Serves(c, "start") /\ ~Has(c, Startable)
  \/ Serves(c, "pause") /\ ~Has(c, {"Running"})
  \/ Serves(c, "resume") /\ ~Has(c, {"Paused"})
  \/ Serves(c, "cancel") /\ ~Has(c, Cancellable)
  \/ Serves(c, "delete") /\ ~Has(c, Deletable)

NothingToDo(c) ==
  /\ Refused(c) \/ Serves(c, "read")
  /\ Returns(c) /\ UNCHANGED <<jobs, used, trainer>>

Serve(c) ==
  \/ CreateJob(c) \/ StartJob(c) \/ PauseJob(c) \/ ResumeJob(c)
  \/ CancelJob(c) \/ DeleteJob(c) \/ NothingToDo(c)

-----------------------------------------------------------------------------
(* Trainers: run_training *)

Status(r) ==
  IF trainer[r].job \in DOMAIN jobs THEN jobs[trainer[r].job].status ELSE "none"

Becomes(r, state) == trainer' = [trainer EXCEPT ![r] = state]
At(r, where) == Becomes(r, [trainer[r] EXCEPT !.pc = where])

\* It asks for the lock at the top of the loop, and after it.
Ask(r) ==
  /\ trainer[r].pc \in {"check", "finish"} /\ ~Queued(r)
  /\ queue' = Append(queue, r)
  /\ UNCHANGED <<jobs, used, call, trainer, calls>>

HasLock(r, where) ==
  /\ trainer[r].pc = where /\ Granted(r)
  /\ queue' = Tail(queue)
  /\ UNCHANGED <<used, call, calls>>

\* On what the task ends (a bug: a paused job ends it too).
EndsOnPause(status) == status \in {"Cancelled", "Paused"}
Ends(status) == status = "Cancelled"

Check(r) ==
  /\ HasLock(r, "check")
  /\ \/ Ends(Status(r)) /\ Becomes(r, Off)
     \/ ~Ends(Status(r)) /\ Status(r) = "Paused" /\ At(r, "paused")
     \/ ~Ends(Status(r)) /\ Status(r) # "Paused" /\ At(r, "train")
  /\ UNCHANGED jobs

\* One turn of the wait for the resume: sleep, then read again.
WakeUp(r) ==
  /\ trainer[r].pc = "paused"
  /\ At(r, "recheck")
  /\ queue' = Append(queue, r)
  /\ UNCHANGED <<jobs, used, call, calls>>

Recheck(r) ==
  /\ HasLock(r, "recheck")
  /\ \/ Status(r) = "Running" /\ At(r, "train")
     \/ Status(r) = "Cancelled" /\ Becomes(r, Off)
     \/ Status(r) \notin {"Running", "Cancelled"} /\ At(r, "paused")
  /\ UNCHANGED jobs

TrainEpoch(r) ==
  /\ trainer[r].pc = "train"
  /\ At(r, "update")
  /\ queue' = Append(queue, r)
  /\ UNCHANGED <<jobs, used, call, calls>>

\* Whether there is an epoch left (a bug: one too many).
MoreOrSame(r) == trainer[r].epoch <= Epochs
More(r) == trainer[r].epoch < Epochs

\* The job may have been deleted; its status is not looked at.
Update(r) ==
  /\ HasLock(r, "update")
  /\ jobs' = [j \in DOMAIN jobs |->
                IF j = trainer[r].job
                THEN [jobs[j] EXCEPT !.epoch = trainer[r].epoch] ELSE jobs[j]]
  /\ IF More(r)
     THEN Becomes(r, [trainer[r] EXCEPT !.pc = "check", !.epoch = @ + 1])
     ELSE At(r, "finish")

\* Whatever status the task finds, a cancelled job's too (a bug: it leaves it).
StatusKept(status) == status
FinalStatus(status) == "Completed"

Finish(r) ==
  /\ HasLock(r, "finish")
  /\ jobs' = [j \in DOMAIN jobs |->
                IF j = trainer[r].job
                THEN [jobs[j] EXCEPT !.status = FinalStatus(@)] ELSE jobs[j]]
  /\ Becomes(r, Off)

Train(r) ==
  \/ Ask(r) \/ Check(r) \/ WakeUp(r) \/ Recheck(r)
  \/ TrainEpoch(r) \/ Update(r) \/ Finish(r)

-----------------------------------------------------------------------------
Next ==
  \/ \E c \in Clients :
       Serve(c) \/ DropCall(c) \/ \E kind \in Kinds, j \in Jobs : Call(c, kind, j)
  \/ \E r \in Trainers : Train(r)

Spec == Init /\ [][Next]_vars

\* Tasks run; nobody has to call, or to drop a call.
FairSpec ==
  /\ Spec
  /\ \A c \in Clients : WF_vars(Serve(c))
  /\ \A r \in Trainers : WF_vars(Train(r))

-----------------------------------------------------------------------------
(* Properties *)

Job == [status : {"Pending", "Running", "Paused", "Completed", "Cancelled"},
        epoch : 0..Epochs]

TrainerState ==
  [pc : {"off", "check", "paused", "recheck", "train", "update", "finish"},
   job : Jobs \cup {NoJob}, epoch : Nat]

TypeOK ==
  /\ DOMAIN jobs \subseteq used /\ used \subseteq Jobs
  /\ \A j \in DOMAIN jobs : jobs[j] \in Job
  /\ call \in [Clients -> [kind : Kinds \cup {"none"}, job : Jobs \cup {NoJob}]]
  /\ trainer \in [Trainers -> TrainerState]
  /\ queue \in Seq(Clients \cup Trainers)
  /\ calls \in 0..MaxCalls

TrainersOf(j) == {r \in Trainers : trainer[r].job = j}

\* A job shown Running or Paused has a background task: none ends without
\* leaving its job in a final state, whatever the clients did meanwhile.
RunningJobsAreTrained ==
  \A j \in DOMAIN jobs :
    jobs[j].status \in {"Running", "Paused"} => TrainersOf(j) # {}

\* Every job goes through the life its owner is promised, whichever calls and
\* trainers come late: one that was completed or cancelled never runs again,
\* one that was deleted does not come back, one that runs is not deleted, and
\* none makes progress before it was started.
Lifecycle == INSTANCE JobLifecycle WITH created <- used
JobsFollowLifecycle == Lifecycle!Spec

\* The progress shown of an unfinished job goes back only when start_job was
\* called on it while it was paused, and a second task trains it.
ProgressGoesOn ==
  [][\A j \in DOMAIN jobs \cap DOMAIN jobs' :
       jobs'[j].epoch < jobs[j].epoch =>
         \/ jobs[j].status \in Final
         \/ \E r, s \in TrainersOf(j) : r # s]_vars

Runs(j) == j \in DOMAIN jobs /\ jobs[j].status = "Running"

\* As long as no trainer has found its job paused, nothing hangs: every running
\* job comes to an end, every call returns, and every trainer ends, that of a
\* job deleted under it too.
TrainingEnds ==
  [](\A r \in Trainers : trainer[r].pc # "paused") =>
    /\ \A j \in Jobs : Runs(j) ~> ~Runs(j)
    /\ \A c \in Clients : call[c] # Idle ~> call[c] = Idle
    /\ \A r \in Trainers : trainer[r] # Off ~> trainer[r] = Off

\* "Wait for resume": a trainer that waits and whose job a client resumes
\* goes on, unless that client gives the call up.
ResumeIsHeard ==
  \A r \in Trainers, c \in Clients :
    (/\ trainer[r].pc \in {"paused", "recheck"}
     /\ call[c] = [kind |-> "resume", job |-> trainer[r].job])
      ~> (trainer[r].pc \notin {"paused", "recheck"} \/ call[c] = Idle)

=============================================================================
