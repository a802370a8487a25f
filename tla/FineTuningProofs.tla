-------------------------- MODULE FineTuningProofs --------------------------
(***************************************************************************)
(* Proofs about FineTuning for every number of clients, jobs, background   *)
(* tasks, epochs and calls.                                                *)
(***************************************************************************)
EXTENDS FineTuning, SequenceTheorems, TLAPS

Typed ==
  /\ DOMAIN jobs \subseteq used /\ used \subseteq Jobs
  /\ jobs \in [DOMAIN jobs -> Job]
  /\ call \in [Clients -> [kind : Kinds \cup {"none"}, job : Jobs \cup {NoJob}]]
  /\ trainer \in [Trainers -> TrainerState]
  /\ calls \in 0..MaxCalls

\* Whoever creates a job has an id of its own that was never in the map.
CallsOK ==
  \A c \in Clients :
    /\ call[c].kind = "create" => call[c].job \in Jobs \ used
    /\ \A d \in Clients :
         call[c].kind = "create" /\ call[d].kind = "create"
           /\ call[c].job = call[d].job => c = d

\* A background task works for a job that was started, or was deleted since.
TrainerOK(r) ==
  /\ trainer[r].pc = "off" <=> trainer[r].job = NoJob
  /\ trainer[r].pc \notin {"off", "finish"} => trainer[r].epoch \in 1..Epochs
  /\ trainer[r].pc # "off" =>
       /\ trainer[r].job \in used
       /\ trainer[r].job \in DOMAIN jobs => jobs[trainer[r].job].status # "Pending"

Sole(r, j) == r \in TrainersOf(j) /\ \A s \in TrainersOf(j) : s = r

\* The progress of a job that is not final and has one task is not ahead of it.
JobOK(j) ==
  /\ jobs[j].status = "Pending" => jobs[j].epoch = 0
  /\ jobs[j].status \in {"Running", "Paused"} => TrainersOf(j) # {}
  /\ \A r \in Trainers :
       Sole(r, j) /\ jobs[j].status \notin Final => jobs[j].epoch <= trainer[r].epoch

IInv ==
  /\ Typed /\ CallsOK
  /\ \A r \in Trainers : TrainerOK(r)
  /\ \A j \in DOMAIN jobs : JobOK(j)

LEMMA Constants ==
  /\ Clients \cap Trainers = {} /\ NoJob \notin Jobs
  /\ Epochs \in Nat /\ MaxCalls \in Nat
  BY FineTuningAssumption

LEMMA OffState ==
  /\ Off \in TrainerState /\ Off.pc = "off" /\ Off.job = NoJob
  BY DEF Off, TrainerState

LEMMA InitIInv == Init => IInv
  <1> SUFFICES ASSUME Init PROVE IInv
    OBVIOUS
  <1>1. Typed
    BY Constants, OffState DEF Init, Typed, Idle, Kinds
  <1>2. CallsOK
    BY DEF Init, CallsOK, Idle
  <1>3. ASSUME NEW r \in Trainers PROVE TrainerOK(r)
    BY OffState DEF Init, TrainerOK
  <1> QED BY <1>1, <1>2, <1>3 DEF Init, IInv

-----------------------------------------------------------------------------
(* Calls of clients *)

LEMMA CallStep ==
  ASSUME IInv, NEW c \in Clients, NEW kind \in Kinds, NEW j \in Jobs, Call(c, kind, j)
  PROVE  IInv'
  <1> USE DEF IInv
  <1>1. /\ call[c].kind = "none" /\ UNCHANGED <<jobs, used, trainer>>
        /\ call' = [call EXCEPT ![c] = [kind |-> kind, job |-> j]]
        /\ calls < MaxCalls /\ calls' = calls + 1
        /\ kind = "create" =>
             /\ j \notin used
             /\ \A d \in Clients : call[d].kind = "create" => call[d].job # j
    BY DEF Call, Unborn
  <1>2. Typed'
    BY <1>1, Constants DEF Typed
  <1>3. /\ call'[c].kind = kind /\ call'[c].job = j
        /\ \A d \in Clients : d # c => call'[d] = call[d]
    BY <1>1 DEF Typed
  <1>4. CallsOK'
    BY <1>1, <1>3 DEF CallsOK
  <1>5. ASSUME NEW r \in Trainers PROVE TrainerOK(r)'
    BY <1>1 DEF TrainerOK
  <1>6. ASSUME NEW k \in DOMAIN jobs' PROVE JobOK(k)'
    BY <1>1 DEF JobOK, Sole, TrainersOf
  <1> QED BY <1>2, <1>4, <1>5, <1>6

\* A call is over: it returns, or it is dropped.
LEMMA OverFacts ==
  ASSUME IInv, NEW c \in Clients, call' = [call EXCEPT ![c] = Idle]
  PROVE  /\ call' \in [Clients -> [kind : Kinds \cup {"none"}, job : Jobs \cup {NoJob}]]
         /\ call'[c] = Idle /\ \A d \in Clients : d # c => call'[d] = call[d]
         /\ used' = used => CallsOK'
  <1>1. /\ call'[c] = Idle /\ \A d \in Clients : d # c => call'[d] = call[d]
        /\ call' \in [Clients -> [kind : Kinds \cup {"none"}, job : Jobs \cup {NoJob}]]
    BY DEF IInv, Typed, Idle
  <1>2. used' = used => CallsOK'
    BY <1>1 DEF CallsOK, Idle, IInv
  <1> QED BY <1>1, <1>2

LEMMA ReturnFacts ==
  ASSUME IInv, NEW c \in Clients, Returns(c)
  PROVE  /\ calls' = calls
         /\ call' \in [Clients -> [kind : Kinds \cup {"none"}, job : Jobs \cup {NoJob}]]
         /\ call'[c] = Idle /\ \A d \in Clients : d # c => call'[d] = call[d]
         /\ used' = used => CallsOK'
  BY OverFacts DEF Returns

LEMMA DropStep ==
  ASSUME IInv, NEW c \in Clients, DropCall(c)
  PROVE  IInv'
  <1>1. call' = [call EXCEPT ![c] = Idle] /\ UNCHANGED <<jobs, used, trainer, calls>>
    BY DEF DropCall
  <1>2. Typed' /\ CallsOK'
    BY <1>1, OverFacts DEF IInv, Typed
  <1>3. ASSUME NEW r \in Trainers PROVE TrainerOK(r)'
    BY <1>1 DEF IInv, TrainerOK
  <1>4. ASSUME NEW k \in DOMAIN jobs' PROVE JobOK(k)'
    BY <1>1 DEF IInv, JobOK, Sole, TrainersOf
  <1> QED BY <1>2, <1>3, <1>4 DEF IInv

LEMMA NothingStep ==
  ASSUME IInv, NEW c \in Clients, NothingToDo(c)
  PROVE  IInv'
  <1>1. Returns(c) /\ UNCHANGED <<jobs, used, trainer>>
    BY DEF NothingToDo
  <1>2. Typed' /\ CallsOK'
    BY <1>1, ReturnFacts DEF IInv, Typed
  <1>3. ASSUME NEW r \in Trainers PROVE TrainerOK(r)'
    BY <1>1, ReturnFacts DEF IInv, TrainerOK
  <1>4. ASSUME NEW k \in DOMAIN jobs' PROVE JobOK(k)'
    BY <1>1, ReturnFacts DEF IInv, JobOK, Sole, TrainersOf
  <1> QED BY <1>2, <1>3, <1>4 DEF IInv

\* pause_job, resume_job and cancel_job.
LEMMA StatusStep ==
  ASSUME IInv, NEW c \in Clients, Returns(c), UNCHANGED <<used, trainer>>,
         NEW statuses \in SUBSET {"Pending", "Running", "Paused"},
         NEW status \in {"Running", "Paused", "Cancelled"},
         Has(c, statuses), SetStatus(call[c].job, status),
         status \in {"Running", "Paused"} => "Pending" \notin statuses
  PROVE  IInv'
  <1>1. PICK j \in DOMAIN jobs : j = call[c].job
    BY DEF Has
  <1>2. /\ jobs[j].status \in statuses /\ jobs[j] \in Job
        /\ jobs' = [jobs EXCEPT ![j] = [jobs[j] EXCEPT !.status = status]]
    BY <1>1 DEF Has, SetStatus, IInv, Typed
  <1>3. /\ DOMAIN jobs' = DOMAIN jobs /\ jobs' \in [DOMAIN jobs -> Job]
        /\ jobs'[j].status = status /\ jobs'[j].epoch = jobs[j].epoch
        /\ \A k \in DOMAIN jobs : k # j => jobs'[k] = jobs[k]
    BY <1>2 DEF IInv, Typed, Job
  <1>4. Typed' /\ CallsOK'
    BY <1>3, ReturnFacts DEF IInv, Typed
  <1>5. ASSUME NEW r \in Trainers PROVE TrainerOK(r)'
    BY <1>3, ReturnFacts DEF IInv, TrainerOK
  <1>6. ASSUME NEW k \in DOMAIN jobs' PROVE JobOK(k)'
    BY <1>2, <1>3, ReturnFacts DEF IInv, JobOK, Sole, TrainersOf, Final
  <1> QED BY <1>4, <1>5, <1>6 DEF IInv

LEMMA CreateStep ==
  ASSUME IInv, NEW c \in Clients, CreateJob(c)
  PROVE  IInv'
  <1>1. /\ call[c].kind = "create" /\ Returns(c) /\ UNCHANGED trainer
        /\ call[c].job \in Jobs \ used /\ used' = used \cup {call[c].job}
    BY DEF CreateJob, Serves, IInv, CallsOK
  <1>2. PICK j \in Jobs \ used : j = call[c].job
    BY <1>1
  <1> DEFINE new == [status |-> "Pending", epoch |-> 0]
  <1>3. new \in Job /\ new.status = "Pending" /\ new.epoch = 0
    BY Constants DEF Job
  <1>4. /\ DOMAIN jobs' = DOMAIN jobs \cup {j} /\ j \notin DOMAIN jobs
        /\ jobs' = [k \in DOMAIN jobs \cup {j} |-> IF k = j THEN new ELSE jobs[k]]
    BY <1>1, <1>2 DEF CreateJob, IInv, Typed
  <1> HIDE DEF new
  <1>5. jobs'[j] = new /\ \A k \in DOMAIN jobs : jobs'[k] = jobs[k]
    BY <1>4
  <1>6. Typed'
    BY <1>1, <1>2, <1>3, <1>4, ReturnFacts DEF IInv, Typed
  <1>7. CallsOK'
    BY <1>1, <1>2, ReturnFacts DEF IInv, CallsOK, Idle
  <1>8. ASSUME NEW r \in Trainers PROVE TrainerOK(r)'
    <2>1. trainer[r].job # j
      BY <1>2, Constants DEF IInv, TrainerOK
    <2> QED BY <1>1, <1>4, <1>5, <2>1 DEF IInv, TrainerOK
  <1>9. ASSUME NEW k \in DOMAIN jobs' PROVE JobOK(k)'
    <2>1. CASE k = j
      <3>1. \A r \in Trainers : trainer[r].job # j
        BY <1>2, Constants DEF IInv, TrainerOK
      <3>2. \A r \in Trainers : ~Sole(r, j)'
        BY <1>1, <3>1 DEF Sole, TrainersOf
      <3> QED BY <1>3, <1>5, <2>1, <3>2 DEF JobOK
    <2>2. CASE k # j
      BY <1>1, <1>4, <1>5, <2>2 DEF IInv, JobOK, Sole, TrainersOf
    <2> QED BY <2>1, <2>2
  <1> QED BY <1>6, <1>7, <1>8, <1>9 DEF IInv

LEMMA StartStep ==
  ASSUME IInv, NEW c \in Clients, StartJob(c)
  PROVE  IInv'
  <1>1. PICK j \in DOMAIN jobs : j = call[c].job
    BY DEF StartJob, Has
  <1>2. PICK r \in Trainers :
          trainer[r] = Off /\ trainer' = [trainer EXCEPT ![r] = Spawned(j)]
    BY <1>1 DEF StartJob
  <1>3. /\ Returns(c) /\ used' = used
        /\ jobs[j].status \in {"Pending", "Paused"} /\ jobs[j] \in Job
        /\ jobs' = [jobs EXCEPT ![j] = [jobs[j] EXCEPT !.status = "Running"]]
        /\ j \in used /\ j \in Jobs
    BY <1>1 DEF StartJob, Has, Startable, SetStatus, IInv, Typed
  <1>4. /\ DOMAIN jobs' = DOMAIN jobs /\ jobs' \in [DOMAIN jobs -> Job]
        /\ jobs'[j].status = "Running" /\ jobs'[j].epoch = jobs[j].epoch
        /\ \A k \in DOMAIN jobs : k # j => jobs'[k] = jobs[k]
    BY <1>3 DEF IInv, Typed, Job
  <1> DEFINE new == Spawned(j)
  <1>5. /\ new \in TrainerState /\ new.job = j /\ new.epoch = 1
        /\ new.pc = IF Epochs = 0 THEN "finish" ELSE "check"
    BY <1>3 DEF Spawned, TrainerState
  <1> HIDE DEF new
  <1>6. /\ trainer' \in [Trainers -> TrainerState] /\ trainer'[r] = new
        /\ \A s \in Trainers : s # r => trainer'[s] = trainer[s]
    BY <1>2, <1>5 DEF IInv, Typed, new
  <1>8. Typed' /\ CallsOK'
    BY <1>3, <1>4, <1>6, ReturnFacts DEF IInv, Typed
  <1>9. ASSUME NEW s \in Trainers PROVE TrainerOK(s)'
    <2>1. CASE s = r
      BY <1>3, <1>4, <1>5, <1>6, <2>1, Constants DEF TrainerOK
    <2>2. CASE s # r
      BY <1>3, <1>4, <1>6, <2>2, ReturnFacts DEF IInv, TrainerOK
    <2> QED BY <2>1, <2>2
  <1>10. ASSUME NEW k \in DOMAIN jobs' PROVE JobOK(k)'
    <2>0. trainer[r].job = NoJob /\ k # NoJob
      BY <1>2, <1>4, OffState, Constants DEF IInv, Typed
    <2>1. CASE k = j
      <3>1. TrainersOf(j)' # {}
        BY <1>5, <1>6 DEF TrainersOf
      <3>2. ASSUME NEW s \in Trainers, Sole(s, j)' PROVE jobs'[j].epoch <= trainer'[s].epoch
        <4>1. r \in TrainersOf(j)'
          BY <1>5, <1>6 DEF TrainersOf
        <4>2. s = r
          BY <3>2, <4>1 DEF Sole
        <4>3. TrainersOf(j) = {}
          BY <1>6, <2>0, <2>1, <3>2, <4>2 DEF Sole, TrainersOf
        <4>4. jobs[j].status = "Pending"
          BY <1>3, <4>3 DEF IInv, JobOK
        <4>5. jobs[j].epoch = 0
          BY <4>4 DEF IInv, JobOK
        <4> QED BY <1>4, <1>5, <1>6, <4>2, <4>5
      <3> QED BY <1>4, <2>1, <3>1, <3>2 DEF JobOK
    <2>2. CASE k # j
      <3>1. \A s \in Trainers : s \in TrainersOf(k)' <=> s \in TrainersOf(k)
        BY <1>5, <1>6, <2>0, <2>2 DEF TrainersOf
      <3>2. JobOK(k) /\ jobs'[k] = jobs[k] /\ r \notin TrainersOf(k)
        BY <1>4, <2>0, <2>2 DEF IInv, TrainersOf
      <3>3. TrainersOf(k)' = TrainersOf(k)
        BY <3>1 DEF TrainersOf
      <3>4. \A s \in TrainersOf(k) : trainer'[s] = trainer[s]
        BY <1>6, <3>2 DEF TrainersOf
      <3> QED BY <1>3, <3>2, <3>3, <3>4, ReturnFacts DEF JobOK, Sole
    <2> QED BY <2>1, <2>2
  <1> QED BY <1>8, <1>9, <1>10 DEF IInv

LEMMA DeleteStep ==
  ASSUME IInv, NEW c \in Clients, DeleteJob(c)
  PROVE  IInv'
  <1>1. /\ Returns(c) /\ UNCHANGED <<used, trainer>>
        /\ DOMAIN jobs' \subseteq DOMAIN jobs /\ jobs' \in [DOMAIN jobs' -> Job]
        /\ \A k \in DOMAIN jobs' : jobs'[k] = jobs[k]
    BY DEF DeleteJob, IInv, Typed
  <1>2. Typed' /\ CallsOK'
    BY <1>1, ReturnFacts DEF IInv, Typed
  <1>3. ASSUME NEW r \in Trainers PROVE TrainerOK(r)'
    BY <1>1, ReturnFacts DEF IInv, TrainerOK
  <1>4. ASSUME NEW k \in DOMAIN jobs' PROVE JobOK(k)'
    BY <1>1, ReturnFacts DEF IInv, JobOK, Sole, TrainersOf
  <1> QED BY <1>2, <1>3, <1>4 DEF IInv

LEMMA ServeStep ==
  ASSUME IInv, NEW c \in Clients, Serve(c)
  PROVE  IInv'
  <1>1. CASE PauseJob(c)
    BY <1>1, StatusStep DEF PauseJob
  <1>2. CASE ResumeJob(c)
    BY <1>2, StatusStep DEF ResumeJob
  <1>3. CASE CancelJob(c)
    BY <1>3, StatusStep DEF CancelJob, Cancellable
  <1> QED
    BY <1>1, <1>2, <1>3, CreateStep, StartStep, DeleteStep, NothingStep DEF Serve

-----------------------------------------------------------------------------
(* Background tasks *)

\* Task r goes on with its job, or ends when that is final; the jobs stay.
LEMMA TaskStep ==
  ASSUME IInv, NEW r \in Trainers, UNCHANGED <<jobs, used, call, calls>>,
         NEW new \in TrainerState, Becomes(r, new),
         \/ /\ new.job = trainer[r].job /\ new.pc # "off" /\ trainer[r].pc # "off"
            /\ new.epoch >= trainer[r].epoch
            /\ new.pc # "finish" => new.epoch \in 1..Epochs
         \/ new = Off /\ Status(r) \in Final
  PROVE  IInv'
  <1>1. /\ trainer' \in [Trainers -> TrainerState] /\ trainer'[r] = new
        /\ \A s \in Trainers : s # r => trainer'[s] = trainer[s]
        /\ trainer[r] \in TrainerState
    BY DEF IInv, Typed, Becomes
  <1>2. Typed' /\ CallsOK'
    BY <1>1 DEF IInv, Typed, CallsOK
  <1>4. ASSUME NEW s \in Trainers PROVE TrainerOK(s)'
    <2>1. CASE s = r
      BY <1>1, <2>1, OffState DEF IInv, TrainerOK
    <2>2. CASE s # r
      BY <1>1, <2>2 DEF IInv, TrainerOK
    <2> QED BY <2>1, <2>2
  <1>5. ASSUME NEW k \in DOMAIN jobs' PROVE JobOK(k)'
    <2>1. JobOK(k) /\ k \in DOMAIN jobs /\ jobs'[k] = jobs[k] /\ jobs[k].epoch \in Nat /\ k # NoJob
      BY Constants DEF IInv, Typed, Job
    <2>2. CASE new.job = trainer[r].job /\ new.epoch >= trainer[r].epoch
      <3>1. TrainersOf(k)' = TrainersOf(k)
        BY <1>1, <2>2 DEF TrainersOf
      <3>2. \A s \in Trainers : trainer'[s].epoch >= trainer[s].epoch
                                /\ trainer'[s].epoch \in Nat /\ trainer[s].epoch \in Nat
        BY <1>1, <2>2 DEF TrainerState, IInv, Typed
      <3>3. \A s \in Trainers : Sole(s, k)' <=> Sole(s, k)
        BY <3>1 DEF Sole
      <3> QED BY <2>1, <3>1, <3>2, <3>3 DEF JobOK
    <2>3. CASE new = Off /\ Status(r) \in Final
      <3>1. CASE k = trainer[r].job
        <4>1. jobs[k].status \in Final
          BY <2>1, <2>3, <3>1 DEF Status
        <4> QED BY <2>1, <4>1 DEF JobOK, Final
      <3>2. CASE k # trainer[r].job
        <4>1. TrainersOf(k)' = TrainersOf(k) /\ r \notin TrainersOf(k)
          BY <1>1, <2>1, <2>3, <3>2, OffState DEF TrainersOf
        <4>2. \A s \in TrainersOf(k) : trainer'[s] = trainer[s]
          BY <1>1, <4>1 DEF TrainersOf
        <4> QED BY <2>1, <4>1, <4>2 DEF JobOK, Sole
      <3> QED BY <3>1, <3>2
    <2> QED BY <2>2, <2>3
  <1> QED BY <1>2, <1>4, <1>5 DEF IInv

LEMMA UpdateStep ==
  ASSUME IInv, NEW r \in Trainers, Update(r)
  PROVE  IInv'
  <1> DEFINE e == trainer[r].epoch
             k == trainer[r].job
  <1>1. /\ trainer[r].pc = "update" /\ UNCHANGED <<used, call, calls>>
        /\ trainer[r] \in TrainerState /\ e \in 1..Epochs /\ k \in Jobs
    BY Constants DEF Update, HasLock, IInv, Typed, TrainerOK, TrainerState
  <1>2. PICK new \in TrainerState :
          /\ trainer' = [trainer EXCEPT ![r] = new]
          /\ new.job = k /\ new.epoch \in Nat /\ new.epoch >= e
          /\ new.pc \in {"check", "finish"} /\ (new.pc = "check" => new.epoch \in 1..Epochs)
    <2>1. CASE More(r)
      <3> DEFINE new == [trainer[r] EXCEPT !.pc = "check", !.epoch = e + 1]
      <3>1. trainer' = [trainer EXCEPT ![r] = new]
        BY <2>1 DEF Update, Becomes
      <3>2. e + 1 \in 1..Epochs /\ e + 1 \in Nat /\ e + 1 >= e
        BY <1>1, <2>1, Constants DEF More
      <3>3. new \in TrainerState /\ new.job = k /\ new.epoch = e + 1 /\ new.pc = "check"
        BY <1>1, <3>2 DEF TrainerState
      <3> HIDE DEF new
      <3> QED BY <3>1, <3>2, <3>3
    <2>2. CASE ~More(r)
      <3> DEFINE new == [trainer[r] EXCEPT !.pc = "finish"]
      <3>1. trainer' = [trainer EXCEPT ![r] = new]
        BY <2>2 DEF Update, At, Becomes
      <3>2. new \in TrainerState /\ new.job = k /\ new.epoch = e /\ new.pc = "finish"
        BY <1>1 DEF TrainerState
      <3>3. e \in Nat /\ e >= e
        BY <1>1, Constants
      <3> HIDE DEF new
      <3> QED BY <3>1, <3>2, <3>3
    <2> QED BY <2>1, <2>2
  <1>3. /\ trainer' \in [Trainers -> TrainerState] /\ trainer'[r] = new
        /\ \A s \in Trainers : s # r => trainer'[s] = trainer[s]
    BY <1>2 DEF IInv, Typed
  <1>4. /\ DOMAIN jobs' = DOMAIN jobs
        /\ \A j \in DOMAIN jobs :
             /\ jobs[j] \in Job /\ jobs'[j] \in Job /\ jobs'[j].status = jobs[j].status
             /\ jobs'[j].epoch = IF j = k THEN e ELSE jobs[j].epoch
    BY <1>1, Constants DEF Update, IInv, Typed, Job
  <1>5. jobs' \in [DOMAIN jobs' -> Job]
    <2>1. jobs' = [j \in DOMAIN jobs |-> jobs'[j]]
      BY DEF Update
    <2> QED BY <1>4, <2>1
  <1>6. Typed' /\ CallsOK'
    BY <1>1, <1>3, <1>4, <1>5 DEF IInv, Typed, CallsOK
  <1>7. \A j : TrainersOf(j)' = TrainersOf(j)
    BY <1>1, <1>2, <1>3 DEF TrainersOf
  <1>8. ASSUME NEW s \in Trainers PROVE TrainerOK(s)'
    <2>1. CASE s = r
      BY <1>1, <1>2, <1>3, <1>4, <1>7, <2>1, Constants DEF IInv, TrainerOK
    <2>2. CASE s # r
      BY <1>1, <1>3, <1>4, <1>7, <2>2 DEF IInv, TrainerOK
    <2> QED BY <2>1, <2>2
  <1>9. ASSUME NEW j \in DOMAIN jobs' PROVE JobOK(j)'
    <2>1. JobOK(j) /\ j \in DOMAIN jobs
      BY <1>4 DEF IInv
    <2>2. \A s \in Trainers : Sole(s, j)' <=> Sole(s, j)
      BY <1>7 DEF Sole
    <2>3. CASE j = k
      <3>1. jobs[j].status # "Pending"
        BY <1>1, <2>1, <2>3 DEF IInv, TrainerOK
      <3>2. \A s \in Trainers : Sole(s, j) => s = r
        BY <2>3 DEF Sole, TrainersOf
      <3> QED BY <1>2, <1>3, <1>4, <1>7, <2>1, <2>2, <2>3, <3>1, <3>2 DEF JobOK
    <2>4. CASE j # k
      <3>1. \A s \in Trainers : Sole(s, j) => s # r
        BY <2>4 DEF Sole, TrainersOf
      <3> QED BY <1>3, <1>4, <1>7, <2>1, <2>2, <2>4, <3>1 DEF JobOK
    <2> QED BY <2>3, <2>4
  <1> QED BY <1>6, <1>8, <1>9 DEF IInv

LEMMA FinishStep ==
  ASSUME IInv, NEW r \in Trainers, Finish(r)
  PROVE  IInv'
  <1> DEFINE k == trainer[r].job
  <1>1. /\ trainer[r].pc = "finish" /\ UNCHANGED <<used, call, calls>>
        /\ k # NoJob /\ trainer' = [trainer EXCEPT ![r] = Off]
    BY DEF Finish, HasLock, Becomes, IInv, TrainerOK
  <1>2. /\ trainer' \in [Trainers -> TrainerState] /\ trainer'[r] = Off
        /\ \A s \in Trainers : s # r => trainer'[s] = trainer[s]
    BY <1>1, OffState DEF IInv, Typed
  <1>3. /\ DOMAIN jobs' = DOMAIN jobs
        /\ \A j \in DOMAIN jobs :
             /\ jobs'[j] \in Job /\ jobs'[j].epoch = jobs[j].epoch
             /\ jobs'[j].status = IF j = k THEN "Completed" ELSE jobs[j].status
    BY DEF Finish, FinalStatus, IInv, Typed, Job
  <1>4. jobs' \in [DOMAIN jobs' -> Job]
    <2>1. jobs' = [j \in DOMAIN jobs |-> jobs'[j]]
      BY DEF Finish
    <2> QED BY <1>3, <2>1
  <1>5. Typed' /\ CallsOK'
    BY <1>1, <1>2, <1>3, <1>4 DEF IInv, Typed, CallsOK
  <1>7. ASSUME NEW s \in Trainers PROVE TrainerOK(s)'
    <2>1. CASE s = r
      BY <1>2, <2>1, OffState DEF TrainerOK
    <2>2. CASE s # r
      BY <1>1, <1>2, <1>3, <2>2 DEF IInv, TrainerOK
    <2> QED BY <2>1, <2>2
  <1>8. ASSUME NEW j \in DOMAIN jobs' PROVE JobOK(j)'
    <2>1. JobOK(j) /\ j \in DOMAIN jobs /\ j # NoJob
      BY <1>3, Constants DEF IInv, Typed
    <2>2. CASE j = k
      BY <1>3, <2>1, <2>2 DEF JobOK, Final
    <2>3. CASE j # k
      <3>1. TrainersOf(j)' = TrainersOf(j) /\ r \notin TrainersOf(j)
        BY <1>2, <2>1, <2>3, OffState DEF TrainersOf
      <3>2. \A s \in TrainersOf(j) : trainer'[s] = trainer[s]
        BY <1>2, <3>1 DEF TrainersOf
      <3> QED BY <1>3, <2>1, <2>3, <3>1, <3>2 DEF JobOK, Sole
    <2> QED BY <2>2, <2>3
  <1> QED BY <1>5, <1>7, <1>8 DEF IInv

LEMMA TrainStep ==
  ASSUME IInv, NEW r \in Trainers, Train(r)
  PROVE  IInv'
  <1>1. trainer[r] \in TrainerState /\ TrainerOK(r) /\ trainer[r].epoch \in Nat
    BY DEF IInv, Typed, TrainerState
  <1>2. ASSUME NEW pc \in {"check", "paused", "recheck", "train", "update", "finish"},
               At(r, pc), UNCHANGED <<jobs, used, call, calls>>,
               trainer[r].pc \notin {"off", "finish"}
        PROVE  IInv'
    <2> DEFINE new == [trainer[r] EXCEPT !.pc = pc]
    <2>1. /\ new \in TrainerState /\ new.pc = pc /\ new.job = trainer[r].job
          /\ new.epoch = trainer[r].epoch /\ Becomes(r, new)
      BY <1>1, <1>2 DEF TrainerState, At
    <2>2. new.epoch \in 1..Epochs /\ new.epoch >= trainer[r].epoch
      BY <1>1, <1>2, <2>1 DEF TrainerOK
    <2> HIDE DEF new
    <2> QED BY <1>2, <2>1, <2>2, TaskStep
  <1>3. ASSUME Becomes(r, Off), UNCHANGED <<jobs, used, call, calls>>, Status(r) = "Cancelled"
        PROVE  IInv'
    BY <1>3, OffState, TaskStep DEF Final
  <1>4. CASE Ask(r)
    BY <1>4
       DEF Ask, IInv, Typed, CallsOK, TrainerOK, JobOK, Sole, TrainersOf
  <1>5. CASE Check(r)
    BY <1>2, <1>3, <1>5 DEF Check, HasLock, Ends
  <1>6. CASE WakeUp(r)
    BY <1>2, <1>6 DEF WakeUp
  <1>7. CASE Recheck(r)
    BY <1>2, <1>3, <1>7 DEF Recheck, HasLock
  <1>8. CASE TrainEpoch(r)
    BY <1>2, <1>8 DEF TrainEpoch
  <1> QED BY <1>4, <1>5, <1>6, <1>7, <1>8, UpdateStep, FinishStep DEF Train

LEMMA NextIInv == IInv /\ [Next]_vars => IInv'
  <1> SUFFICES ASSUME IInv, [Next]_vars PROVE IInv'
    OBVIOUS
  <1>1. CASE Next
    BY <1>1, ServeStep, CallStep, DropStep, TrainStep DEF Next
  <1>2. CASE UNCHANGED vars
    BY <1>2
       DEF vars, IInv, Typed, CallsOK, TrainerOK, JobOK, Sole, TrainersOf
  <1> QED BY <1>1, <1>2

-----------------------------------------------------------------------------
(* The queue of the lock *)

QueueOK == queue \in Seq(Clients \cup Trainers)

LEMMA RemoveAtIs ==
  ASSUME NEW S, NEW q \in Seq(S), NEW i \in 1..Len(q)
  PROVE  /\ RemoveAt(q, i) \in Seq(S) /\ Len(RemoveAt(q, i)) = Len(q) - 1
         /\ \A j \in 1..(Len(q) - 1) :
              RemoveAt(q, i)[j] = IF j < i THEN q[j] ELSE q[j + 1]
  <1> DEFINE left == SubSeq(q, 1, i - 1)
             right == SubSeq(q, i + 1, Len(q))
  <1>0. Len(q) \in Nat /\ i \in Nat /\ 1 <= i /\ i <= Len(q)
    OBVIOUS
  <1>1. /\ left \in Seq(S) /\ Len(left) = i - 1
        /\ \A j \in 1..(i - 1) : left[j] = q[j]
    <2>1. \A j \in 1..(i - 1) : q[j] \in S
      BY <1>0
    <2>2. i - 1 \in Int /\ 1 \in Int
      BY <1>0
    <2>3. /\ left \in Seq(S)
          /\ Len(left) = IF 1 <= i - 1 THEN (i - 1) - 1 + 1 ELSE 0
          /\ \A j \in 1..((i - 1) - 1 + 1) : left[j] = q[1 + j - 1]
      BY <2>1, <2>2, SubSeqProperties
    <2> QED BY <1>0, <2>3
  <1>2. /\ right \in Seq(S) /\ Len(right) = Len(q) - i
        /\ \A j \in 1..(Len(q) - i) : right[j] = q[i + j]
    <2>1. \A j \in (i + 1)..Len(q) : q[j] \in S
      BY <1>0
    <2>2. i + 1 \in Int /\ Len(q) \in Int
      BY <1>0
    <2>3. /\ right \in Seq(S)
          /\ Len(right) = IF i + 1 <= Len(q) THEN Len(q) - (i + 1) + 1 ELSE 0
          /\ \A j \in 1..(Len(q) - (i + 1) + 1) : right[j] = q[(i + 1) + j - 1]
      BY <2>1, <2>2, SubSeqProperties
    <2> QED BY <1>0, <2>3
  <1>3. RemoveAt(q, i) = left \o right
    BY DEF RemoveAt
  <1> HIDE DEF left, right
  <1>4. /\ left \o right \in Seq(S)
        /\ Len(left \o right) = Len(left) + Len(right)
        /\ \A j \in 1..(Len(left) + Len(right)) :
             (left \o right)[j] = IF j <= Len(left) THEN left[j] ELSE right[j - Len(left)]
    BY <1>1, <1>2, ConcatProperties
  <1>5. ASSUME NEW j \in 1..(Len(q) - 1)
        PROVE  (left \o right)[j] = IF j < i THEN q[j] ELSE q[j + 1]
    <2>0. /\ Len(left) = i - 1 /\ j \in 1..(Len(left) + Len(right)) /\ j \in Nat
          /\ j <= Len(left) <=> j < i
      BY <1>0, <1>1, <1>2
    <2> DEFINE both == left \o right
    <2>1. both[j] = IF j < i THEN left[j] ELSE right[j - (i - 1)]
      <3>1. both[j] = IF j <= Len(left) THEN left[j] ELSE right[j - Len(left)]
        BY <1>4, <2>0
      <3> HIDE DEF both
      <3> QED BY <2>0, <3>1
    <2> HIDE DEF both
    <2>2. CASE j < i
      <3>1. left[j] = q[j]
        BY <1>0, <1>1, <2>2
      <3>2. both[j] = q[j]
        BY <2>1, <2>2, <3>1
      <3> QED BY <2>2, <3>2 DEF both
    <2>3. CASE ~(j < i)
      <3>1. j - (i - 1) \in 1..(Len(q) - i) /\ i + (j - (i - 1)) = j + 1
        BY <1>0, <2>3
      <3>2. right[j - (i - 1)] = q[j + 1]
        BY <1>2, <3>1
      <3>3. both[j] = q[j + 1]
        BY <2>1, <2>3, <3>2
      <3> QED BY <2>3, <3>3 DEF both
    <2> QED BY <2>2, <2>3
  <1>6. /\ RemoveAt(q, i) \in Seq(S) /\ Len(RemoveAt(q, i)) = Len(q) - 1
    BY <1>0, <1>1, <1>2, <1>3, <1>4
  <1> QED BY <1>3, <1>5, <1>6

LEMMA QueueStep == QueueOK /\ [Next]_vars => QueueOK'
  <1> SUFFICES ASSUME QueueOK, [Next]_vars PROVE QueueOK'
    OBVIOUS
  <1>1. ASSUME queue # <<>>, queue' = Tail(queue) PROVE QueueOK'
    BY <1>1 DEF QueueOK
  <1>2. ASSUME NEW p \in Clients \cup Trainers, queue' = Append(queue, p) PROVE QueueOK'
    BY <1>2 DEF QueueOK
  <1>3. ASSUME NEW c \in Clients, Serve(c) PROVE QueueOK'
    BY <1>1, <1>3
       DEF Serve, CreateJob, StartJob, PauseJob, ResumeJob, CancelJob, DeleteJob,
           NothingToDo, Refused, Serves, Returns, Granted
  <1>4. ASSUME NEW c \in Clients, NEW kind \in Kinds, NEW j \in Jobs, Call(c, kind, j)
        PROVE  QueueOK'
    BY <1>2, <1>4 DEF Call
  <1>5. ASSUME NEW r \in Trainers, Train(r) PROVE QueueOK'
    BY <1>1, <1>2, <1>5
       DEF Train, Ask, Check, WakeUp, Recheck, TrainEpoch, Update, Finish, HasLock, Granted
  <1>6. ASSUME NEW c \in Clients, DropCall(c) PROVE QueueOK'
    BY <1>6, RemoveAtIs DEF DropCall, QueueOK
  <1>7. CASE UNCHANGED vars
    BY <1>7 DEF vars, QueueOK
  <1> QED BY <1>3, <1>4, <1>5, <1>6, <1>7 DEF Next

-----------------------------------------------------------------------------
(* TypeOK: types of the jobs, the tasks and the lock's queue; no task trains
   an epoch that the job does not have. *)
THEOREM TypeCorrect == Spec => []TypeOK
  <1>1. Init => IInv /\ QueueOK
    BY InitIInv DEF Init, QueueOK
  <1>2. (IInv /\ QueueOK) /\ [Next]_vars => (IInv /\ QueueOK)'
    BY NextIInv, QueueStep
  <1>3. IInv /\ QueueOK => TypeOK
    BY DEF IInv, Typed, QueueOK, TypeOK
  <1> QED BY <1>1, <1>2, <1>3, PTL DEF Spec

(* RunningJobsAreTrained: a job shown Running or Paused has a background
   task. *)
THEOREM JobsAreTrained == Spec => []RunningJobsAreTrained
  <1>1. Init => IInv
    BY InitIInv
  <1>2. IInv /\ [Next]_vars => IInv'
    BY NextIInv
  <1>3. IInv => RunningJobsAreTrained
    BY DEF IInv, JobOK, RunningJobsAreTrained
  <1> QED BY <1>1, <1>2, <1>3, PTL DEF Spec

-----------------------------------------------------------------------------
(* Steps of jobs *)

\* While a task waits for a resume, whoever gets the lock only reads.
LEMMA ReadersOnly ==
  ASSUME Typed, NEW r \in Trainers, trainer[r].pc = "paused",
         NEW p \in Clients \cup Trainers, Granted(p)
  PROVE  /\ p \in Clients => call[p].kind = "read"
         /\ p \in Trainers => trainer[p].pc \in {"check", "recheck"}
  <1>1. GuardHolders # {}
    BY DEF GuardHolders
  <1>2. Reading(p)
    BY <1>1 DEF Granted
  <1> QED BY <1>2, Constants DEF Reading

(* What ResumeIsHeard's violation comes to, for any number of callers: a task
   that found its job paused keeps its read guard, so that nobody resumes that
   job or changes any other, ever, whoever gives up waiting. *)
THEOREM WaitsForGood ==
  Spec => [][\A r \in Trainers :
               trainer[r].pc = "paused" =>
                 trainer'[r].pc \in {"paused", "recheck"} /\ jobs' = jobs]_vars
  <1> DEFINE Stuck ==
        \A r \in Trainers :
          trainer[r].pc = "paused" =>
            trainer'[r].pc \in {"paused", "recheck"} /\ jobs' = jobs
  <1>1. Init => IInv
    BY InitIInv
  <1>2. IInv /\ [Next]_vars => IInv'
    BY NextIInv
  <1>3. IInv /\ [Next]_vars => [Stuck]_vars
    <2> SUFFICES ASSUME IInv, Next, NEW r \in Trainers, trainer[r].pc = "paused"
                 PROVE  trainer'[r].pc \in {"paused", "recheck"} /\ jobs' = jobs
      OBVIOUS
    <2>0. Typed
      BY DEF IInv
    <2>1. ASSUME NEW c \in Clients, Serve(c)
          PROVE  jobs' = jobs /\ trainer' = trainer
      <3>1. Granted(c)
        BY <2>1 DEF Serve, CreateJob, StartJob, PauseJob, ResumeJob, CancelJob, DeleteJob,
                    NothingToDo, Refused, Serves
      <3>2. call[c].kind = "read"
        BY <2>0, <3>1, ReadersOnly
      <3> QED BY <2>1, <3>2 DEF Serve, CreateJob, StartJob, PauseJob, ResumeJob,
                                CancelJob, DeleteJob, NothingToDo, Serves
    <2>2. ASSUME NEW s \in Trainers, Train(s)
          PROVE  jobs' = jobs /\ trainer'[r].pc \in {"paused", "recheck"}
      <3>1. /\ ~(trainer[s].pc = "update" /\ Granted(s))
            /\ ~(trainer[s].pc = "finish" /\ Granted(s))
        BY <2>0, ReadersOnly
      <3>2. ~Update(s) /\ ~Finish(s)
        BY <3>1 DEF Update, Finish, HasLock
      <3>3. trainer \in [Trainers -> TrainerState]
        BY <2>0 DEF Typed
      <3>4. CASE s = r
        BY <2>2, <3>2, <3>3, <3>4
           DEF Train, Ask, Check, WakeUp, Recheck, TrainEpoch, HasLock, At, Becomes,
               TrainerState
      <3>5. CASE s # r
        BY <2>2, <3>2, <3>3, <3>5
           DEF Train, Ask, Check, WakeUp, Recheck, TrainEpoch, HasLock, At, Becomes
      <3> QED BY <3>4, <3>5
    <2>3. ASSUME NEW c \in Clients, NEW kind \in Kinds, NEW j \in Jobs, Call(c, kind, j)
          PROVE  jobs' = jobs /\ trainer' = trainer
      BY <2>3 DEF Call
    <2>4. ASSUME NEW c \in Clients, DropCall(c) PROVE jobs' = jobs /\ trainer' = trainer
      BY <2>4 DEF DropCall
    <2> QED BY <2>1, <2>2, <2>3, <2>4 DEF Next
  <1> HIDE DEF Stuck
  <1>4. Spec => [][Stuck]_vars
    BY <1>1, <1>2, <1>3, PTL DEF Spec
  <1> QED BY <1>4 DEF Stuck

(* ProgressGoesOn: the progress shown of an unfinished job goes back only
   while two tasks train it. *)
THEOREM ProgressIsKept == Spec => ProgressGoesOn
  <1> DEFINE Kept ==
        \A j \in DOMAIN jobs \cap DOMAIN jobs' :
          jobs'[j].epoch < jobs[j].epoch =>
            \/ jobs[j].status \in Final
            \/ \E r, s \in TrainersOf(j) : r # s
  <1>1. Init => IInv
    BY InitIInv
  <1>2. IInv /\ [Next]_vars => IInv'
    BY NextIInv
  <1>3. IInv /\ [Next]_vars => [Kept]_vars
    <2> SUFFICES ASSUME IInv, Next, NEW j \in DOMAIN jobs \cap DOMAIN jobs',
                        jobs'[j].epoch < jobs[j].epoch, jobs[j].status \notin Final
                 PROVE  \E r, s \in TrainersOf(j) : r # s
      OBVIOUS
    <2>1. jobs[j] \in Job /\ jobs \in [DOMAIN jobs -> Job] /\ JobOK(j)
      BY DEF IInv, Typed
    <2>2. jobs[j].epoch \in Nat /\ jobs'[j].epoch # jobs[j].epoch
      BY <2>1, Constants DEF Job
    <2>3. ASSUME NEW c \in Clients, Serve(c) PROVE FALSE
      <3>1. ASSUME NEW k \in DOMAIN jobs, NEW status, SetStatus(k, status)
            PROVE  jobs'[j].epoch = jobs[j].epoch
        BY <2>1, <3>1 DEF SetStatus, Job
      <3>2. CASE CreateJob(c)
        <4>1. call[c].job # j
          BY <3>2 DEF CreateJob, Serves, IInv, CallsOK, Typed
        <4> QED BY <2>2, <3>2, <4>1 DEF CreateJob
      <3>3. CASE DeleteJob(c)
        BY <2>2, <3>3 DEF DeleteJob
      <3>4. CASE NothingToDo(c)
        BY <2>2, <3>4 DEF NothingToDo
      <3> QED BY <2>2, <2>3, <3>1, <3>2, <3>3, <3>4
              DEF Serve, StartJob, PauseJob, ResumeJob, CancelJob, Has
    <2>4. ASSUME NEW c \in Clients, NEW kind \in Kinds, NEW k \in Jobs, Call(c, kind, k)
          PROVE  FALSE
      BY <2>2, <2>4 DEF Call
    <2>5. ASSUME NEW c \in Clients, DropCall(c) PROVE FALSE
      BY <2>2, <2>5 DEF DropCall
    <2>6. ASSUME NEW r \in Trainers, Train(r) PROVE \E p, q \in TrainersOf(j) : p # q
      <3>1. CASE Update(r)
        <4>1. trainer[r].job = j /\ jobs'[j].epoch = trainer[r].epoch
          BY <2>1, <2>2, <3>1 DEF Update, Job
        <4>2. r \in TrainersOf(j)
          BY <4>1 DEF TrainersOf
        <4>3. ~Sole(r, j)
          <5>1. trainer[r].epoch \in Nat /\ ~(jobs[j].epoch <= trainer[r].epoch)
            BY <2>2, <4>1 DEF IInv, Typed, TrainerState
          <5> QED BY <2>1, <5>1 DEF JobOK
        <4> QED BY <4>2, <4>3 DEF Sole
      <3>2. CASE Finish(r)
        BY <2>1, <2>2, <3>2 DEF Finish, Job
      <3>3. CASE jobs' = jobs
        BY <2>2, <3>3
      <3> QED BY <2>6, <3>1, <3>2, <3>3
              DEF Train, Ask, Check, WakeUp, Recheck, TrainEpoch
    <2> QED BY <2>3, <2>4, <2>5, <2>6 DEF Next
  <1> HIDE DEF Kept
  <1>4. Spec => [][Kept]_vars
    BY <1>1, <1>2, <1>3, PTL DEF Spec
  <1> QED BY <1>4 DEF Kept, ProgressGoesOn

-----------------------------------------------------------------------------
(* JobsFollowLifecycle *)

LEMMA LifecycleInit == Init => Lifecycle!Init
  BY DEF Init, Lifecycle!Init

LEMMA MoveIsLifecycleStep ==
  ASSUME IInv, NEW c \in Clients, used' = used,
         NEW from, NEW to, Has(c, from), SetStatus(call[c].job, to)
  PROVE  Lifecycle!Move(call[c].job, from, to) /\ call[c].job \in Jobs
  BY DEF Has, SetStatus, Lifecycle!Move, Lifecycle!Is, IInv, Typed

LEMMA ServeIsLifecycleStep ==
  ASSUME IInv, NEW c \in Clients, Serve(c)
  PROVE  Lifecycle!Next \/ UNCHANGED <<jobs, used>>
  <1>1. CASE CreateJob(c)
    <2>1. PICK j \in Jobs \ used : j = call[c].job
      BY <1>1 DEF CreateJob, Serves, IInv, CallsOK
    <2>2. /\ used' = used \cup {j}
          /\ jobs' = [k \in DOMAIN jobs \cup {j} |->
                        IF k = j THEN [status |-> "Pending", epoch |-> 0] ELSE jobs[k]]
      BY <1>1, <2>1 DEF CreateJob
    <2>3. Lifecycle!Create(j)
      BY <2>1, <2>2 DEF Lifecycle!Create
    <2> QED BY <2>1, <2>3 DEF Lifecycle!Next
  <1>2. CASE StartJob(c)
    BY <1>2, MoveIsLifecycleStep
       DEF StartJob, Serves, Startable, Lifecycle!Run, Lifecycle!Next
  <1>3. CASE PauseJob(c)
    BY <1>3, MoveIsLifecycleStep DEF PauseJob, Serves, Lifecycle!Pause, Lifecycle!Next
  <1>4. CASE ResumeJob(c)
    <2>1. used' = used /\ Has(c, {"Pending", "Paused"})
          /\ SetStatus(call[c].job, "Running")
      BY <1>4 DEF ResumeJob, Serves, Has
    <2> QED BY <2>1, MoveIsLifecycleStep DEF Lifecycle!Run, Lifecycle!Next
  <1>5. CASE CancelJob(c)
    BY <1>5, MoveIsLifecycleStep
       DEF CancelJob, Serves, Cancellable, Lifecycle!Cancel, Lifecycle!Next
  <1>6. CASE DeleteJob(c)
    <2>1. used' = used /\ call[c].job \in Jobs
      BY <1>6 DEF DeleteJob, Has, IInv, Typed
    <2>2. Lifecycle!Delete(call[c].job)
      BY <1>6, <2>1 DEF DeleteJob, Has, Deletable, Lifecycle!Delete, Lifecycle!Is
    <2> QED BY <2>1, <2>2 DEF Lifecycle!Next
  <1>7. CASE NothingToDo(c)
    BY <1>7 DEF NothingToDo
  <1> QED BY <1>1, <1>2, <1>3, <1>4, <1>5, <1>6, <1>7 DEF Serve

LEMMA TrainIsLifecycleStep ==
  ASSUME IInv, NEW r \in Trainers, Train(r)
  PROVE  Lifecycle!Next \/ UNCHANGED <<jobs, used>>
  <1> DEFINE j == trainer[r].job
  <1>1. used' = used
    BY DEF Train, Ask, Check, WakeUp, Recheck, TrainEpoch, Update, Finish, HasLock
  <1>2. jobs \in [DOMAIN jobs -> Job] /\ DOMAIN jobs \subseteq Jobs
    BY DEF IInv, Typed
  <1>3. CASE Update(r)
    <2>1. /\ trainer[r].pc = "update" /\ trainer[r].epoch \in 1..Epochs
          /\ jobs' = [k \in DOMAIN jobs |->
                        IF k = j THEN [jobs[k] EXCEPT !.epoch = trainer[r].epoch]
                                 ELSE jobs[k]]
      BY <1>3 DEF Update, HasLock, IInv, TrainerOK
    <2>2. CASE j \in DOMAIN jobs
      <3>1. jobs[j].status # "Pending"
        BY <2>1, <2>2 DEF IInv, TrainerOK
      <3>2. jobs[j].status \in {"Running", "Paused", "Completed", "Cancelled"}
        BY <1>2, <2>2, <3>1 DEF Job
      <3>3. jobs' = [jobs EXCEPT ![j] = [@ EXCEPT !.epoch = trainer[r].epoch]]
        BY <1>2, <2>1, <2>2
      <3>4. Lifecycle!Progress(j)
        BY <1>1, <2>1, <2>2, <3>2, <3>3 DEF Lifecycle!Progress, Lifecycle!Is
      <3> QED BY <1>2, <2>2, <3>4 DEF Lifecycle!Next
    <2>3. CASE j \notin DOMAIN jobs
      BY <1>1, <1>2, <2>1, <2>3
    <2> QED BY <2>2, <2>3
  <1>4. CASE Finish(r)
    <2>1. /\ trainer[r].pc = "finish"
          /\ jobs' = [k \in DOMAIN jobs |->
                        IF k = j THEN [jobs[k] EXCEPT !.status = "Completed"] ELSE jobs[k]]
      BY <1>4 DEF Finish, HasLock, FinalStatus
    <2>2. CASE j \in DOMAIN jobs /\ jobs[j].status # "Completed"
      <3>1. jobs[j].status # "Pending"
        BY <2>1, <2>2 DEF IInv, TrainerOK
      <3>2. jobs[j].status \in {"Running", "Paused", "Cancelled"}
        BY <1>2, <2>2, <3>1 DEF Job
      <3>3. jobs' = [jobs EXCEPT ![j] = [@ EXCEPT !.status = "Completed"]]
        BY <1>2, <2>1, <2>2
      <3>4. Lifecycle!Complete(j)
        BY <1>1, <2>2, <3>2, <3>3
           DEF Lifecycle!Complete, Lifecycle!Move, Lifecycle!Is
      <3> QED BY <1>2, <2>2, <3>4 DEF Lifecycle!Next
    <2>3. CASE j \in DOMAIN jobs /\ jobs[j].status = "Completed"
      <3>1. [jobs[j] EXCEPT !.status = "Completed"] = jobs[j]
        BY <1>2, <2>3 DEF Job
      <3> QED BY <1>1, <1>2, <2>1, <3>1
    <2>4. CASE j \notin DOMAIN jobs
      BY <1>1, <1>2, <2>1, <2>4
    <2> QED BY <2>2, <2>3, <2>4
  <1>5. CASE jobs' = jobs
    BY <1>1, <1>5
  <1> QED BY <1>3, <1>4, <1>5 DEF Train, Ask, Check, WakeUp, Recheck, TrainEpoch

LEMMA NextIsLifecycleStep ==
  IInv /\ [Next]_vars => [Lifecycle!Next]_(Lifecycle!vars)
  <1> SUFFICES ASSUME IInv, [Next]_vars
               PROVE  Lifecycle!Next \/ UNCHANGED <<jobs, used>>
    BY DEF Lifecycle!vars
  <1>1. ASSUME NEW c \in Clients, DropCall(c) \/ \E kind \in Kinds, j \in Jobs : Call(c, kind, j)
        PROVE  UNCHANGED <<jobs, used>>
    BY <1>1 DEF Call, DropCall
  <1>2. CASE UNCHANGED vars
    BY <1>2 DEF vars
  <1> QED BY <1>1, <1>2, ServeIsLifecycleStep, TrainIsLifecycleStep DEF Next

(* JobsFollowLifecycle: whatever clients and background tasks do, each job
   goes through the life that JobLifecycle specifies. *)
THEOREM ImplementsLifecycle == Spec => JobsFollowLifecycle
  <1>1. Init => IInv
    BY InitIInv
  <1>2. IInv /\ [Next]_vars => IInv'
    BY NextIInv
  <1>3. Init => Lifecycle!Init
    BY LifecycleInit
  <1>4. IInv /\ [Next]_vars => [Lifecycle!Next]_(Lifecycle!vars)
    BY NextIsLifecycleStep
  <1> QED BY <1>1, <1>2, <1>3, <1>4, PTL DEF Spec, JobsFollowLifecycle, Lifecycle!Spec

-----------------------------------------------------------------------------
(* What TrainingEnds rests on, but for the fairness: the lock is passed on   *)
(* unless a task waits for a resume, and the steps of a task run out.        *)

\* Who must be in the lock's queue, and who may.
MustWait(p) ==
  \/ p \in Clients /\ call[p].kind # "none"
  \/ p \in Trainers /\ trainer[p].pc \in {"recheck", "update"}
MayWait(p) ==
  MustWait(p) \/ (p \in Trainers /\ trainer[p].pc \in {"check", "finish"})

Distinct(q) == \A i, j \in 1..Len(q) : q[i] = q[j] => i = j

QueueFits ==
  /\ queue \in Seq(Clients \cup Trainers) /\ Distinct(queue)
  /\ \A p \in Clients \cup Trainers : (MustWait(p) => Queued(p)) /\ (Queued(p) => MayWait(p))

\* Whoever is first in the queue has a step to take, unless it writes while a
\* task waits for a resume; start_job has one when a task can be spawned.
HasStep(p) ==
  \/ /\ p \in Clients /\ call[p].kind \in Kinds /\ Granted(p)
     /\ call[p].kind = "start" /\ Has(p, Startable) => \E r \in Trainers : trainer[r] = Off
  \/ /\ p \in Trainers /\ trainer[p].pc \in {"check", "recheck", "update", "finish"}
     /\ Granted(p)

AllBusy == \A r \in Trainers : trainer[r] # Off

OnlyResumesBlock ==
  queue # <<>> =>
    LET first == Head(queue)
    IN \/ HasStep(first)
       \/ GuardHolders # {} /\ ~Reading(first)
       \/ AllBusy /\ first \in Clients /\ call[first].kind = "start"

\* How many steps a task has left at most, waits for a resume not counted.
StepsLeft(r) ==
  LET epochs == 5 * (Epochs - trainer[r].epoch)
  IN CASE trainer[r].pc = "check" -> epochs + (IF Queued(r) THEN 6 ELSE 7)
       [] trainer[r].pc \in {"paused", "recheck"} -> epochs + 5
       [] trainer[r].pc = "train" -> epochs + 4
       [] trainer[r].pc = "update" -> epochs + 3
       [] trainer[r].pc = "finish" -> IF Queued(r) THEN 1 ELSE 2
       [] OTHER -> 0

StillPaused(r) ==
  trainer[r].pc \in {"paused", "recheck"} /\ trainer'[r].pc \in {"paused", "recheck"}

StepsRunOut ==
  \A r \in Trainers :
    /\ StepsLeft(r)' \in Nat
    /\ Train(r) => StepsLeft(r)' < StepsLeft(r) \/ (StillPaused(r) /\ StepsLeft(r)' = StepsLeft(r))
    /\ ~Train(r) => StepsLeft(r)' = StepsLeft(r) \/ trainer[r].pc = "off"

LEMMA Joins ==
  ASSUME NEW p \in Clients \cup Trainers, queue \in Seq(Clients \cup Trainers),
         Distinct(queue), ~Queued(p), queue' = Append(queue, p)
  PROVE  /\ Distinct(queue)' /\ Queued(p)'
         /\ \A u : u # p => (Queued(u)' <=> Queued(u))
  <1>1. /\ Len(queue) \in Nat /\ Len(queue') = Len(queue) + 1
        /\ \A i \in 1..Len(queue) : queue'[i] = queue[i]
        /\ queue'[Len(queue) + 1] = p
    OBVIOUS
  <1>2. /\ \A i \in 1..(Len(queue) + 1) : i \in 1..Len(queue) \/ i = Len(queue) + 1
        /\ \A i \in 1..Len(queue) : i \in 1..(Len(queue) + 1)
        /\ Len(queue) + 1 \in 1..(Len(queue) + 1)
    BY <1>1
  <1>3. Distinct(queue)'
    BY <1>1, <1>2 DEF Distinct, Queued
  <1>4. Queued(p)'
    BY <1>1, <1>2 DEF Queued
  <1>5. ASSUME NEW u, u # p PROVE Queued(u)' <=> Queued(u)
    BY <1>1, <1>2, <1>5 DEF Queued
  <1> QED BY <1>3, <1>4, <1>5

LEMMA Leaves ==
  ASSUME NEW p, queue \in Seq(Clients \cup Trainers), Distinct(queue), Granted(p),
         queue' = Tail(queue)
  PROVE  /\ Distinct(queue)' /\ Queued(p) /\ ~Queued(p)'
         /\ \A u : u # p => (Queued(u)' <=> Queued(u))
  <1>1. /\ Len(queue) \in Nat \ {0} /\ Len(queue') = Len(queue) - 1 /\ queue[1] = p
        /\ \A i \in 1..(Len(queue) - 1) : queue'[i] = queue[i + 1]
    BY DEF Granted
  <1>2. /\ \A i \in 1..(Len(queue) - 1) : i + 1 \in 1..Len(queue) /\ i + 1 # 1
        /\ \A i \in 1..Len(queue) :
             i # 1 => i - 1 \in 1..(Len(queue) - 1) /\ (i - 1) + 1 = i
        /\ \A i, j \in 1..(Len(queue) - 1) : i + 1 = j + 1 => i = j
        /\ 1 \in 1..Len(queue)
    BY <1>1
  <1>3. Distinct(queue)'
    BY <1>1, <1>2 DEF Distinct
  <1>4. Queued(p) /\ ~Queued(p)'
    BY <1>1, <1>2 DEF Distinct, Queued
  <1>5. ASSUME NEW u, u # p PROVE Queued(u)' <=> Queued(u)
    <2>1. Queued(u)' => Queued(u)
      BY <1>1, <1>2 DEF Queued
    <2>2. ASSUME Queued(u) PROVE Queued(u)'
      <3>1. PICK i \in 1..Len(queue) : queue[i] = u
        BY <2>2 DEF Queued
      <3>2. i - 1 \in 1..Len(queue') /\ queue'[i - 1] = u
        BY <1>1, <1>2, <1>5, <3>1
      <3> QED BY <3>2 DEF Queued
    <2> QED BY <2>1, <2>2
  <1> QED BY <1>3, <1>4, <1>5

\* A client that gives up leaves the queue from wherever it is in it.
LEMMA GivesUp ==
  ASSUME Typed, NEW c \in Clients, DropCall(c), queue \in Seq(Clients \cup Trainers),
         Distinct(queue)
  PROVE  /\ Distinct(queue)' /\ Queued(c) /\ ~Queued(c)'
         /\ \A u : u # c => (Queued(u)' <=> Queued(u))
         /\ queue' \in Seq(Clients \cup Trainers)
         /\ trainer' = trainer /\ call'[c].kind = "none"
         /\ \A d \in Clients : d # c => call'[d] = call[d]
  <1>1. PICK i \in 1..Len(queue) : queue[i] = c /\ queue' = RemoveAt(queue, i)
    BY DEF DropCall
  <1> DEFINE at(j) == IF j < i THEN j ELSE j + 1
  <1>2. /\ queue' \in Seq(Clients \cup Trainers) /\ Len(queue) \in Nat
        /\ Len(queue') = Len(queue) - 1
        /\ \A j \in 1..(Len(queue) - 1) : queue'[j] = queue[at(j)]
    <2>1. /\ RemoveAt(queue, i) \in Seq(Clients \cup Trainers)
          /\ Len(RemoveAt(queue, i)) = Len(queue) - 1
          /\ \A j \in 1..(Len(queue) - 1) :
               RemoveAt(queue, i)[j] = IF j < i THEN queue[j] ELSE queue[j + 1]
      BY RemoveAtIs
    <2> QED BY <1>1, <2>1
  <1>3. \A j \in 1..(Len(queue) - 1) : at(j) \in 1..Len(queue) /\ at(j) # i
    BY <1>2
  <1>4. \A j, k \in 1..(Len(queue) - 1) : at(j) = at(k) => j = k
    BY <1>2
  <1>5. \A j \in 1..Len(queue) : j # i => \E k \in 1..(Len(queue) - 1) : at(k) = j
    <2> SUFFICES ASSUME NEW j \in 1..Len(queue), j # i
                 PROVE  \E k \in 1..(Len(queue) - 1) : at(k) = j
      OBVIOUS
    <2>1. CASE j < i
      <3>1. j \in 1..(Len(queue) - 1) /\ at(j) = j
        BY <1>2, <2>1
      <3> QED BY <3>1
    <2>2. CASE ~(j < i)
      <3>1. j - 1 \in 1..(Len(queue) - 1) /\ at(j - 1) = j
        BY <1>2, <2>2
      <3> QED BY <3>1
    <2> QED BY <2>1, <2>2
  <1> HIDE DEF at
  <1>6. Distinct(queue)'
    <2> SUFFICES ASSUME NEW j \in 1..(Len(queue) - 1), NEW k \in 1..(Len(queue) - 1),
                        queue'[j] = queue'[k]
                 PROVE  j = k
      BY <1>2 DEF Distinct
    <2>1. queue[at(j)] = queue[at(k)] /\ at(j) \in 1..Len(queue) /\ at(k) \in 1..Len(queue)
      BY <1>2, <1>3
    <2>2. at(j) = at(k)
      BY <2>1 DEF Distinct
    <2> QED BY <1>4, <2>2
  <1>7. Queued(c) /\ ~Queued(c)'
    <2>1. \A j \in 1..(Len(queue) - 1) : queue'[j] # c
      BY <1>1, <1>2, <1>3 DEF Distinct
    <2> QED BY <1>1, <1>2, <2>1 DEF Queued
  <1>8. ASSUME NEW u, u # c PROVE Queued(u)' <=> Queued(u)
    <2>1. Queued(u)' => Queued(u)
      BY <1>2, <1>3 DEF Queued
    <2>2. ASSUME Queued(u) PROVE Queued(u)'
      <3>1. PICK j \in 1..Len(queue) : queue[j] = u
        BY <2>2 DEF Queued
      <3>2. PICK k \in 1..(Len(queue) - 1) : at(k) = j
        BY <1>1, <1>5, <1>8, <3>1
      <3> QED BY <1>2, <3>1, <3>2 DEF Queued
    <2> QED BY <2>1, <2>2
  <1>9. /\ trainer' = trainer /\ call'[c].kind = "none"
        /\ \A d \in Clients : d # c => call'[d] = call[d]
    BY DEF DropCall, Typed, Idle
  <1> QED BY <1>2, <1>6, <1>7, <1>8, <1>9

\* A client that is served leaves the queue; it may leave a new task behind.
LEMMA ServeMoves ==
  ASSUME Typed, NEW c \in Clients, Serve(c)
  PROVE  /\ Granted(c) /\ queue' = Tail(queue) /\ call'[c].kind = "none"
         /\ \A d \in Clients : d # c => call'[d] = call[d]
         /\ \A r \in Trainers :
              \/ trainer'[r] = trainer[r]
              \/ /\ trainer[r].pc = "off" /\ trainer'[r].pc \in {"check", "finish"}
                 /\ trainer'[r].epoch = 1 /\ (trainer'[r].pc = "check" => Epochs # 0)
  <1>1. Granted(c) /\ Returns(c)
    BY DEF Serve, CreateJob, StartJob, PauseJob, ResumeJob, CancelJob, DeleteJob,
           NothingToDo, Refused, Serves
  <1>2. /\ queue' = Tail(queue) /\ call'[c].kind = "none"
        /\ \A d \in Clients : d # c => call'[d] = call[d]
    BY <1>1 DEF Returns, Typed, Idle
  <1>3. CASE StartJob(c)
    <2>1. PICK r \in Trainers :
            /\ trainer[r] = Off
            /\ trainer' = [trainer EXCEPT ![r] = Spawned(call[c].job)]
      BY <1>3 DEF StartJob
    <2>2. /\ trainer'[r] = Spawned(call[c].job)
          /\ \A s \in Trainers : s # r => trainer'[s] = trainer[s]
      BY <2>1 DEF Typed
    <2>3. /\ trainer[r].pc = "off" /\ trainer'[r].pc \in {"check", "finish"}
          /\ trainer'[r].epoch = 1 /\ (trainer'[r].pc = "check" => Epochs # 0)
      BY <2>1, <2>2 DEF Spawned, Off
    <2> QED BY <1>1, <1>2, <2>2, <2>3
  <1>4. CASE ~StartJob(c)
    <2>1. trainer' = trainer
      BY <1>4 DEF Serve, CreateJob, PauseJob, ResumeJob, CancelJob, DeleteJob, NothingToDo
    <2> QED BY <1>1, <1>2, <2>1
  <1> QED BY <1>3, <1>4

\* A task that asks for the lock, or that has it and gives it back.
AsksForLock(r) ==
  /\ queue' = Append(queue, r)
  /\ \/ /\ trainer[r].pc \in {"check", "finish"} /\ ~Queued(r)
        /\ trainer'[r] = trainer[r]
     \/ /\ trainer[r].pc = "paused" /\ trainer'[r].pc = "recheck"
        /\ trainer'[r].epoch = trainer[r].epoch
     \/ /\ trainer[r].pc = "train" /\ trainer'[r].pc = "update"
        /\ trainer'[r].epoch = trainer[r].epoch

GivesLockBack(r) ==
  /\ Granted(r) /\ queue' = Tail(queue)
  /\ \/ /\ trainer[r].pc \in {"check", "recheck"} /\ trainer'[r].pc \in {"paused", "train"}
        /\ trainer'[r].epoch = trainer[r].epoch
     \/ trainer[r].pc \in {"check", "recheck", "finish"} /\ trainer'[r].pc = "off"
     \/ /\ trainer[r].pc = "update" /\ trainer'[r].pc = "check" /\ trainer[r].epoch < Epochs
        /\ trainer'[r].epoch = trainer[r].epoch + 1
     \/ trainer[r].pc = "update" /\ trainer'[r].pc = "finish"

LEMMA TrainMoves ==
  ASSUME Typed, NEW r \in Trainers, Train(r)
  PROVE  /\ AsksForLock(r) \/ GivesLockBack(r)
         /\ call' = call /\ \A s \in Trainers : s # r => trainer'[s] = trainer[s]
  <1>0. trainer \in [Trainers -> TrainerState] /\ trainer[r] \in TrainerState
    BY DEF Typed
  <1>1. ASSUME NEW new, Becomes(r, new)
        PROVE  trainer'[r] = new /\ \A s \in Trainers : s # r => trainer'[s] = trainer[s]
    BY <1>0, <1>1 DEF Becomes
  <1>2. ASSUME NEW pc, At(r, pc)
        PROVE  /\ trainer'[r].pc = pc /\ trainer'[r].epoch = trainer[r].epoch
               /\ \A s \in Trainers : s # r => trainer'[s] = trainer[s]
    <2>1. trainer'[r] = [trainer[r] EXCEPT !.pc = pc]
      BY <1>1, <1>2 DEF At
    <2> QED BY <1>0, <1>1, <1>2, <2>1 DEF At, TrainerState
  <1>3. CASE Ask(r)
    BY <1>3 DEF Ask, AsksForLock
  <1>4. CASE WakeUp(r)
    BY <1>2, <1>4 DEF WakeUp, AsksForLock
  <1>5. CASE TrainEpoch(r)
    BY <1>2, <1>5 DEF TrainEpoch, AsksForLock
  <1>6. CASE Check(r)
    BY <1>1, <1>2, <1>6, OffState DEF Check, HasLock, GivesLockBack
  <1>7. CASE Recheck(r)
    BY <1>1, <1>2, <1>7, OffState DEF Recheck, HasLock, GivesLockBack
  <1>8. CASE Update(r)
    <2>1. CASE More(r)
      <3> DEFINE new == [trainer[r] EXCEPT !.pc = "check", !.epoch = @ + 1]
      <3>1. Becomes(r, new)
        BY <1>8, <2>1 DEF Update
      <3>2. new.pc = "check" /\ new.epoch = trainer[r].epoch + 1
        BY <1>0 DEF TrainerState
      <3> HIDE DEF new
      <3>3. /\ trainer'[r].pc = "check" /\ trainer'[r].epoch = trainer[r].epoch + 1
            /\ \A s \in Trainers : s # r => trainer'[s] = trainer[s]
        BY <1>1, <3>1, <3>2
      <3> QED BY <1>8, <2>1, <3>3 DEF Update, HasLock, GivesLockBack, More
    <2>2. CASE ~More(r)
      BY <1>2, <1>8, <2>2 DEF Update, HasLock, GivesLockBack
    <2> QED BY <2>1, <2>2
  <1>9. CASE Finish(r)
    BY <1>1, <1>9, OffState DEF Finish, HasLock, GivesLockBack
  <1> QED BY <1>3, <1>4, <1>5, <1>6, <1>7, <1>8, <1>9 DEF Train

LEMMA CallMoves ==
  ASSUME Typed, NEW c \in Clients, NEW kind \in Kinds, NEW j \in Jobs, Call(c, kind, j)
  PROVE  /\ call[c].kind = "none" /\ call'[c].kind = kind /\ kind # "none"
         /\ \A d \in Clients : d # c => call'[d] = call[d]
         /\ trainer' = trainer /\ queue' = Append(queue, c)
  BY DEF Typed, Call, Kinds, Writes

LEMMA NextFits ==
  ASSUME IInv, QueueFits, [Next]_vars
  PROVE  QueueFits'
  <1>0. Typed /\ Clients \cap Trainers = {} /\ queue \in Seq(Clients \cup Trainers)
        /\ Distinct(queue)
    BY Constants DEF IInv, QueueFits
  <1>1. queue' \in Seq(Clients \cup Trainers)
    BY <1>0, QueueStep DEF QueueOK
  <1>2. ASSUME NEW c \in Clients, Serve(c)
        PROVE  QueueFits'
    <2>1. /\ Distinct(queue)' /\ ~Queued(c)' /\ \A u : u # c => (Queued(u)' <=> Queued(u))
      BY <1>0, <1>2, ServeMoves, Leaves
    <2>2. ~MustWait(c)'
      BY <1>0, <1>2, ServeMoves DEF MustWait
    <2>3. ASSUME NEW p \in Clients \cup Trainers, p # c
          PROVE  (MustWait(p)' => Queued(p)') /\ (Queued(p)' => MayWait(p)')
      BY <1>0, <1>2, <2>1, <2>3, ServeMoves DEF MustWait, MayWait, QueueFits
    <2> QED BY <1>1, <2>1, <2>2, <2>3 DEF QueueFits
  <1>3. ASSUME NEW c \in Clients, NEW kind \in Kinds, NEW j \in Jobs, Call(c, kind, j)
        PROVE  QueueFits'
    <2>1. ~Queued(c)
      BY <1>0, <1>3, CallMoves DEF QueueFits, MayWait, MustWait
    <2>2. /\ Distinct(queue)' /\ Queued(c)' /\ \A u : u # c => (Queued(u)' <=> Queued(u))
      BY <1>0, <1>3, <2>1, CallMoves, Joins
    <2>3. MayWait(c)'
      BY <1>0, <1>3, CallMoves DEF MayWait, MustWait
    <2>4. ASSUME NEW p \in Clients \cup Trainers, p # c
          PROVE  (MustWait(p)' => Queued(p)') /\ (Queued(p)' => MayWait(p)')
      BY <1>0, <1>3, <2>2, <2>4, CallMoves DEF MustWait, MayWait, QueueFits
    <2> QED BY <1>1, <2>2, <2>3, <2>4 DEF QueueFits
  <1>4. ASSUME NEW r \in Trainers, Train(r), AsksForLock(r)
        PROVE  QueueFits'
    <2>1. ~Queued(r)
      BY <1>0, <1>4 DEF AsksForLock, QueueFits, MayWait, MustWait
    <2>2. /\ Distinct(queue)' /\ Queued(r)' /\ \A u : u # r => (Queued(u)' <=> Queued(u))
      BY <1>0, <1>4, <2>1, Joins DEF AsksForLock
    <2>3. MayWait(r)'
      BY <1>4 DEF AsksForLock, MayWait, MustWait
    <2>4. ASSUME NEW p \in Clients \cup Trainers, p # r
          PROVE  (MustWait(p)' => Queued(p)') /\ (Queued(p)' => MayWait(p)')
      BY <1>0, <1>4, <2>2, <2>4, TrainMoves DEF MustWait, MayWait, QueueFits
    <2> QED BY <1>1, <2>2, <2>3, <2>4 DEF QueueFits
  <1>5. ASSUME NEW r \in Trainers, Train(r), GivesLockBack(r)
        PROVE  QueueFits'
    <2>1. /\ Distinct(queue)' /\ ~Queued(r)' /\ \A u : u # r => (Queued(u)' <=> Queued(u))
      BY <1>0, <1>5, Leaves DEF GivesLockBack
    <2>2. ~MustWait(r)'
      BY <1>0, <1>5 DEF GivesLockBack, MustWait
    <2>3. ASSUME NEW p \in Clients \cup Trainers, p # r
          PROVE  (MustWait(p)' => Queued(p)') /\ (Queued(p)' => MayWait(p)')
      BY <1>0, <1>5, <2>1, <2>3, TrainMoves DEF MustWait, MayWait, QueueFits
    <2> QED BY <1>1, <2>1, <2>2, <2>3 DEF QueueFits
  <1>6. ASSUME NEW c \in Clients, DropCall(c)
        PROVE  QueueFits'
    <2>1. /\ Distinct(queue)' /\ ~Queued(c)' /\ \A u : u # c => (Queued(u)' <=> Queued(u))
          /\ trainer' = trainer /\ call'[c].kind = "none"
          /\ \A d \in Clients : d # c => call'[d] = call[d]
      BY <1>0, <1>6, GivesUp
    <2>2. ~MustWait(c)'
      BY <1>0, <2>1 DEF MustWait
    <2>3. ASSUME NEW p \in Clients \cup Trainers, p # c
          PROVE  (MustWait(p)' => Queued(p)') /\ (Queued(p)' => MayWait(p)')
      BY <1>0, <2>1, <2>3 DEF MustWait, MayWait, QueueFits
    <2> QED BY <1>1, <2>1, <2>2, <2>3 DEF QueueFits
  <1>7. CASE UNCHANGED vars
    BY <1>7 DEF vars, QueueFits, Distinct, Queued, MustWait, MayWait
  <1> QED BY <1>0, <1>2, <1>3, <1>4, <1>5, <1>6, <1>7, TrainMoves DEF Next

LEMMA FitsMeansSteps ==
  ASSUME IInv, QueueFits
  PROVE  OnlyResumesBlock
  <1> SUFFICES ASSUME queue # <<>>, ~(GuardHolders # {} /\ ~Reading(Head(queue)))
               PROVE  \/ HasStep(Head(queue))
                      \/ /\ AllBusy /\ Head(queue) \in Clients
                         /\ call[Head(queue)].kind = "start"
    BY DEF OnlyResumesBlock
  <1> DEFINE p == Head(queue)
  <1>1. p \in Clients \cup Trainers /\ Queued(p)
    <2>1. Len(queue) \in Nat \ {0} /\ p = queue[1] /\ 1 \in 1..Len(queue)
          /\ queue[1] \in Clients \cup Trainers
      BY DEF QueueFits
    <2> QED BY <2>1 DEF Queued
  <1>2. Granted(p)
    BY DEF Granted
  <1>3. MayWait(p)
    BY <1>1 DEF QueueFits
  <1> HIDE DEF p
  <1>4. CASE p \in Clients
    <2>1. call[p].kind \in Kinds
      BY <1>3, <1>4, Constants DEF MayWait, MustWait, IInv, Typed
    <2> QED BY <1>2, <1>4, <2>1 DEF HasStep, AllBusy, p
  <1>5. CASE p \in Trainers /\ p \notin Clients
    BY <1>2, <1>3, <1>5 DEF HasStep, MayWait, MustWait, p
  <1> QED BY <1>1, <1>4, <1>5

LEMMA StepsLeftIsNat ==
  ASSUME IInv, NEW r \in Trainers
  PROVE  StepsLeft(r) \in Nat
  <1>1. /\ trainer[r].pc \notin {"off", "finish"} => trainer[r].epoch \in 1..Epochs
        /\ Epochs \in Nat /\ trainer[r] \in TrainerState
    BY Constants DEF IInv, TrainerOK, Typed
  <1> QED BY <1>1 DEF StepsLeft, TrainerState

\* A task that others overtake has as much left as before.
LEMMA SameLeft ==
  ASSUME NEW r \in Trainers, trainer'[r] = trainer[r], Queued(r)' <=> Queued(r)
  PROVE  StepsLeft(r)' = StepsLeft(r)
  <1>1. (IF Queued(r)' THEN 6 ELSE 7) = (IF Queued(r) THEN 6 ELSE 7)
        /\ (IF Queued(r)' THEN 1 ELSE 2) = (IF Queued(r) THEN 1 ELSE 2)
    OBVIOUS
  <1> QED BY <1>1 DEF StepsLeft

LEMMA TaskGoesDown ==
  ASSUME IInv, QueueFits, NEW r \in Trainers, Train(r)
  PROVE  StepsLeft(r)' < StepsLeft(r) \/ (StillPaused(r) /\ StepsLeft(r)' = StepsLeft(r))
  <1>0. /\ trainer[r].pc \notin {"off", "finish"} => trainer[r].epoch \in 1..Epochs
        /\ Epochs \in Nat /\ trainer[r] \in TrainerState /\ trainer[r].epoch \in Nat
    BY Constants DEF IInv, TrainerOK, Typed, TrainerState
  <1>1. CASE AsksForLock(r)
    <2>1. ~Queued(r)
      BY <1>1, Constants DEF AsksForLock, QueueFits, MayWait, MustWait
    <2>2. Queued(r)'
      BY <1>1, <2>1, Joins DEF AsksForLock, QueueFits
    <2> DEFINE epochs == 5 * (Epochs - trainer[r].epoch)
    <2>3. epochs \in Int
      BY <1>0
    <2>4. CASE trainer[r].pc = "check" /\ trainer'[r] = trainer[r]
      <3>1. StepsLeft(r) = epochs + 7 /\ StepsLeft(r)' = epochs + 6
        BY <2>1, <2>2, <2>4 DEF StepsLeft
      <3> QED BY <2>3, <3>1
    <2>5. CASE trainer[r].pc = "finish" /\ trainer'[r] = trainer[r]
      <3>1. StepsLeft(r) = 2 /\ StepsLeft(r)' = 1
        BY <2>1, <2>2, <2>5 DEF StepsLeft
      <3> QED BY <3>1
    <2>6. CASE /\ trainer[r].pc = "paused" /\ trainer'[r].pc = "recheck"
               /\ trainer'[r].epoch = trainer[r].epoch
      BY <2>6 DEF StepsLeft, StillPaused
    <2>7. CASE /\ trainer[r].pc = "train" /\ trainer'[r].pc = "update"
               /\ trainer'[r].epoch = trainer[r].epoch
      <3>1. StepsLeft(r) = epochs + 4 /\ StepsLeft(r)' = epochs + 3
        BY <2>7 DEF StepsLeft
      <3> QED BY <2>3, <3>1
    <2> QED BY <1>1, <2>4, <2>5, <2>6, <2>7 DEF AsksForLock
  <1>2. CASE GivesLockBack(r)
    <2>1. Queued(r) /\ ~Queued(r)'
      BY <1>2, Leaves DEF GivesLockBack, QueueFits
    <2> DEFINE epochs == 5 * (Epochs - trainer[r].epoch)
    <2>2. /\ epochs \in Int
          /\ trainer[r].pc \notin {"off", "finish"} => epochs >= 0
      BY <1>0
    <2>3. /\ trainer[r].pc = "check" => StepsLeft(r) = epochs + 6
          /\ trainer[r].pc = "recheck" => StepsLeft(r) = epochs + 5
          /\ trainer[r].pc = "update" => StepsLeft(r) = epochs + 3
          /\ trainer[r].pc = "finish" => StepsLeft(r) = 1
      BY <2>1 DEF StepsLeft
    <2>4. CASE /\ trainer[r].pc \in {"check", "recheck"} /\ trainer'[r].pc = "paused"
               /\ trainer'[r].epoch = trainer[r].epoch
      <3>1. StepsLeft(r)' = epochs + 5
        BY <2>4 DEF StepsLeft
      <3> QED BY <2>2, <2>3, <2>4, <3>1 DEF StillPaused
    <2>5. CASE /\ trainer[r].pc \in {"check", "recheck"} /\ trainer'[r].pc = "train"
               /\ trainer'[r].epoch = trainer[r].epoch
      <3>1. StepsLeft(r)' = epochs + 4
        BY <2>5 DEF StepsLeft
      <3> QED BY <2>2, <2>3, <2>5, <3>1
    <2>6. CASE trainer[r].pc \in {"check", "recheck", "finish"} /\ trainer'[r].pc = "off"
      <3>1. StepsLeft(r)' = 0
        BY <2>6 DEF StepsLeft
      <3> QED BY <2>2, <2>3, <2>6, <3>1
    <2>7. CASE /\ trainer[r].pc = "update" /\ trainer'[r].pc = "check"
               /\ trainer[r].epoch < Epochs /\ trainer'[r].epoch = trainer[r].epoch + 1
      <3>1. StepsLeft(r)' = 5 * (Epochs - (trainer[r].epoch + 1)) + 7
        BY <2>1, <2>7 DEF StepsLeft
      <3> QED BY <1>0, <2>3, <2>7, <3>1
    <2>8. CASE trainer[r].pc = "update" /\ trainer'[r].pc = "finish"
      <3>1. StepsLeft(r)' = 2
        BY <2>1, <2>8 DEF StepsLeft
      <3> QED BY <2>2, <2>3, <2>8, <3>1
    <2> QED BY <1>2, <2>4, <2>5, <2>6, <2>7, <2>8 DEF GivesLockBack
  <1> QED BY <1>1, <1>2, TrainMoves DEF IInv

LEMMA StepsAreFewer ==
  ASSUME IInv, QueueFits, [Next]_vars
  PROVE  StepsRunOut
  <1>0. Typed /\ Clients \cap Trainers = {} /\ queue \in Seq(Clients \cup Trainers)
        /\ Distinct(queue)
    BY Constants DEF IInv, QueueFits
  <1> SUFFICES ASSUME NEW r \in Trainers
               PROVE  /\ StepsLeft(r)' \in Nat
                      /\ Train(r) => \/ StepsLeft(r)' < StepsLeft(r)
                                     \/ StillPaused(r) /\ StepsLeft(r)' = StepsLeft(r)
                      /\ ~Train(r) => StepsLeft(r)' = StepsLeft(r) \/ trainer[r].pc = "off"
    BY DEF StepsRunOut
  <1>1. StepsLeft(r)' \in Nat
    <2>1. IInv'
      BY NextIInv
    <2>2. /\ trainer'[r].pc \notin {"off", "finish"} => trainer'[r].epoch \in 1..Epochs
          /\ Epochs \in Nat /\ trainer'[r] \in TrainerState
      BY <2>1, Constants DEF IInv, TrainerOK, Typed
    <2> QED BY <2>2 DEF StepsLeft, TrainerState
  <1>2. ASSUME ~Train(r), trainer[r].pc # "off"
        PROVE  trainer'[r] = trainer[r] /\ (Queued(r)' <=> Queued(r))
    <2>1. ASSUME NEW c \in Clients, Serve(c)
          PROVE  trainer'[r] = trainer[r] /\ (Queued(r)' <=> Queued(r))
      BY <1>0, <1>2, <2>1, ServeMoves, Leaves
    <2>2. ASSUME NEW c \in Clients, NEW kind \in Kinds, NEW j \in Jobs, Call(c, kind, j)
          PROVE  trainer'[r] = trainer[r] /\ (Queued(r)' <=> Queued(r))
      <3>1. ~Queued(c) /\ c # r
        BY <1>0, <2>2, CallMoves DEF QueueFits, MayWait, MustWait
      <3> QED BY <1>0, <2>2, <3>1, CallMoves, Joins
    <2>3. ASSUME NEW s \in Trainers, s # r, Train(s)
          PROVE  trainer'[r] = trainer[r] /\ (Queued(r)' <=> Queued(r))
      <3>1. CASE AsksForLock(s)
        <4>1. ~Queued(s)
          BY <1>0, <3>1 DEF AsksForLock, QueueFits, MayWait, MustWait
        <4> QED BY <1>0, <2>3, <3>1, <4>1, TrainMoves, Joins DEF AsksForLock
      <3>2. CASE GivesLockBack(s)
        BY <1>0, <2>3, <3>2, TrainMoves, Leaves DEF GivesLockBack
      <3> QED BY <1>0, <2>3, <3>1, <3>2, TrainMoves
    <2>4. ASSUME NEW c \in Clients, DropCall(c)
          PROVE  trainer'[r] = trainer[r] /\ (Queued(r)' <=> Queued(r))
      BY <1>0, <2>4, GivesUp
    <2>5. CASE UNCHANGED vars
      BY <2>5 DEF vars, Queued
    <2> QED BY <1>2, <2>1, <2>2, <2>3, <2>4, <2>5 DEF Next
  <1> QED BY <1>1, <1>2, SameLeft, TaskGoesDown

LEMMA FitInvariance == Spec => [](IInv /\ QueueFits)
  <1>1. Init => QueueFits
    BY OffState DEF Init, QueueFits, Distinct, Queued, MustWait, MayWait, Idle
  <1>2. Init => IInv
    BY InitIInv
  <1>3. IInv /\ QueueFits /\ [Next]_vars => (IInv /\ QueueFits)'
    BY NextIInv, NextFits
  <1> QED BY <1>1, <1>2, <1>3, PTL DEF Spec

(* QueueFits, OnlyResumesBlock: whoever waits is in the lock's queue, once, and
   nobody is in it who does not wait; and whoever is first in it has a step to
   take, unless it is a writer while a task waits for a resume: that wait is the
   only way in which the service stops (the bound on tasks aside). *)
THEOREM LockIsPassedOn == Spec => [](QueueFits /\ OnlyResumesBlock)
  <1>1. IInv /\ QueueFits => OnlyResumesBlock
    BY FitsMeansSteps
  <1> QED BY <1>1, FitInvariance, PTL

(* StepsRunOut: a task has a number of steps left that each of its steps makes
   smaller, but for the wait for a resume, and that nobody else's step changes:
   no call, and no other task on the same job, sends it back. *)
THEOREM TrainingRunsOut == Spec => [][StepsRunOut]_vars
  <1>1. IInv /\ QueueFits /\ [Next]_vars => StepsRunOut
    BY StepsAreFewer
  <1> QED BY <1>1, FitInvariance, PTL DEF Spec
=============================================================================
