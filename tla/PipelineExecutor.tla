-------------------------- MODULE PipelineExecutor --------------------------
(***************************************************************************)
(* The pipeline executor (services/pipeline-executor): sessions that       *)
(* clients initialize with an execution plan, execute requests on, pause,  *)
(* resume and cancel.                                                      *)
(*                                                                         *)
(* All sessions are under one tokio lock, which is fair.  execute keeps it *)
(* for writing over the awaits of the whole execution, stage by stage and  *)
(* token by token; every other call has it for one step.  A caller can     *)
(* drop its call's future wherever it awaits.                              *)
(*                                                                         *)
(* Of the tokens, the last one is kept and how many are wanted still: the  *)
(* simulated stages compute the next token from the last one.              *)
(***************************************************************************)
EXTENDS Integers, Sequences

CONSTANTS
  Clients,     \* tasks that call the executor
  Sessions,    \* session ids, chosen by the callers
  NoSession,   \* none of them
  Vocabulary,  \* how many tokens there are, 1000 in the code
  MaxTokens,   \* bound on request.max_tokens
  MaxCalls     \* bound on the number of calls

ASSUME ExecutorAssumption ==
  /\ NoSession \notin Sessions
  /\ Vocabulary \in Nat \ {0}
  /\ MaxTokens \in Nat /\ MaxCalls \in Nat

VARIABLES
  sessions,  \* active_sessions: id -> [status, plan, stage_states]
  call,      \* the call each client waits in
  queue,     \* who holds the lock or waits for it, in order
  calls      \* calls made so far

executorVars == <<sessions, call, queue, calls>>

\* An ExecutionPlan: the layer count of its model, and its stages.
NoPlan == [layers |-> 0, stages |-> <<>>]

\* phase: "none" until the call has the lock, then "prefill" or "decode";
\* stage: the one that runs; token: the last of the context; left: how many
\* more are wanted.
NoCall == [kind |-> "none", session |-> NoSession, plan |-> NoPlan,
           phase |-> "none", stage |-> 0, token |-> 0, left |-> 0]

Eos == 2
Tokens == 0..(Vocabulary - 1)
Kinds == {"initialize", "execute", "pause", "resume", "cancel", "read"}

ExecutorInit ==
  /\ sessions = [s \in {} |-> 0]
  /\ call = [c \in Clients |-> NoCall]
  /\ queue = <<>>
  /\ calls = 0

-----------------------------------------------------------------------------
(* Calls and the lock *)

Request(kind, s) == [NoCall EXCEPT !.kind = kind, !.session = s]

Call(c, request) ==
  /\ call[c] = NoCall /\ calls < MaxCalls
  /\ call' = [call EXCEPT ![c] = request]
  /\ queue' = Append(queue, c)
  /\ calls' = calls + 1
  /\ UNCHANGED sessions

Granted(c) == queue # <<>> /\ Head(queue) = c

\* The client has just got the lock.
Serves(c, kind) ==
  call[c].kind = kind /\ call[c].phase = "none" /\ Granted(c)

\* It gives the lock back with the call's end (a bug: it keeps it).
ReturnsWithLock(c) ==
  /\ call' = [call EXCEPT ![c] = NoCall]
  /\ UNCHANGED <<queue, calls>>
Returns(c) ==
  /\ call' = [call EXCEPT ![c] = NoCall]
  /\ queue' = Tail(queue)
  /\ UNCHANGED calls

\* The caller gives up: the future is dropped where it awaits, the session
\* stays as it is.
DropCall(c) ==
  /\ call[c] # NoCall
  /\ call' = [call EXCEPT ![c] = NoCall]
  /\ \E i \in DOMAIN queue :
       /\ queue[i] = c
       /\ queue' = SubSeq(queue, 1, i - 1) \o SubSeq(queue, i + 1, Len(queue))
  /\ UNCHANGED <<sessions, calls>>

Has(c, statuses) ==
  /\ call[c].session \in DOMAIN sessions
  /\ sessions[call[c].session].status \in statuses

Update(s, state) == [t \in DOMAIN sessions \cup {s} |->
                       IF t = s THEN state ELSE sessions[t]]

-----------------------------------------------------------------------------
(* Sessions *)

\* initialize_session; whatever has the same id is overwritten.
InitializeSession(c) ==
  /\ Serves(c, "initialize")
  /\ sessions' = Update(call[c].session,
       [status |-> "Initializing", plan |-> call[c].plan,
        stage_states |-> [k \in DOMAIN call[c].plan.stages |-> "Idle"]])
  /\ Returns(c)

\* On what a request can be executed (a bug: on a paused session too).
NotMissing == {"Initializing", "Running", "Paused"}
Executable == {"Initializing", "Running"}

PauseSession(c) ==
  /\ Serves(c, "pause") /\ call[c].session \in DOMAIN sessions
  /\ sessions' = [sessions EXCEPT ![call[c].session].status = "Paused"]
  /\ Returns(c)

ResumeSession(c) ==
  /\ Serves(c, "resume") /\ Has(c, {"Paused"})
  /\ sessions' = [sessions EXCEPT ![call[c].session].status = "Running"]
  /\ Returns(c)

CancelSession(c) ==
  /\ Serves(c, "cancel") /\ call[c].session \in DOMAIN sessions
  /\ sessions' = [s \in DOMAIN sessions \ {call[c].session} |-> sessions[s]]
  /\ Returns(c)

\* SessionNotFound and SessionNotReady.
Refused(c) ==
  \/ Serves(c, "execute") /\ ~Has(c, Executable)
  \/ Serves(c, "resume") /\ ~Has(c, {"Paused"})
  \/ \E kind \in {"pause", "cancel"} :
       Serves(c, kind) /\ call[c].session \notin DOMAIN sessions

\* Those, and get_session_status, get_stats.
NothingToDo(c) ==
  /\ Refused(c) \/ Serves(c, "read")
  /\ Returns(c) /\ UNCHANGED sessions

-----------------------------------------------------------------------------
(* execute *)

StageCount(c) == Len(sessions[call[c].session].plan.stages)
Executing(c) == call[c].phase \in {"prefill", "decode"}

\* The session with status Running and its stage k Executing.
Starting(session, k) ==
  [session EXCEPT !.status = "Running", !.stage_states[k] = "Executing"]

\* A session without stages awaits nothing: its execution is over at once.
BeginExecute(c) ==
  /\ Serves(c, "execute") /\ Has(c, Executable)
  /\ LET s == call[c].session
     IN IF StageCount(c) = 0
        THEN /\ sessions' = [sessions EXCEPT ![s].status = "Running"]
             /\ Returns(c)
        ELSE /\ sessions' = [sessions EXCEPT ![s] = Starting(@, 1)]
             /\ call' = [call EXCEPT ![c].phase = "prefill", ![c].stage = 1]
             /\ UNCHANGED <<queue, calls>>

\* What a stage is when it has run.
DoneAs(phase) == IF phase = "prefill" THEN "Completed" ELSE "Ready"

\* The session of c with the stage that has run marked so.
Ended(c) ==
  [sessions[call[c].session] EXCEPT
     !.stage_states[call[c].stage] = DoneAs(call[c].phase)]

\* The sleep of a stage ends and the next stage begins: no await in between.
NextStage(c) ==
  /\ Executing(c) /\ call[c].stage < StageCount(c)
  /\ sessions' = [sessions EXCEPT ![call[c].session] =
                    Starting(Ended(c), call[c].stage + 1)]
  /\ call' = [call EXCEPT ![c].stage = @ + 1]
  /\ UNCHANGED <<queue, calls>>

\* A pass over the stages in decode adds one token, a prefill none.
Token(c) == IF call[c].phase = "decode"
            THEN (call[c].token + 1) % Vocabulary ELSE call[c].token
Left(c) == IF call[c].phase = "decode" THEN call[c].left - 1 ELSE call[c].left

\* No token is wanted, or the end of the sequence is reached.
Over(c) == Left(c) = 0 \/ (call[c].phase = "decode" /\ Token(c) = Eos)

LastStageRuns(c) == Executing(c) /\ call[c].stage = StageCount(c)

\* The next pass starts at the first stage (a bug: it stays at the last).
LastStage(c) == StageCount(c)
FirstStage(c) == 1

NextPass(c) ==
  /\ LastStageRuns(c) /\ ~Over(c)
  /\ sessions' = [sessions EXCEPT ![call[c].session] =
                    Starting(Ended(c), FirstStage(c))]
  /\ call' = [call EXCEPT ![c] = [@ EXCEPT !.phase = "decode",
                                    !.stage = FirstStage(c),
                                    !.token = Token(c), !.left = Left(c)]]
  /\ UNCHANGED <<queue, calls>>

\* The result is returned; the session stays Running.
FinishExecute(c) ==
  /\ LastStageRuns(c) /\ Over(c)
  /\ sessions' = [sessions EXCEPT ![call[c].session] = Ended(c)]
  /\ Returns(c)

Serve(c) ==
  \/ InitializeSession(c) \/ PauseSession(c) \/ ResumeSession(c)
  \/ CancelSession(c) \/ NothingToDo(c)
  \/ BeginExecute(c) \/ NextStage(c) \/ NextPass(c) \/ FinishExecute(c)

\* The calls that are not given a plan.
PlainCall(c) ==
  \E s \in Sessions :
    \/ \E kind \in Kinds \ {"initialize", "execute"} : Call(c, Request(kind, s))
    \/ \E t \in Tokens, n \in 0..MaxTokens :
         Call(c, [Request("execute", s) EXCEPT !.token = t, !.left = n])

InitializeWith(c, plan) ==
  \E s \in Sessions : Call(c, [Request("initialize", s) EXCEPT !.plan = plan])

-----------------------------------------------------------------------------
(* Properties *)

Session(plans) ==
  [status : {"Initializing", "Running", "Paused"}, plan : plans,
   stage_states : Seq({"Idle", "Executing", "Completed", "Ready"})]

ExecutorTypeOK(plans) ==
  /\ DOMAIN sessions \subseteq Sessions
  /\ \A s \in DOMAIN sessions :
       /\ sessions[s] \in Session(plans)
       /\ Len(sessions[s].stage_states) = Len(sessions[s].plan.stages)
  /\ \A c \in Clients :
       call[c] \in [kind : Kinds \cup {"none"}, session : Sessions \cup {NoSession},
                    plan : plans, phase : {"none", "prefill", "decode"},
                    stage : Nat, token : Tokens, left : 0..MaxTokens]
  /\ queue \in Seq(Clients)
  /\ calls \in 0..MaxCalls

\* While a request is executed its session is there and Running and the
\* stage at hand is Executing; the stages before it have run in this pass,
\* those after it in an earlier pass of the same request.  No pause, cancel
\* or second request of anybody's gets between two stages.
PassesInOrder ==
  \A c \in Clients :
    Executing(c) =>
      /\ call[c].session \in DOMAIN sessions
      /\ LET session == sessions[call[c].session]
             done == session.stage_states
             k == call[c].stage
         IN /\ session.status = "Running"
            /\ k \in 1..Len(done) /\ done[k] = "Executing"
            /\ \A i \in 1..(k - 1) : done[i] = DoneAs(call[c].phase)
            /\ call[c].phase = "decode" =>
                 \A i \in (k + 1)..Len(done) : done[i] \in {"Completed", "Ready"}

\* A paused session runs again only when a client resumes it: an execution
\* that was asked for before the pause and gets its turn after it does not.
PauseHolds ==
  [][\A s \in DOMAIN sessions \cap DOMAIN sessions' :
       sessions[s].status = "Paused" /\ sessions'[s].status = "Running" =>
         call[Head(queue)].kind = "resume"
           /\ call[Head(queue)].session = s]_executorVars

\* Every call returns, however long the requests before it take: an execution
\* ends, and the lock is given on.
EveryCallReturns == \A c \in Clients : call[c] # NoCall ~> call[c] = NoCall

=============================================================================
