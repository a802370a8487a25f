----------------------------- MODULE Inference -----------------------------
(***************************************************************************)
(* Planner and executor together: plans that create_plan makes are what    *)
(* clients initialize sessions with.  The two share no state, and a plan   *)
(* is passed by value, so that making the plans before the first call      *)
(* leaves out no behaviour of the executor.                                *)
(***************************************************************************)
EXTENDS Planner, PipelineExecutor

CONSTANT MaxPlans  \* bound on the number of plans

VARIABLE plans  \* the plans made so far

vars == <<plannerVars, executorVars, plans>>

Init == PlannerInit /\ ExecutorInit /\ plans = {}

\* What the executor uses of the plan: its model and its stages' layers.
ThePlan == [layers |-> layers,
            stages |-> [k \in DOMAIN stages |->
                          [first |-> stages[k].first, end |-> stages[k].end]]]

MakePlan ==
  /\ calls = 0
  /\ \/ CreatePlan /\ Cardinality(plans) < MaxPlans /\ plans' = plans
     \/ (AddStage \/ FinishPlan) /\ plans' = plans
     \/ Return /\ plans' = IF planning = "planned"
                           THEN plans \cup {ThePlan} ELSE plans
  /\ UNCHANGED executorVars

UsePlan(c) ==
  /\ planning = "idle"
  /\ PlainCall(c) \/ \E p \in plans : InitializeWith(c, p)
  /\ UNCHANGED <<plannerVars, plans>>

Run(c) == Serve(c) /\ UNCHANGED <<plannerVars, plans>>

GiveUp(c) == DropCall(c) /\ UNCHANGED <<plannerVars, plans>>

Next ==
  \/ MakePlan
  \/ \E c \in Clients : UsePlan(c) \/ Run(c) \/ GiveUp(c)

\* The runtime polls the tasks; nobody has to call or to give up.
Spec == Init /\ [][Next]_vars /\ \A c \in Clients : WF_vars(Run(c))

-----------------------------------------------------------------------------
(* Properties *)

TypeOK ==
  /\ PlannerTypeOK
  /\ ExecutorTypeOK(plans \cup {NoPlan})

\* The layers of the stage that runs for c.
Layers(c) == sessions[call[c].session].plan.stages[call[c].stage]
Model(c) == sessions[call[c].session].plan.layers

\* Whatever plan it has, an execution takes the context through all layers of
\* the model and in their order: it begins at layer 0, each stage goes on
\* where the one before it stopped, only the last layer is followed by the
\* first, and the result is returned after the last layer.
EveryPassIsComplete ==
  [][\A c \in Clients :
       /\ ~Executing(c) /\ Executing(c)' => Layers(c)'.first = 0
       /\ Executing(c) /\ Executing(c)' /\ call'[c] # call[c] =>
            \/ Layers(c)'.first = Layers(c).end
            \/ Layers(c).end = Model(c) /\ Layers(c)'.first = 0
       /\ Executing(c) /\ ~Executing(c)' /\ sessions' # sessions =>
            Layers(c).end = Model(c)]_vars
=============================================================================
