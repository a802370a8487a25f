------------------------------ MODULE Planner ------------------------------
(***************************************************************************)
(* The execution planner (services/planner): create_plan selects a         *)
(* strategy, lists the nodes that can take part and walks over them,       *)
(* giving each the next interval of the model's layers.  One step is one   *)
(* turn of that loop.  The cluster is borrowed for the whole call and      *)
(* does not change during it; HashMap iteration gives its nodes in any     *)
(* order.                                                                  *)
(*                                                                         *)
(* A stage's layers current_layer..end_layer are the interval              *)
(* first <= layer < end.  The f32 quotient that is rounded up equals the   *)
(* integer one for fewer than 2^24 layers.                                 *)
(***************************************************************************)
EXTENDS Integers, Sequences, FiniteSets, Functions

CONSTANTS
  Nodes,       \* NodeIds of the cluster
  GpuNodes,    \* those with a GPU
  MaxLayers,   \* bound on model_metadata.layer_count
  Bandwidths,  \* bandwidth_mbps of a link
  Latencies,   \* latency_us of a link
  MaxLinks     \* bound on the number of measured links

ASSUME PlannerAssumption ==
  /\ IsFiniteSet(Nodes) /\ GpuNodes \subseteq Nodes
  /\ MaxLayers \in Nat
  /\ Bandwidths \subseteq Nat /\ Latencies \subseteq Nat
  /\ MaxLinks \in Nat

VARIABLES
  planning,   \* "idle", "loop", "planned", or "failed": NoAvailableNodes
  available,  \* the nodes that were Healthy when the plan was asked for
  layers,     \* layer_count of the request
  strategy,   \* what select_strategy chose
  order,      \* the nodes the loop walks over
  turn,       \* the loop's next node
  current,    \* current_layer
  stages      \* the StagePlans so far

plannerVars ==
  <<planning, available, layers, strategy, order, turn, current, stages>>

Strategies == {"Pipeline", "Tensor", "PipelineHybrid", "Expert", "Data"}

PlannerInit ==
  /\ planning = "idle" /\ available = {} /\ layers = 0
  /\ strategy = "Pipeline" /\ order = <<>> /\ turn = 1
  /\ current = 0 /\ stages = <<>>

-----------------------------------------------------------------------------
\* The measurements of one kind, and their average; 1000 without any link.
Measured(values) == UNION {[1..n -> values] : n \in 0..MaxLinks}

Average(measured) ==
  IF measured = <<>> THEN 1000
  ELSE FoldFunction(LAMBDA x, y : x + y, 0, measured) \div Len(measured)

\* select_strategy, without a preference: excellent, good, acceptable, poor.
StrategyFor(bandwidth, latency) ==
  IF \/ bandwidth >= 10000 /\ latency < 100
     \/ bandwidth >= 1000 /\ ~(bandwidth >= 2500 /\ latency < 500)
  THEN "PipelineHybrid" ELSE "Pipeline"

\* The nodes a strategy runs on: every one but for a hybrid, which takes
\* those with a GPU if there is one (a bug: all of them).
AllHosts(nodes, s) == nodes
Hosts(nodes, s) ==
  IF s = "PipelineHybrid" /\ nodes \cap GpuNodes # {}
  THEN nodes \cap GpuNodes ELSE nodes

\* The orders a HashMap can give its keys in.
Orders(S) ==
  {o \in [1..Cardinality(S) -> S] : \A i, j \in DOMAIN o : o[i] = o[j] => i = j}

\* create_plan, up to the loop.
CreatePlan ==
  /\ planning = "idle"
  /\ available' \in SUBSET Nodes
  /\ layers' \in 0..MaxLayers
  /\ \/ strategy' \in Strategies
     \/ \E b \in Measured(Bandwidths), l \in Measured(Latencies) :
          /\ Len(b) = Len(l)
          /\ strategy' = StrategyFor(Average(b), Average(l))
  /\ planning' = IF available' = {} THEN "failed" ELSE "loop"
  /\ order' \in Orders(Hosts(available', strategy'))
  /\ turn' = 1 /\ current' = 0 /\ stages' = <<>>

\* min(layer_count) (a bug: without it).
Unclamped(a, b) == a
Smaller(a, b) == IF a <= b THEN a ELSE b

\* layers_per_node, layers_per_gpu (a bug: rounded down).
FloorPerNode(l, n) == l \div n
PerNode(l, n) == (l + n - 1) \div n

\* The stage of the order's i-th node.
Stage(i, first, end) ==
  [id |-> i - 1, node |-> order[i], first |-> first, end |-> end]

\* One turn of the loop; a node for which no layer is left gets no stage.
AddStage ==
  /\ planning = "loop" /\ turn <= Len(order)
  /\ LET end == Smaller(current + PerNode(layers, Len(order)), layers)
     IN /\ stages' = IF end = current THEN stages
                     ELSE Append(stages, Stage(turn, current, end))
        /\ current' = end
  /\ turn' = turn + 1
  /\ UNCHANGED <<planning, available, layers, strategy, order>>

\* After the loop: what a hybrid has left goes to a node without a GPU.
FinishPlan ==
  /\ planning = "loop" /\ turn > Len(order)
  /\ planning' = "planned"
  /\ IF /\ current < layers
        /\ Hosts(available, strategy) # available
     THEN \E n \in available \ GpuNodes :
            stages' = Append(stages, [id |-> Len(stages), node |-> n,
                                      first |-> current, end |-> layers])
     ELSE stages' = stages
  /\ UNCHANGED <<available, layers, strategy, order, turn, current>>

\* The caller has its plan, or its error.
Return ==
  /\ planning \in {"planned", "failed"}
  /\ planning' = "idle" /\ available' = {} /\ layers' = 0
  /\ strategy' = "Pipeline" /\ order' = <<>> /\ turn' = 1
  /\ current' = 0 /\ stages' = <<>>

PlannerNext == CreatePlan \/ AddStage \/ FinishPlan \/ Return

PlannerSpec == PlannerInit /\ [][PlannerNext]_plannerVars

-----------------------------------------------------------------------------
(* Properties *)

StagePlan == [id : Nat, node : Nodes, first : Nat, end : Nat]

PlannerTypeOK ==
  /\ planning \in {"idle", "loop", "planned", "failed"}
  /\ available \subseteq Nodes
  /\ layers \in 0..MaxLayers
  /\ strategy \in Strategies
  /\ order \in Seq(Nodes)
  /\ turn \in 1..(Len(order) + 1)
  /\ current \in 0..layers
  /\ stages \in Seq(StagePlan)

\* A finished plan runs every layer of the model exactly once and in order:
\* each stage begins where the one before it ends, none is empty, the first
\* begins at layer 0 and the last ends with the model.
EveryLayerPlaced ==
  planning = "planned" =>
    /\ \A k \in 1..Len(stages) :
         /\ stages[k].first < stages[k].end
         /\ stages[k].first = (IF k = 1 THEN 0 ELSE stages[k - 1].end)
    /\ layers = (IF stages = <<>> THEN 0 ELSE stages[Len(stages)].end)

\* The stages of a plan are on different nodes, all of them Healthy when the
\* plan was asked for, on a GPU each if the strategy wants that and any node
\* has one; ids follow the order of the stages.
StagesOnTheRightNodes ==
  \A k \in 1..Len(stages) :
    /\ stages[k].id = k - 1
    /\ stages[k].node \in available
    /\ (strategy = "PipelineHybrid" /\ available \cap GpuNodes # {})
         => stages[k].node \in GpuNodes
    /\ \A m \in 1..(k - 1) : stages[m].node # stages[k].node

=============================================================================
