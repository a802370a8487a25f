--------------------------- MODULE InferenceProofs ---------------------------
(***************************************************************************)
(* Proofs about Planner, and about PipelineExecutor with the plans that    *)
(* Planner makes, for every set of nodes, every layer count and any number *)
(* of clients, sessions and calls.                                         *)
(*                                                                         *)
(* The loop gives nodes equal shares until the layers run out, so after t  *)
(* turns current_layer is min(t * layers_per_node, layer_count).  With     *)
(* layers_per_node * nodes >= layer_count, from the rounding up, no layer  *)
(* is left at its end.                                                     *)
(*                                                                         *)
(* The client whose request is executed is at the head of the lock's queue *)
(* (Execution), so that nobody else changes a session meanwhile.           *)
(***************************************************************************)
EXTENDS Inference, FiniteSetTheorems, TLAPS

Share == PerNode(layers, Len(order))
Busy == planning \in {"loop", "planned"}

\* The nodes the loop walks over.
OrderIsRight ==
  Busy =>
    /\ Len(order) > 0
    /\ \A i \in 1..Len(order) :
         /\ order[i] \in available
         /\ (strategy = "PipelineHybrid" /\ available \cap GpuNodes # {})
              => order[i] \in GpuNodes
         /\ \A j \in 1..Len(order) : order[i] = order[j] => i = j

\* How far the loop is.
CurrentIsMultiple == Busy => current = Smaller(Share * (turn - 1), layers)

\* What the stages are so far.
StagesTile ==
  /\ \A k \in 1..Len(stages) :
       /\ stages[k].first < stages[k].end
       /\ stages[k].first = (IF k = 1 THEN 0 ELSE stages[k - 1].end)
  /\ current = (IF stages = <<>> THEN 0 ELSE stages[Len(stages)].end)

StagesFollowOrder ==
  /\ Len(stages) < turn
  /\ Len(stages) <= Len(order)
  /\ current < layers => Len(stages) = turn - 1
  /\ \A k \in 1..Len(stages) :
       stages[k].id = k - 1 /\ stages[k].node = order[k]

Planned == planning = "planned" => current = layers
Unbusy == ~Busy => stages = <<>>

PlannerInv ==
  /\ PlannerTypeOK /\ OrderIsRight /\ CurrentIsMultiple
  /\ StagesTile /\ StagesFollowOrder /\ Planned /\ Unbusy

-----------------------------------------------------------------------------
(* Arithmetic *)

\* Rounding up: n shares are enough.
LEMMA SharesAreEnough ==
  ASSUME NEW l \in Nat, NEW n \in Nat \ {0}
  PROVE  PerNode(l, n) \in Nat /\ PerNode(l, n) * n >= l
<1> DEFINE q == (l + n - 1) \div n
           r == (l + n - 1) % n
<1>1. q \in Int /\ r \in 0..(n - 1) /\ l + n - 1 = n * q + r
  BY SMT
<1>2. q >= 0
  BY SMT
<1>3. n * q >= l
  BY <1>1, SMT
<1>4. n * q = q * n
  BY <1>1, SMT
<1> QED
  BY <1>1, <1>2, <1>3, <1>4 DEF PerNode

\* One more turn, one more share.
LEMMA NextMultiple ==
  ASSUME NEW c \in Nat, NEW t \in Nat \ {0}
  PROVE  c * (t - 1) \in Nat /\ c * t = c * (t - 1) + c
  BY SMT

-----------------------------------------------------------------------------
(* The steps *)

\* The order that a call of create_plan starts from.
LEMMA OrderChosen ==
  ASSUME NEW nodes \in SUBSET Nodes, NEW s \in Strategies,
         NEW o \in Orders(Hosts(nodes, s)), nodes # {}
  PROVE  /\ o \in Seq(Nodes) /\ Len(o) > 0
         /\ \A i \in 1..Len(o) :
              /\ o[i] \in nodes
              /\ (s = "PipelineHybrid" /\ nodes \cap GpuNodes # {})
                   => o[i] \in GpuNodes
              /\ \A j \in 1..Len(o) : o[i] = o[j] => i = j
<1> DEFINE H == Hosts(nodes, s)
<1>1. H \subseteq nodes /\ H # {}
  BY DEF Hosts
<1>2. IsFiniteSet(H)
  BY <1>1, PlannerAssumption, FS_Subset
<1>3. Cardinality(H) \in Nat /\ Cardinality(H) > 0
  BY <1>1, <1>2, FS_CardinalityType, FS_EmptySet
<1>4. PICK n \in Nat : n = Cardinality(H)
  BY <1>3
<1>5. o \in [1..n -> H] /\ \A i, j \in DOMAIN o : o[i] = o[j] => i = j
  BY <1>4 DEF Orders
<1>6. o \in Seq(H) /\ Len(o) = n
  BY <1>4, <1>5
<1>7. o \in Seq(Nodes)
  BY <1>1, <1>6
<1>8. \A i \in 1..Len(o) : o[i] \in H
  BY <1>5, <1>6
<1>9. (s = "PipelineHybrid" /\ nodes \cap GpuNodes # {}) => H \subseteq GpuNodes
  BY DEF Hosts
<1> QED
  BY <1>1, <1>3, <1>4, <1>5, <1>6, <1>7, <1>8, <1>9

LEMMA InitPlannerInv == PlannerInit => PlannerInv
<1> SUFFICES ASSUME PlannerInit PROVE PlannerInv
  OBVIOUS
<1>1. PlannerTypeOK
  BY PlannerAssumption DEF PlannerInit, PlannerTypeOK, Strategies
<1>2. OrderIsRight /\ CurrentIsMultiple /\ Planned /\ Unbusy
  BY DEF PlannerInit, OrderIsRight, CurrentIsMultiple, Planned, Unbusy, Busy
<1>3. StagesTile /\ StagesFollowOrder
  BY DEF PlannerInit, StagesTile, StagesFollowOrder
<1> QED
  BY <1>1, <1>2, <1>3 DEF PlannerInv

\* A call starts, or fails: nothing is placed.
LEMMA CreatePlanStep == PlannerInv /\ CreatePlan => PlannerInv'
<1> SUFFICES ASSUME PlannerInv, CreatePlan PROVE PlannerInv'
  OBVIOUS
<1>1. available' \in SUBSET Nodes /\ layers' \in 0..MaxLayers /\ layers' \in Nat
  BY PlannerAssumption DEF CreatePlan
<1>2. strategy' \in Strategies
  BY DEF CreatePlan, Strategies, StrategyFor
<1>3. turn' = 1 /\ current' = 0 /\ stages' = <<>>
  BY DEF CreatePlan
<1>4. planning' \in {"loop", "failed"}
  BY DEF CreatePlan
<1>5. order' \in Seq(Nodes)
  <2>1. CASE available' = {}
    <3>1. Hosts(available', strategy') = {}
      BY <2>1 DEF Hosts
    <3>2. order' \in [1..0 -> {}]
      BY <3>1, FS_EmptySet DEF CreatePlan, Orders
    <3>3. order' = <<>>
      BY <3>2
    <3> QED
      BY <3>3
  <2>2. CASE available' # {}
    BY <1>1, <1>2, <2>2, OrderChosen DEF CreatePlan
  <2> QED
    BY <2>1, <2>2
<1>6. PlannerTypeOK'
  BY <1>1, <1>2, <1>3, <1>4, <1>5 DEF PlannerTypeOK
<1>7. OrderIsRight'
  <2> SUFFICES ASSUME Busy' PROVE OrderIsRight'
    BY DEF OrderIsRight
  <2>1. available' # {}
    BY DEF Busy, CreatePlan
  <2>2. order' \in Orders(Hosts(available', strategy'))
    BY DEF CreatePlan
  <2> QED
    BY <1>1, <1>2, <2>1, <2>2, OrderChosen, Zenon DEF OrderIsRight
<1>8. CurrentIsMultiple'
  <2> SUFFICES ASSUME Busy' PROVE (current = Smaller(Share * (turn - 1), layers))'
    BY DEF CurrentIsMultiple
  <2>1. Len(order') \in Nat \ {0}
    BY <1>5, <1>7 DEF OrderIsRight
  <2>2. PICK c \in Nat : c = Share'
    BY <1>1, <2>1, SharesAreEnough DEF Share
  <2>3. c * (1 - 1) = 0
    BY SMT
  <2>4. (Share * (turn - 1))' = 0
    BY <1>3, <2>2, <2>3
  <2> QED
    BY <1>1, <1>3, <2>4 DEF Smaller
<1>9. StagesTile' /\ StagesFollowOrder'
  <2>1. Len(order') \in Nat
    BY <1>5
  <2> QED
    BY <1>3, <2>1 DEF StagesTile, StagesFollowOrder
<1>10. Planned' /\ Unbusy'
  BY <1>3, <1>4 DEF Planned, Unbusy
<1> QED
  BY <1>6, <1>7, <1>8, <1>9, <1>10 DEF PlannerInv

\* One turn of the loop: the share of the next node is put behind the others.
LEMMA AddStageStep == PlannerInv /\ AddStage => PlannerInv'
<1> SUFFICES ASSUME PlannerInv, AddStage PROVE PlannerInv'
  OBVIOUS
<1>1. PICK n \in Nat \ {0} : n = Len(order)
  BY DEF PlannerInv, PlannerTypeOK, OrderIsRight, Busy, AddStage
<1>2. PICK l \in Nat : l = layers
  BY PlannerAssumption DEF PlannerInv, PlannerTypeOK
<1>3. PICK c \in Nat : c = Share
  BY <1>1, <1>2, SharesAreEnough DEF Share
<1>4. PICK t \in 1..n : t = turn
  BY <1>1 DEF PlannerInv, PlannerTypeOK, AddStage
<1>5. UNCHANGED <<planning, available, layers, strategy, order>> /\ planning = "loop"
  BY DEF AddStage
<1>6. turn' = t + 1
  BY <1>4 DEF AddStage
<1>7. PICK m \in Nat : m = c * (t - 1) /\ c * t = m + c
  BY NextMultiple
<1>8. current = Smaller(m, l)
  BY <1>2, <1>3, <1>4, <1>5, <1>7 DEF PlannerInv, CurrentIsMultiple, Busy
<1>9. PICK end \in 0..l : end = Smaller(current + c, l)
  BY <1>8 DEF Smaller
<1>10. current' = end
  BY <1>1, <1>2, <1>3, <1>9 DEF AddStage, Share
<1>11. stages' = IF end = current THEN stages
                 ELSE Append(stages, Stage(t, current, end))
  BY <1>1, <1>2, <1>3, <1>4, <1>9 DEF AddStage, Share
<1>12. current \in Nat /\ current <= end
  BY <1>8, <1>9 DEF Smaller
<1>13. Stage(t, current, end) \in StagePlan
  <2>1. order[t] \in Nodes
    BY <1>1, <1>5 DEF PlannerInv, OrderIsRight, PlannerTypeOK, Busy
  <2> QED
    BY <1>12, <2>1 DEF Stage, StagePlan
<1>14. stages \in Seq(StagePlan)
  BY DEF PlannerInv, PlannerTypeOK
<1>15. PlannerTypeOK'
  <2>1. stages' \in Seq(StagePlan)
    BY <1>11, <1>13, <1>14
  <2>2. turn' \in 1..(Len(order) + 1)
    BY <1>1, <1>4, <1>6
  <2>3. current' \in 0..layers
    BY <1>2, <1>10
  <2> QED
    BY <1>5, <2>1, <2>2, <2>3 DEF PlannerInv, PlannerTypeOK
<1>16. OrderIsRight'
  BY <1>5 DEF PlannerInv, OrderIsRight, Busy
<1>17. CurrentIsMultiple'
  <2>1. Share' = c
    BY <1>3, <1>5 DEF Share
  <2>2. c * ((t + 1) - 1) = m + c
    BY <1>7
  <2>3. end = Smaller(m + c, l)
    BY <1>8, <1>9 DEF Smaller
  <2> QED
    BY <1>2, <1>5, <1>6, <1>10, <2>1, <2>2, <2>3 DEF CurrentIsMultiple
<1>18. StagesTile'
  <2>1. CASE end = current
    BY <1>10, <1>11, <2>1 DEF PlannerInv, StagesTile
  <2>2. CASE end # current
    <3>1. stages' = Append(stages, Stage(t, current, end))
      BY <1>11, <2>2
    <3>2. /\ Len(stages') = Len(stages) + 1
          /\ stages'[Len(stages) + 1] = Stage(t, current, end)
          /\ \A k \in 1..Len(stages) : stages'[k] = stages[k]
          /\ stages' # <<>>
      BY <1>13, <1>14, <3>1
    <3>3. /\ Stage(t, current, end).first = current
          /\ Stage(t, current, end).end = end
      BY DEF Stage
    <3>4. current = IF stages = <<>> THEN 0 ELSE stages[Len(stages)].end
      BY DEF PlannerInv, StagesTile
    <3>5. stages = <<>> <=> Len(stages) = 0
      BY <1>14
    <3>6. \A k \in 1..Len(stages) :
             /\ stages[k].first < stages[k].end
             /\ stages[k].first = (IF k = 1 THEN 0 ELSE stages[k - 1].end)
      BY DEF PlannerInv, StagesTile
    <3>7. current < end
      BY <1>12, <2>2
    <3>8. PICK p \in Nat : p = Len(stages)
      BY <1>14
    <3>9. ASSUME NEW k \in 1..(p + 1)
          PROVE  /\ stages'[k].first < stages'[k].end
                 /\ stages'[k].first = (IF k = 1 THEN 0 ELSE stages'[k - 1].end)
      <4>1. CASE k \in 1..p
        <5>1. /\ k \in 1..Len(stages) /\ stages'[k] = stages[k]
              /\ k # 1 => k - 1 \in 1..Len(stages) /\ stages'[k - 1] = stages[k - 1]
          BY <3>2, <3>8, <4>1
        <5> QED BY <3>6, <5>1
      <4>2. CASE k = p + 1
        <5>1. stages'[k].first = current /\ stages'[k].end = end
          BY <3>2, <3>3, <3>8, <4>2
        <5>2. CASE p = 0
          BY <3>4, <3>5, <3>7, <3>8, <4>2, <5>1, <5>2
        <5>3. CASE p # 0
          <6>1. k # 1 /\ k - 1 = p /\ stages'[p] = stages[p]
            BY <3>2, <3>8, <4>2, <5>3
          <6>2. current = stages[p].end
            BY <3>4, <3>5, <3>8, <5>3
          <6> QED
            BY <3>7, <5>1, <6>1, <6>2
        <5> QED
          BY <5>2, <5>3
      <4> QED
        BY <4>1, <4>2
    <3>10. current' = IF stages' = <<>> THEN 0 ELSE stages'[Len(stages')].end
      BY <1>10, <3>2, <3>3, <3>8
    <3> QED
      BY <3>2, <3>8, <3>9, <3>10 DEF StagesTile
  <2> QED
    BY <2>1, <2>2
<1>19. StagesFollowOrder'
  <2>1. /\ Len(stages) < t /\ Len(stages) <= n
        /\ current < l => Len(stages) = t - 1
        /\ \A k \in 1..Len(stages) :
             stages[k].id = k - 1 /\ stages[k].node = order[k]
    BY <1>1, <1>2, <1>4 DEF PlannerInv, StagesFollowOrder
  <2>2. CASE end = current
    <3>1. c = 0 \/ current = l
      BY <1>8, <1>9, <2>2 DEF Smaller
    <3>2. c = 0 => l = 0
      <4>1. c * n >= l
        BY <1>1, <1>2, <1>3, SharesAreEnough DEF Share
      <4>2. c = 0 => c * n = 0
        BY SMT
      <4> QED
        BY <4>1, <4>2
    <3>3. current = l
      BY <1>8, <1>12, <3>1, <3>2 DEF Smaller
    <3> QED
      BY <1>1, <1>2, <1>5, <1>6, <1>10, <1>11, <1>14, <2>1, <2>2, <3>3
         DEF StagesFollowOrder
  <2>3. CASE end # current
    <3>1. stages' = Append(stages, Stage(t, current, end))
      BY <1>11, <2>3
    <3>2. Len(stages) = t - 1
      BY <1>12, <2>1, <2>3
    <3>3. /\ Len(stages') = t
          /\ stages'[t] = Stage(t, current, end)
          /\ \A k \in 1..(t - 1) : stages'[k] = stages[k]
      BY <1>13, <1>14, <3>1, <3>2
    <3>4. /\ Stage(t, current, end).id = t - 1
          /\ Stage(t, current, end).node = order[t]
      BY DEF Stage
    <3> QED
      BY <1>1, <1>5, <1>6, <2>1, <3>2, <3>3, <3>4 DEF StagesFollowOrder
  <2> QED
    BY <2>2, <2>3
<1>20. Planned' /\ Unbusy'
  BY <1>5 DEF Planned, Unbusy, Busy
<1> QED
  BY <1>15, <1>16, <1>17, <1>18, <1>19, <1>20 DEF PlannerInv

\* The loop is over: no layer is left, and a hybrid has no stage to add.
LEMMA FinishPlanStep == PlannerInv /\ FinishPlan => PlannerInv'
<1> SUFFICES ASSUME PlannerInv, FinishPlan PROVE PlannerInv'
  OBVIOUS
<1>1. planning = "loop" /\ planning' = "planned" /\ turn > Len(order)
  BY DEF FinishPlan
<1>2. PICK n \in Nat \ {0} : n = Len(order)
  BY <1>1 DEF PlannerInv, PlannerTypeOK, OrderIsRight, Busy
<1>3. PICK l \in Nat : l = layers
  BY PlannerAssumption DEF PlannerInv, PlannerTypeOK
<1>4. PICK c \in Nat : c = Share /\ c * n >= l
  BY <1>2, <1>3, SharesAreEnough DEF Share
<1>5. turn = n + 1
  BY <1>1, <1>2 DEF PlannerInv, PlannerTypeOK
<1>6. current = l
  <2>1. current = Smaller(c * ((n + 1) - 1), l)
    BY <1>1, <1>3, <1>4, <1>5 DEF PlannerInv, CurrentIsMultiple, Busy
  <2>2. c * ((n + 1) - 1) = c * n /\ c * n \in Nat
    BY SMT
  <2> QED
    BY <1>4, <2>1, <2>2 DEF Smaller
<1>7. stages' = stages /\ UNCHANGED <<available, layers, strategy, order, turn, current>>
  BY <1>3, <1>6 DEF FinishPlan
<1>8. PlannerTypeOK' /\ OrderIsRight' /\ StagesTile' /\ StagesFollowOrder'
  BY <1>1, <1>7
     DEF PlannerInv, PlannerTypeOK, OrderIsRight, StagesTile, StagesFollowOrder, Busy
<1>9. CurrentIsMultiple'
  BY <1>1, <1>7 DEF PlannerInv, CurrentIsMultiple, Busy, Share
<1>10. Planned' /\ Unbusy'
  BY <1>1, <1>3, <1>6, <1>7 DEF Planned, Unbusy, Busy
<1> QED
  BY <1>8, <1>9, <1>10 DEF PlannerInv

LEMMA ReturnStep == Return => PlannerInv'
<1> SUFFICES ASSUME Return PROVE PlannerInv'
  OBVIOUS
<1>1. PlannerTypeOK'
  BY PlannerAssumption DEF Return, PlannerTypeOK, Strategies
<1>2. OrderIsRight' /\ CurrentIsMultiple' /\ Planned' /\ Unbusy'
  BY DEF Return, OrderIsRight, CurrentIsMultiple, Planned, Unbusy, Busy
<1>3. StagesTile' /\ StagesFollowOrder'
  BY DEF Return, StagesTile, StagesFollowOrder
<1> QED
  BY <1>1, <1>2, <1>3 DEF PlannerInv

LEMMA StutterStep == PlannerInv /\ UNCHANGED plannerVars => PlannerInv'
BY DEF PlannerInv, plannerVars, PlannerTypeOK, OrderIsRight, CurrentIsMultiple,
       StagesTile, StagesFollowOrder, Planned, Unbusy, Busy, Share

-----------------------------------------------------------------------------
(* The plans *)

\* The invariant of the loop (partition_model, planner/src/lib.rs:143-171).
THEOREM LoopInvariant == PlannerSpec => []PlannerInv
<1>1. PlannerInit => PlannerInv
  BY InitPlannerInv
<1>2. PlannerInv /\ [PlannerNext]_plannerVars => PlannerInv'
  BY CreatePlanStep, AddStageStep, FinishPlanStep, ReturnStep, StutterStep
     DEF PlannerNext
<1> QED
  BY <1>1, <1>2, PTL DEF PlannerSpec

LEMMA PlacedIfPlanned == PlannerInv => EveryLayerPlaced
<1> SUFFICES ASSUME PlannerInv, planning = "planned" PROVE EveryLayerPlaced
  BY DEF EveryLayerPlaced
<1>1. current = layers
  BY DEF PlannerInv, Planned
<1> QED
  BY <1>1 DEF PlannerInv, StagesTile, EveryLayerPlaced

LEMMA RightIfPlanned == PlannerInv => StagesOnTheRightNodes
<1> SUFFICES ASSUME PlannerInv, NEW k \in 1..Len(stages)
             PROVE  /\ stages[k].id = k - 1
                    /\ stages[k].node \in available
                    /\ (strategy = "PipelineHybrid" /\ available \cap GpuNodes # {})
                         => stages[k].node \in GpuNodes
                    /\ \A m \in 1..(k - 1) : stages[m].node # stages[k].node
  BY DEF StagesOnTheRightNodes
<1>1. stages \in Seq(StagePlan) /\ order \in Seq(Nodes)
  BY DEF PlannerInv, PlannerTypeOK
<1>2. Busy
  BY <1>1 DEF PlannerInv, Unbusy
<1>3. PICK p \in Nat, n \in Nat : p = Len(stages) /\ n = Len(order) /\ p <= n
  BY <1>1 DEF PlannerInv, StagesFollowOrder
<1>4. \A m \in 1..p : stages[m].id = m - 1 /\ stages[m].node = order[m]
  BY <1>3 DEF PlannerInv, StagesFollowOrder
<1>5. \A i \in 1..n :
        /\ order[i] \in available
        /\ (strategy = "PipelineHybrid" /\ available \cap GpuNodes # {})
             => order[i] \in GpuNodes
        /\ \A j \in 1..n : order[i] = order[j] => i = j
  BY <1>2, <1>3 DEF PlannerInv, OrderIsRight
<1>6. k \in 1..p /\ k \in 1..n /\ \A m \in 1..(k - 1) : m \in 1..p /\ m \in 1..n /\ m # k
  BY <1>3
<1> QED
  BY <1>4, <1>5, <1>6

-----------------------------------------------------------------------------
(* Sessions, calls and the lock *)

AllPlans == plans \cup {NoPlan}

\* A plan whose stages follow each other from layer 0 to the model's last.
PlanShape == [layers : Nat, stages : Seq([first : Nat, end : Nat])]

Tiles(p) ==
  /\ p \in PlanShape
  /\ \A k \in 1..Len(p.stages) :
       /\ p.stages[k].first = (IF k = 1 THEN 0 ELSE p.stages[k - 1].end)
       /\ k = Len(p.stages) => p.stages[k].end = p.layers

StageState == {"Idle", "Executing", "Completed", "Ready"}

SessionOK(session) ==
  /\ session \in Session(AllPlans)
  /\ Len(session.stage_states) = Len(session.plan.stages)

CallState ==
  [kind : Kinds \cup {"none"}, session : Sessions \cup {NoSession},
   plan : AllPlans, phase : {"none", "prefill", "decode"},
   stage : Nat, token : Tokens, left : 0..MaxTokens]

\* Where a session is in its pass.
PassOK(session, phase, k) ==
  LET done == session.stage_states
  IN /\ session.status = "Running"
     /\ k \in 1..Len(done) /\ done[k] = "Executing"
     /\ \A i \in 1..(k - 1) : done[i] = DoneAs(phase)
     /\ phase = "decode" =>
          \A i \in (k + 1)..Len(done) : done[i] \in {"Completed", "Ready"}

SessionsOK ==
  DOMAIN sessions \subseteq Sessions /\ \A s \in DOMAIN sessions : SessionOK(sessions[s])

Execution ==
  \A c \in Clients :
    Executing(c) =>
      /\ Granted(c) /\ call[c].kind = "execute"
      /\ call[c].phase = "decode" => call[c].left > 0
      /\ call[c].session \in DOMAIN sessions
      /\ PassOK(sessions[call[c].session], call[c].phase, call[c].stage)

ExecutorInv ==
  /\ SessionsOK
  /\ call \in [Clients -> CallState]
  /\ \A c \in Clients : call[c].kind # "none" => call[c].session \in Sessions
  /\ queue \in Seq(Clients)
  /\ calls \in 0..MaxCalls
  /\ Execution
  /\ \A p \in AllPlans : Tiles(p)

IInv == PlannerInv /\ ExecutorInv

\* Who has the lock is the only one who may be executing.
LEMMA AloneWithLock ==
  ASSUME ExecutorInv, NEW c \in Clients, Granted(c)
  PROVE  \A d \in Clients : Executing(d) => d = c
  BY DEF ExecutorInv, Execution, Granted

LEMMA NoCallIsACall ==
  NoCall \in CallState /\ NoCall.phase = "none" /\ NoCall.kind = "none"
  BY ExecutorAssumption DEF NoCall, CallState, AllPlans, Tokens

LEMMA TailIsAQueue ==
  ASSUME NEW q \in Seq(Clients), q # <<>>
  PROVE  Tail(q) \in Seq(Clients)
  OBVIOUS

\* A call ends: nobody is executing.
LEMMA ReturnKeeps ==
  ASSUME ExecutorInv, NEW c \in Clients, Granted(c), Returns(c), SessionsOK', plans' = plans
  PROVE  ExecutorInv'
  <1>1. /\ call' = [call EXCEPT ![c] = NoCall] /\ queue' = Tail(queue) /\ calls' = calls
    BY DEF Returns
  <1>2. queue' \in Seq(Clients)
    BY <1>1, TailIsAQueue DEF ExecutorInv, Granted
  <1>3. /\ call' \in [Clients -> CallState] /\ call'[c].phase = "none"
        /\ call'[c].kind = "none"
        /\ \A d \in Clients : d # c => call'[d] = call[d]
    BY <1>1, NoCallIsACall DEF ExecutorInv
  <1>4. CallState' = CallState /\ AllPlans' = AllPlans
    BY DEF CallState, AllPlans
  <1>5. \A d \in Clients : ~Executing(d)'
    BY <1>3, AloneWithLock DEF Executing
  <1> QED BY <1>1, <1>2, <1>3, <1>4, <1>5 DEF ExecutorInv, Execution

\* The execution goes on to a stage of its session.
LEMMA ExecutionKeeps ==
  ASSUME ExecutorInv, NEW c \in Clients, Granted(c), NEW s \in DOMAIN sessions,
         NEW request \in CallState, NEW state, SessionOK(state),
         request.kind = "execute", request.session = s,
         request.phase \in {"prefill", "decode"},
         request.phase = "decode" => request.left > 0,
         PassOK(state, request.phase, request.stage),
         sessions' = [sessions EXCEPT ![s] = state],
         call' = [call EXCEPT ![c] = request],
         UNCHANGED <<queue, calls, plans>>
  PROVE  ExecutorInv'
  <1>1. CallState' = CallState /\ AllPlans' = AllPlans
    BY DEF CallState, AllPlans
  <1>2. /\ call' \in [Clients -> CallState] /\ call'[c] = request
        /\ \A d \in Clients : d # c => call'[d] = call[d]
    BY DEF ExecutorInv
  <1>3. /\ DOMAIN sessions' = DOMAIN sessions /\ sessions'[s] = state
        /\ \A r \in DOMAIN sessions : r # s => sessions'[r] = sessions[r]
    OBVIOUS
  <1>4. SessionsOK'
    BY <1>1, <1>3 DEF ExecutorInv, SessionsOK, SessionOK
  <1>5. Granted(c)' /\ \A d \in Clients : d # c => ~Executing(d)'
    BY <1>2, AloneWithLock DEF Executing, Granted
  <1>6. Execution'
    BY <1>2, <1>3, <1>5 DEF Execution, PassOK
  <1>7. s \in Sessions
    BY DEF ExecutorInv, SessionsOK
  <1> QED BY <1>1, <1>2, <1>4, <1>6, <1>7 DEF ExecutorInv

-----------------------------------------------------------------------------
(* Stages *)

\* A session has a state for each stage of its plan.
LEMMA StageStates ==
  ASSUME NEW session, SessionOK(session)
  PROVE  /\ session.stage_states \in Seq(StageState)
         /\ Len(session.stage_states) \in Nat
         /\ Len(session.plan.stages) = Len(session.stage_states)
  <1>1. session.stage_states \in Seq(StageState)
    BY DEF SessionOK, Session, StageState
  <1> QED BY <1>1 DEF SessionOK

LEMMA StartingFacts ==
  ASSUME NEW session, SessionOK(session), NEW k \in 1..Len(session.stage_states)
  PROVE  LET next == Starting(session, k)
         IN /\ SessionOK(next) /\ next.status = "Running" /\ next.plan = session.plan
            /\ Len(next.stage_states) = Len(session.stage_states)
            /\ next.stage_states[k] = "Executing"
            /\ \A i \in 1..Len(session.stage_states) :
                 i # k => next.stage_states[i] = session.stage_states[i]
  <1> DEFINE states == [session.stage_states EXCEPT ![k] = "Executing"]
  <1>1. session \in Session(AllPlans)
    BY DEF SessionOK
  <1>2. /\ session.stage_states \in Seq(StageState) /\ session.plan \in AllPlans
        /\ session.status \in {"Initializing", "Running", "Paused"}
    BY <1>1 DEF Session, StageState
  <1>3. /\ states \in Seq(StageState) /\ Len(states) = Len(session.stage_states)
        /\ states[k] = "Executing"
        /\ \A i \in 1..Len(session.stage_states) : i # k => states[i] = session.stage_states[i]
    BY <1>2 DEF StageState
  <1>4. Starting(session, k) =
          [status |-> "Running", plan |-> session.plan, stage_states |-> states]
    <2> DEFINE running == [session EXCEPT !.status = "Running"]
    <2>1. running = [status |-> "Running", plan |-> session.plan,
                     stage_states |-> session.stage_states]
      BY <1>1 DEF Session
    <2>2. Starting(session, k) = [running EXCEPT !.stage_states[k] = "Executing"]
      BY DEF Starting
    <2> HIDE DEF running
    <2> QED BY <2>1, <2>2
  <1> HIDE DEF states
  <1> QED BY <1>2, <1>3, <1>4 DEF SessionOK, Session, StageState

LEMMA EndedFacts ==
  ASSUME ExecutorInv, NEW c \in Clients, Executing(c)
  PROVE  LET session == sessions[call[c].session]
         IN /\ call[c].session \in DOMAIN sessions /\ SessionOK(session)
            /\ SessionOK(Ended(c)) /\ Ended(c).status = "Running"
            /\ Ended(c).plan = session.plan
            /\ Len(Ended(c).stage_states) = Len(session.stage_states)
            /\ StageCount(c) = Len(session.stage_states)
            /\ call[c].stage \in 1..StageCount(c) /\ StageCount(c) \in Nat
            /\ Ended(c).stage_states[call[c].stage] = DoneAs(call[c].phase)
            /\ \A i \in 1..StageCount(c) :
                 i # call[c].stage => Ended(c).stage_states[i] = session.stage_states[i]
  <1> DEFINE session == sessions[call[c].session]
             k == call[c].stage
             states == [session.stage_states EXCEPT ![k] = DoneAs(call[c].phase)]
  <1>1. /\ call[c].session \in DOMAIN sessions /\ SessionOK(session)
        /\ k \in 1..Len(session.stage_states) /\ session.status = "Running"
    BY DEF ExecutorInv, Execution, PassOK, SessionsOK
  <1>2. /\ session \in Session(AllPlans) /\ session.stage_states \in Seq(StageState)
        /\ session.plan \in AllPlans
        /\ StageCount(c) = Len(session.stage_states)
    BY <1>1 DEF SessionOK, Session, StageCount, StageState
  <1>3. DoneAs(call[c].phase) \in StageState
    BY DEF DoneAs, StageState
  <1>4. /\ states \in Seq(StageState) /\ Len(states) = Len(session.stage_states)
        /\ states[k] = DoneAs(call[c].phase)
        /\ \A i \in 1..Len(session.stage_states) : i # k => states[i] = session.stage_states[i]
    BY <1>1, <1>2, <1>3
  <1>5. Ended(c) = [status |-> "Running", plan |-> session.plan, stage_states |-> states]
    <2>1. /\ session = [status |-> session.status, plan |-> session.plan,
                        stage_states |-> session.stage_states]
      BY <1>2 DEF Session
    <2>2. Ended(c) = [session EXCEPT !.stage_states = states]
      BY <1>2 DEF Ended, Session
    <2> QED BY <1>1, <2>1, <2>2
  <1>6. Len(session.stage_states) \in Nat
    BY <1>2
  <1> HIDE DEF states
  <1> QED BY <1>1, <1>2, <1>4, <1>5, <1>6 DEF SessionOK, Session, StageState

-----------------------------------------------------------------------------
(* The calls *)

LEMMA ServedIsTyped ==
  ASSUME ExecutorInv, NEW c \in Clients, NEW kind \in Kinds, Serves(c, kind)
  PROVE  /\ Granted(c) /\ call[c] \in CallState /\ call[c].kind = kind
         /\ call[c].session \in Sessions /\ call[c].phase = "none"
  BY DEF Serves, ExecutorInv, Kinds

LEMMA InitializeStep ==
  ASSUME ExecutorInv, NEW c \in Clients, InitializeSession(c), plans' = plans
  PROVE  ExecutorInv'
  <1> DEFINE p == call[c].plan
             s == call[c].session
             states == [k \in DOMAIN p.stages |-> "Idle"]
             state == [status |-> "Initializing", plan |-> p, stage_states |-> states]
  <1>1. /\ Serves(c, "initialize") /\ Returns(c) /\ sessions' = Update(s, state)
    BY DEF InitializeSession
  <1>2. Granted(c) /\ s \in Sessions /\ p \in AllPlans
    BY <1>1, ServedIsTyped DEF Kinds, CallState
  <1>3. p.stages \in Seq([first : Nat, end : Nat])
    BY <1>2 DEF ExecutorInv, Tiles, PlanShape
  <1>4. states \in Seq(StageState) /\ Len(states) = Len(p.stages)
    BY <1>3 DEF StageState
  <1> HIDE DEF states
  <1>5. SessionOK(state)
    BY <1>2, <1>4 DEF SessionOK, Session, StageState
  <1> HIDE DEF state
  <1>6. /\ DOMAIN sessions' = DOMAIN sessions \cup {s} /\ sessions'[s] = state
        /\ \A r \in DOMAIN sessions : r # s => sessions'[r] = sessions[r]
    BY <1>1 DEF Update
  <1>7. AllPlans' = AllPlans
    BY DEF AllPlans
  <1>8. SessionsOK'
    BY <1>2, <1>5, <1>6, <1>7 DEF ExecutorInv, SessionsOK, SessionOK
  <1> QED BY <1>1, <1>2, <1>8, ReturnKeeps

LEMMA StatusSet ==
  ASSUME ExecutorInv, NEW s \in DOMAIN sessions,
         NEW status \in {"Initializing", "Running", "Paused"},
         sessions' = [sessions EXCEPT ![s].status = status], plans' = plans
  PROVE  SessionsOK'
  <1>1. AllPlans' = AllPlans
    BY DEF AllPlans
  <1>2. SessionOK([sessions[s] EXCEPT !.status = status])
    BY DEF ExecutorInv, SessionsOK, SessionOK, Session
  <1>3. /\ DOMAIN sessions' = DOMAIN sessions
        /\ sessions'[s] = [sessions[s] EXCEPT !.status = status]
        /\ \A r \in DOMAIN sessions : r # s => sessions'[r] = sessions[r]
    OBVIOUS
  <1> QED BY <1>1, <1>2, <1>3 DEF ExecutorInv, SessionsOK, SessionOK

LEMMA StatusStep ==
  ASSUME ExecutorInv, NEW c \in Clients, PauseSession(c) \/ ResumeSession(c), plans' = plans
  PROVE  ExecutorInv'
  <1>1. PICK status \in {"Running", "Paused"} :
          /\ call[c].session \in DOMAIN sessions /\ Granted(c) /\ Returns(c)
          /\ sessions' = [sessions EXCEPT ![call[c].session].status = status]
    BY DEF PauseSession, ResumeSession, Has, Serves
  <1>2. SessionsOK'
    BY <1>1, StatusSet
  <1> QED BY <1>1, <1>2, ReturnKeeps

LEMMA CancelStep ==
  ASSUME ExecutorInv, NEW c \in Clients, CancelSession(c), plans' = plans
  PROVE  ExecutorInv'
  <1>1. /\ Granted(c) /\ Returns(c)
        /\ sessions' = [s \in DOMAIN sessions \ {call[c].session} |-> sessions[s]]
    BY DEF CancelSession, Serves
  <1>2. AllPlans' = AllPlans
    BY DEF AllPlans
  <1>3. SessionsOK'
    BY <1>1, <1>2 DEF ExecutorInv, SessionsOK, SessionOK
  <1> QED BY <1>1, <1>3, ReturnKeeps

LEMMA NothingStep ==
  ASSUME ExecutorInv, NEW c \in Clients, NothingToDo(c), plans' = plans
  PROVE  ExecutorInv'
  <1>1. Granted(c) /\ Returns(c) /\ sessions' = sessions
    BY DEF NothingToDo, Refused, Serves
  <1>2. AllPlans' = AllPlans
    BY DEF AllPlans
  <1>3. SessionsOK'
    BY <1>1, <1>2 DEF ExecutorInv, SessionsOK, SessionOK
  <1> QED BY <1>1, <1>3, ReturnKeeps

LEMMA BeginStep ==
  ASSUME ExecutorInv, NEW c \in Clients, BeginExecute(c), plans' = plans
  PROVE  ExecutorInv'
  <1> DEFINE s == call[c].session
             request == [call[c] EXCEPT !.phase = "prefill", !.stage = 1]
  <1>1. /\ Serves(c, "execute") /\ s \in DOMAIN sessions
        /\ Granted(c) /\ call[c] \in CallState /\ call[c].kind = "execute"
    BY ServedIsTyped DEF BeginExecute, Has, Kinds
  <1>2. SessionOK(sessions[s])
    BY <1>1 DEF ExecutorInv, SessionsOK
  <1>3. /\ StageCount(c) \in Nat /\ StageCount(c) = Len(sessions[s].stage_states)
    BY <1>2, StageStates DEF StageCount
  <1>4. CASE StageCount(c) = 0
    <2>1. /\ sessions' = [sessions EXCEPT ![s].status = "Running"] /\ Returns(c)
      BY <1>4 DEF BeginExecute
    <2>2. SessionsOK'
      BY <1>1, <2>1, StatusSet
    <2> QED BY <1>1, <2>1, <2>2, ReturnKeeps
  <1>5. CASE StageCount(c) # 0
    <2>1. /\ sessions' = [sessions EXCEPT ![s] = Starting(sessions[s], 1)]
          /\ call' = [call EXCEPT ![c].phase = "prefill", ![c].stage = 1]
          /\ UNCHANGED <<queue, calls>>
      BY <1>5 DEF BeginExecute
    <2>2. call' = [call EXCEPT ![c] = request]
      BY <2>1 DEF ExecutorInv
    <2>3. /\ request \in CallState /\ request.kind = "execute" /\ request.session = s
          /\ request.phase = "prefill" /\ request.stage = 1
      BY <1>1 DEF CallState
    <2>4. 1 \in 1..Len(sessions[s].stage_states)
      BY <1>3, <1>5
    <2>5. /\ SessionOK(Starting(sessions[s], 1))
          /\ PassOK(Starting(sessions[s], 1), "prefill", 1)
      BY <1>2, <2>4, StartingFacts DEF PassOK
    <2> HIDE DEF request
    <2> DEFINE state == Starting(sessions[s], 1)
    <2>6. /\ SessionOK(state) /\ PassOK(state, request.phase, request.stage)
          /\ sessions' = [sessions EXCEPT ![s] = state]
          /\ request.phase \in {"prefill", "decode"} /\ request.phase # "decode"
      BY <2>1, <2>3, <2>5
    <2>7. Granted(c) /\ s \in DOMAIN sessions /\ UNCHANGED <<queue, calls, plans>>
      BY <1>1, <2>1
    <2> HIDE DEF s, state
    <2> QED BY <2>2, <2>3, <2>6, <2>7, ExecutionKeeps
  <1> QED BY <1>4, <1>5

\* Before and after a stage: the session of an execution.
LEMMA ExecutingFacts ==
  ASSUME ExecutorInv, NEW c \in Clients, Executing(c)
  PROVE  /\ Granted(c) /\ call[c].kind = "execute" /\ call[c] \in CallState
         /\ call[c].phase = "decode" => call[c].left > 0
         /\ call[c].phase \in {"prefill", "decode"}
         /\ PassOK(sessions[call[c].session], call[c].phase, call[c].stage)
  BY DEF ExecutorInv, Execution, Executing

LEMMA NextStageStep ==
  ASSUME ExecutorInv, NEW c \in Clients, NextStage(c), plans' = plans
  PROVE  ExecutorInv'
  <1> DEFINE s == call[c].session
             k == call[c].stage
             phase == call[c].phase
             next == Starting(Ended(c), k + 1)
             request == [call[c] EXCEPT !.stage = @ + 1]
  <1>1. /\ Executing(c) /\ k < StageCount(c)
        /\ sessions' = [sessions EXCEPT ![s] = next]
        /\ call' = [call EXCEPT ![c].stage = @ + 1]
        /\ UNCHANGED <<queue, calls>>
    BY DEF NextStage
  <1>2. /\ s \in DOMAIN sessions /\ SessionOK(Ended(c))
        /\ Len(Ended(c).stage_states) = StageCount(c) /\ StageCount(c) \in Nat
        /\ StageCount(c) = Len(sessions[s].stage_states)
        /\ k \in 1..StageCount(c) /\ Ended(c).stage_states[k] = DoneAs(phase)
        /\ \A i \in 1..StageCount(c) :
             i # k => Ended(c).stage_states[i] = sessions[s].stage_states[i]
    BY <1>1, EndedFacts
  <1>3. k + 1 \in 1..Len(Ended(c).stage_states)
    BY <1>1, <1>2
  <1>4. /\ SessionOK(next) /\ next.status = "Running"
        /\ Len(next.stage_states) = StageCount(c) /\ next.stage_states[k + 1] = "Executing"
        /\ \A i \in 1..StageCount(c) :
             i # k + 1 => next.stage_states[i] = Ended(c).stage_states[i]
    <2>1. /\ SessionOK(next) /\ next.status = "Running"
          /\ Len(next.stage_states) = Len(Ended(c).stage_states)
          /\ next.stage_states[k + 1] = "Executing"
          /\ \A i \in 1..Len(Ended(c).stage_states) :
               i # k + 1 => next.stage_states[i] = Ended(c).stage_states[i]
      BY <1>2, <1>3, StartingFacts
    <2> QED BY <1>2, <2>1
  <1> HIDE DEF next
  <1>5. PassOK(sessions[s], phase, k)
    BY <1>1, ExecutingFacts
  <1>6. PassOK(next, phase, k + 1)
    <2>1. \A i \in 1..k : next.stage_states[i] = DoneAs(phase)
      <3>1. \A i \in 1..k : i # k => i \in 1..(k - 1) /\ i \in 1..StageCount(c) /\ i # k + 1
        BY <1>2
      <3> QED BY <1>2, <1>4, <1>5, <3>1 DEF PassOK
    <2>2. ASSUME phase = "decode", NEW i \in (k + 2)..StageCount(c)
          PROVE  next.stage_states[i] \in {"Completed", "Ready"}
      <3>1. i \in (k + 1)..StageCount(c) /\ i \in 1..StageCount(c) /\ i # k /\ i # k + 1
        BY <1>2
      <3> QED BY <1>2, <1>4, <1>5, <2>2, <3>1 DEF PassOK
    <2>3. (k + 1) - 1 = k /\ (k + 1) + 1 = k + 2
      BY <1>2
    <2> QED BY <1>2, <1>3, <1>4, <2>1, <2>2, <2>3 DEF PassOK
  <1>7. /\ Granted(c) /\ call[c] \in CallState /\ call[c].kind = "execute"
        /\ phase \in {"prefill", "decode"} /\ (phase = "decode" => call[c].left > 0)
    BY <1>1, ExecutingFacts
  <1>8. call' = [call EXCEPT ![c] = request]
    BY <1>1 DEF ExecutorInv
  <1>9. /\ request \in CallState /\ request.kind = "execute" /\ request.session = s
        /\ request.phase = phase /\ request.stage = k + 1 /\ request.left = call[c].left
    BY <1>7 DEF CallState
  <1>10. /\ PassOK(next, request.phase, request.stage)
         /\ request.phase \in {"prefill", "decode"}
         /\ request.phase = "decode" => request.left > 0
    BY <1>6, <1>7, <1>9
  <1> HIDE DEF request, s, k, phase
  <1> QED BY <1>1, <1>2, <1>4, <1>7, <1>8, <1>9, <1>10, ExecutionKeeps

LEMMA TokenFacts ==
  ASSUME NEW c \in Clients, call[c] \in CallState,
         call[c].phase = "decode" => call[c].left > 0
  PROVE  Token(c) \in Tokens /\ Left(c) \in 0..MaxTokens
  <1>1. call[c].token \in Tokens /\ call[c].left \in 0..MaxTokens
    BY DEF CallState
  <1>2. ASSUME NEW t \in Nat PROVE t % Vocabulary \in Tokens
    BY ExecutorAssumption DEF Tokens
  <1>3. call[c].token + 1 \in Nat
    BY <1>1, ExecutorAssumption DEF Tokens
  <1>4. Token(c) \in Tokens
    BY <1>1, <1>2, <1>3 DEF Token
  <1>5. Left(c) \in 0..MaxTokens
    BY <1>1, ExecutorAssumption DEF Left
  <1> QED BY <1>4, <1>5

LEMMA NextPassStep ==
  ASSUME ExecutorInv, NEW c \in Clients, NextPass(c), plans' = plans
  PROVE  ExecutorInv'
  <1> DEFINE s == call[c].session
             k == call[c].stage
             next == Starting(Ended(c), 1)
             request == [call[c] EXCEPT !.phase = "decode", !.stage = 1,
                                        !.token = Token(c), !.left = Left(c)]
  <1>1. /\ Executing(c) /\ k = StageCount(c) /\ Left(c) # 0
        /\ sessions' = [sessions EXCEPT ![s] = next]
        /\ call' = [call EXCEPT ![c] = request]
        /\ UNCHANGED <<queue, calls>>
    BY DEF NextPass, LastStageRuns, Over, FirstStage
  <1>2. /\ s \in DOMAIN sessions /\ SessionOK(Ended(c))
        /\ Len(Ended(c).stage_states) = StageCount(c) /\ StageCount(c) \in Nat
        /\ StageCount(c) = Len(sessions[s].stage_states)
        /\ k \in 1..StageCount(c) /\ Ended(c).stage_states[k] = DoneAs(call[c].phase)
        /\ \A i \in 1..StageCount(c) :
             i # k => Ended(c).stage_states[i] = sessions[s].stage_states[i]
    BY <1>1, EndedFacts
  <1>3. 1 \in 1..Len(Ended(c).stage_states)
    BY <1>2
  <1>4. /\ SessionOK(next) /\ next.status = "Running"
        /\ Len(next.stage_states) = StageCount(c) /\ next.stage_states[1] = "Executing"
        /\ \A i \in 1..StageCount(c) :
             i # 1 => next.stage_states[i] = Ended(c).stage_states[i]
    BY <1>2, <1>3, StartingFacts
  <1> HIDE DEF next
  <1>5. /\ PassOK(sessions[s], call[c].phase, k)
        /\ Granted(c) /\ call[c] \in CallState /\ call[c].kind = "execute"
        /\ call[c].phase = "decode" => call[c].left > 0
    BY <1>1, ExecutingFacts
  <1>6. PassOK(next, "decode", 1)
    <2>1. ASSUME NEW i \in 2..StageCount(c)
          PROVE  next.stage_states[i] \in {"Completed", "Ready"}
      <3>1. i \in 1..StageCount(c) /\ i # 1 /\ (i # k => i \in 1..(k - 1))
        BY <1>1, <1>2
      <3>2. CASE i = k
        BY <1>2, <1>4, <3>1, <3>2 DEF DoneAs
      <3>3. CASE i # k
        BY <1>2, <1>4, <1>5, <3>1, <3>3 DEF PassOK, DoneAs
      <3> QED BY <3>2, <3>3
    <2> QED BY <1>2, <1>3, <1>4, <2>1 DEF PassOK
  <1>7. Token(c) \in Tokens /\ Left(c) \in 0..MaxTokens /\ Left(c) > 0
    BY <1>1, <1>5, TokenFacts
  <1>8. /\ request \in CallState /\ request.kind = "execute" /\ request.session = s
        /\ request.phase = "decode" /\ request.stage = 1 /\ request.left > 0
    BY <1>5, <1>7 DEF CallState
  <1> HIDE DEF request
  <1> QED BY <1>1, <1>2, <1>4, <1>5, <1>6, <1>8, ExecutionKeeps

LEMMA FinishStep ==
  ASSUME ExecutorInv, NEW c \in Clients, FinishExecute(c), plans' = plans
  PROVE  ExecutorInv'
  <1>1. /\ Executing(c) /\ Returns(c)
        /\ sessions' = [sessions EXCEPT ![call[c].session] = Ended(c)]
    BY DEF FinishExecute, LastStageRuns
  <1>2. call[c].session \in DOMAIN sessions /\ SessionOK(Ended(c)) /\ Granted(c)
    BY <1>1, EndedFacts, ExecutingFacts
  <1>3. /\ DOMAIN sessions' = DOMAIN sessions /\ sessions'[call[c].session] = Ended(c)
        /\ \A r \in DOMAIN sessions : r # call[c].session => sessions'[r] = sessions[r]
    BY <1>1, <1>2
  <1>4. AllPlans' = AllPlans
    BY DEF AllPlans
  <1>5. SessionsOK'
    BY <1>2, <1>3, <1>4 DEF ExecutorInv, SessionsOK, SessionOK
  <1> QED BY <1>1, <1>2, <1>5, ReturnKeeps

LEMMA CallStep ==
  ASSUME ExecutorInv, NEW c \in Clients, NEW request \in CallState,
         request.kind # "none", request.session \in Sessions, request.phase = "none",
         Call(c, request), plans' = plans
  PROVE  ExecutorInv'
  <1>1. /\ call[c] = NoCall /\ calls < MaxCalls /\ calls' = calls + 1
        /\ call' = [call EXCEPT ![c] = request] /\ queue' = Append(queue, c)
        /\ sessions' = sessions
    BY DEF Call
  <1>2. CallState' = CallState /\ AllPlans' = AllPlans
    BY DEF CallState, AllPlans
  <1>3. /\ call' \in [Clients -> CallState] /\ call'[c] = request
        /\ \A d \in Clients : d # c => call'[d] = call[d]
    BY <1>1 DEF ExecutorInv
  <1>4. queue' \in Seq(Clients) /\ (queue # <<>> => queue' # <<>> /\ Head(queue') = Head(queue))
    BY <1>1 DEF ExecutorInv
  <1>5. calls' \in 0..MaxCalls
    BY <1>1, ExecutorAssumption DEF ExecutorInv
  <1>6. SessionsOK'
    BY <1>1, <1>2 DEF ExecutorInv, SessionsOK, SessionOK
  <1>7. Execution'
    <2> SUFFICES ASSUME NEW d \in Clients, Executing(d)'
                 PROVE  /\ Granted(d)' /\ call'[d].kind = "execute"
                        /\ call'[d].phase = "decode" => call'[d].left > 0
                        /\ call'[d].session \in DOMAIN sessions'
                        /\ PassOK(sessions'[call'[d].session], call'[d].phase, call'[d].stage)
      BY DEF Execution, PassOK
    <2>1. d # c /\ call'[d] = call[d] /\ Executing(d)
      BY <1>3 DEF Executing
    <2> QED BY <1>1, <1>4, <2>1 DEF ExecutorInv, Execution, Granted
  <1>8. \A d \in Clients : call'[d].kind # "none" => call'[d].session \in Sessions
    BY <1>3 DEF ExecutorInv
  <1> QED BY <1>2, <1>3, <1>4, <1>5, <1>6, <1>7, <1>8 DEF ExecutorInv

LEMMA RequestIs ==
  ASSUME NEW kind, NEW s
  PROVE  Request(kind, s) = [kind |-> kind, session |-> s, plan |-> NoPlan,
                             phase |-> "none", stage |-> 0, token |-> 0, left |-> 0]
  <1> DEFINE asked == [NoCall EXCEPT !.kind = kind]
  <1>1. asked = [kind |-> kind, session |-> NoSession, plan |-> NoPlan,
                 phase |-> "none", stage |-> 0, token |-> 0, left |-> 0]
    BY DEF NoCall
  <1>2. Request(kind, s) = [asked EXCEPT !.session = s]
    BY DEF Request
  <1> HIDE DEF asked
  <1> QED BY <1>1, <1>2

LEMMA UsePlanStep ==
  ASSUME ExecutorInv, NEW c \in Clients, UsePlan(c)
  PROVE  ExecutorInv'
  <1>1. plans' = plans
    BY DEF UsePlan
  <1>2. ASSUME NEW s \in Sessions, NEW kind \in Kinds, NEW p \in AllPlans,
               NEW t \in Tokens, NEW n \in 0..MaxTokens
        PROVE  LET request == [kind |-> kind, session |-> s, plan |-> p, phase |-> "none",
                               stage |-> 0, token |-> t, left |-> n]
               IN request \in CallState /\ request.kind # "none"
    BY <1>2 DEF CallState, Kinds
  <1>3. ASSUME NEW s \in Sessions, NEW kind \in Kinds, Call(c, Request(kind, s))
        PROVE  ExecutorInv'
    <2>1. Request(kind, s) = [kind |-> kind, session |-> s, plan |-> NoPlan, phase |-> "none",
                              stage |-> 0, token |-> 0, left |-> 0]
      BY RequestIs
    <2>2. NoPlan \in AllPlans /\ 0 \in Tokens /\ 0 \in 0..MaxTokens
      BY ExecutorAssumption DEF AllPlans, Tokens
    <2>3. /\ Request(kind, s) \in CallState /\ Request(kind, s).kind # "none"
          /\ Request(kind, s).session = s /\ Request(kind, s).phase = "none"
      BY <1>2, <2>1, <2>2
    <2> QED BY <1>1, <1>3, <2>3, CallStep
  <1>4. ASSUME NEW s \in Sessions, NEW t \in Tokens, NEW n \in 0..MaxTokens,
               Call(c, [Request("execute", s) EXCEPT !.token = t, !.left = n])
        PROVE  ExecutorInv'
    <2> DEFINE request == [Request("execute", s) EXCEPT !.token = t, !.left = n]
    <2>1. request = [kind |-> "execute", session |-> s, plan |-> NoPlan, phase |-> "none",
                     stage |-> 0, token |-> t, left |-> n]
      <3> DEFINE asked == [Request("execute", s) EXCEPT !.token = t]
      <3>1. asked = [kind |-> "execute", session |-> s, plan |-> NoPlan, phase |-> "none",
                     stage |-> 0, token |-> t, left |-> 0]
        BY RequestIs
      <3>2. request = [asked EXCEPT !.left = n]
        OBVIOUS
      <3> HIDE DEF asked, request
      <3> QED BY <3>1, <3>2
    <2>2. NoPlan \in AllPlans /\ "execute" \in Kinds
      BY DEF AllPlans, Kinds
    <2> HIDE DEF request
    <2>3. /\ request \in CallState /\ request.kind # "none"
          /\ request.session = s /\ request.phase = "none"
      BY <1>2, <2>1, <2>2
    <2>4. Call(c, request)
      BY <1>4 DEF request
    <2> QED BY <1>1, <2>3, <2>4, CallStep
  <1>5. ASSUME NEW s \in Sessions, NEW p \in plans,
               Call(c, [Request("initialize", s) EXCEPT !.plan = p])
        PROVE  ExecutorInv'
    <2> DEFINE request == [Request("initialize", s) EXCEPT !.plan = p]
    <2>1. request = [kind |-> "initialize", session |-> s, plan |-> p, phase |-> "none",
                     stage |-> 0, token |-> 0, left |-> 0]
      BY RequestIs
    <2>2. p \in AllPlans /\ "initialize" \in Kinds /\ 0 \in Tokens /\ 0 \in 0..MaxTokens
      BY ExecutorAssumption DEF AllPlans, Kinds, Tokens
    <2> HIDE DEF request
    <2>3. /\ request \in CallState /\ request.kind # "none"
          /\ request.session = s /\ request.phase = "none"
      BY <1>2, <2>1, <2>2
    <2>4. Call(c, request)
      BY <1>5 DEF request
    <2> QED BY <1>1, <2>3, <2>4, CallStep
  <1> QED BY <1>3, <1>4, <1>5 DEF UsePlan, PlainCall, InitializeWith

\* A client that gives up leaves the queue; the first stays first.
LEMMA DropStep ==
  ASSUME ExecutorInv, NEW c \in Clients, DropCall(c), plans' = plans
  PROVE  ExecutorInv'
  <1>1. /\ call' = [call EXCEPT ![c] = NoCall] /\ UNCHANGED <<sessions, calls>>
    BY DEF DropCall
  <1>2. PICK i \in DOMAIN queue :
          /\ queue[i] = c
          /\ queue' = SubSeq(queue, 1, i - 1) \o SubSeq(queue, i + 1, Len(queue))
    BY DEF DropCall
  <1>3. i \in 1..Len(queue) /\ Len(queue) \in Nat /\ queue \in Seq(Clients)
    BY <1>2 DEF ExecutorInv
  <1>4. /\ SubSeq(queue, 1, i - 1) \in Seq(Clients)
        /\ SubSeq(queue, i + 1, Len(queue)) \in Seq(Clients)
        /\ Len(SubSeq(queue, 1, i - 1)) = i - 1
        /\ i # 1 => SubSeq(queue, 1, i - 1)[1] = queue[1]
    BY <1>3
  <1>5. /\ queue' \in Seq(Clients)
        /\ i # 1 => queue' # <<>> /\ Head(queue') = Head(queue)
    <2> DEFINE front == SubSeq(queue, 1, i - 1)
               back == SubSeq(queue, i + 1, Len(queue))
    <2>1. /\ queue' = front \o back /\ front \in Seq(Clients) /\ back \in Seq(Clients)
          /\ Len(front) = i - 1
          /\ i # 1 => front[1] = queue[1]
      BY <1>2, <1>4
    <2> HIDE DEF front, back
    <2>2. queue' \in Seq(Clients)
      BY <2>1
    <2>3. ASSUME i # 1
          PROVE  queue' # <<>> /\ Head(queue') = Head(queue)
      <3>1. Len(front) \in Nat /\ Len(front) # 0 /\ Len(back) \in Nat
        BY <1>3, <2>1, <2>3
      <3>2. Len(queue') = Len(front) + Len(back) /\ queue'[1] = front[1]
        <4>1. front \in Seq(Clients) /\ back \in Seq(Clients)
          BY <2>1
        <4>2. /\ Len(front \o back) = Len(front) + Len(back)
              /\ (front \o back)[1] = front[1]
          BY ONLY <3>1, <4>1
        <4> QED BY ONLY <2>1, <4>2
      <3>3. queue' # <<>> /\ queue # <<>>
        BY <1>3, <2>1, <3>1, <3>2
      <3>4. Head(queue') = queue'[1] /\ Head(queue) = queue[1]
        BY <1>3, <2>2, <3>3
      <3> QED BY <2>1, <2>3, <3>2, <3>3, <3>4
    <2> QED BY <2>2, <2>3
  <1>6. CallState' = CallState /\ AllPlans' = AllPlans
    BY DEF CallState, AllPlans
  <1>7. /\ call' \in [Clients -> CallState] /\ call'[c] = NoCall
        /\ \A d \in Clients : d # c => call'[d] = call[d]
    BY <1>1, NoCallIsACall DEF ExecutorInv
  <1>8. SessionsOK'
    BY <1>1, <1>6 DEF ExecutorInv, SessionsOK, SessionOK
  <1>9. Execution'
    <2> SUFFICES ASSUME NEW d \in Clients, Executing(d)'
                 PROVE  /\ Granted(d)' /\ call'[d].kind = "execute"
                        /\ call'[d].phase = "decode" => call'[d].left > 0
                        /\ call'[d].session \in DOMAIN sessions'
                        /\ PassOK(sessions'[call'[d].session], call'[d].phase, call'[d].stage)
      BY DEF Execution, PassOK
    <2>1. d # c /\ call'[d] = call[d] /\ Executing(d)
      BY <1>7, NoCallIsACall DEF Executing
    <2>2. Granted(d)
      BY <2>1, ExecutingFacts
    <2>3. i # 1
      BY <1>2, <1>3, <2>1, <2>2 DEF Granted
    <2>4. Granted(d)'
      BY <1>5, <2>2, <2>3 DEF Granted
    <2> QED BY <1>1, <2>1, <2>4 DEF ExecutorInv, Execution
  <1>10. \A d \in Clients : call'[d].kind # "none" => call'[d].session \in Sessions
    BY <1>7, NoCallIsACall DEF ExecutorInv
  <1> QED BY <1>1, <1>5, <1>6, <1>7, <1>8, <1>9, <1>10 DEF ExecutorInv

-----------------------------------------------------------------------------
(* The plans, and the invariant *)

LEMMA PlanMade ==
  ASSUME PlannerInv, planning = "planned"
  PROVE  Tiles(ThePlan)
  <1> DEFINE parts == [k \in DOMAIN stages |->
                         [first |-> stages[k].first, end |-> stages[k].end]]
  <1>1. stages \in Seq(StagePlan) /\ layers \in Nat
    BY PlannerAssumption DEF PlannerInv, PlannerTypeOK
  <1>2. \A k \in 1..Len(stages) : stages[k].first \in Nat /\ stages[k].end \in Nat
    <2>1. \A k \in 1..Len(stages) : stages[k] \in StagePlan
      BY <1>1
    <2> QED BY <2>1 DEF StagePlan
  <1>3. DOMAIN stages = 1..Len(stages) /\ Len(stages) \in Nat
    BY <1>1
  <1>4. /\ parts \in Seq([first : Nat, end : Nat]) /\ Len(parts) = Len(stages)
        /\ \A k \in 1..Len(stages) :
             parts[k].first = stages[k].first /\ parts[k].end = stages[k].end
    BY <1>2, <1>3
  <1>5. ThePlan = [layers |-> layers, stages |-> parts]
    BY DEF ThePlan
  <1> HIDE DEF parts
  <1>6. ThePlan \in PlanShape /\ ThePlan.stages = parts /\ ThePlan.layers = layers
    BY <1>1, <1>4, <1>5 DEF PlanShape
  <1>7. \A k \in 1..Len(stages) :
          /\ stages[k].first = (IF k = 1 THEN 0 ELSE stages[k - 1].end)
          /\ k = Len(stages) => stages[k].end = layers
    BY <1>1 DEF PlannerInv, StagesTile, Planned
  <1>8. ASSUME NEW k \in 1..Len(stages)
        PROVE  /\ parts[k].first = (IF k = 1 THEN 0 ELSE parts[k - 1].end)
               /\ k = Len(stages) => parts[k].end = layers
    <2>1. k # 1 => k - 1 \in 1..Len(stages)
      BY <1>3
    <2> QED BY <1>4, <1>7, <2>1
  <1> QED BY <1>4, <1>6, <1>8 DEF Tiles

LEMMA MakePlanStep ==
  ASSUME IInv, MakePlan
  PROVE  IInv'
  <1>1. PlannerInv'
    BY CreatePlanStep, AddStageStep, FinishPlanStep, ReturnStep DEF MakePlan, IInv
  <1>2. /\ sessions' = sessions /\ call' = call /\ queue' = queue /\ calls' = calls
    BY DEF MakePlan, executorVars
  <1>3. plans' = plans \/ (planning = "planned" /\ plans' = plans \cup {ThePlan})
    BY DEF MakePlan
  <1>4. AllPlans \subseteq AllPlans' /\ \A p \in AllPlans' : Tiles(p)
    BY <1>3, PlanMade DEF AllPlans, IInv, ExecutorInv
  <1>5. CallState \subseteq CallState'
    BY <1>4 DEF CallState
  <1>6. \A session : SessionOK(session) => SessionOK(session)'
    BY <1>4 DEF SessionOK, Session
  <1>7. SessionsOK'
    BY <1>2, <1>6 DEF IInv, ExecutorInv, SessionsOK, SessionOK
  <1>8. call' \in [Clients -> CallState']
    BY <1>2, <1>5 DEF IInv, ExecutorInv
  <1>9. Execution'
    BY <1>2 DEF IInv, ExecutorInv, Execution, Executing, Granted, PassOK
  <1>10. ExecutorInv'
    BY <1>2, <1>4, <1>7, <1>8, <1>9 DEF IInv, ExecutorInv
  <1> QED BY <1>1, <1>10 DEF IInv

LEMMA InitIInv == Init => IInv
  <1> SUFFICES ASSUME Init PROVE IInv
    OBVIOUS
  <1>1. PlannerInv
    BY InitPlannerInv DEF Init
  <1>2. AllPlans = {NoPlan} /\ Tiles(NoPlan)
    BY DEF Init, AllPlans, NoPlan, Tiles, PlanShape
  <1>3. call \in [Clients -> CallState] /\ \A c \in Clients : ~Executing(c)
    BY NoCallIsACall DEF Init, ExecutorInit, Executing
  <1>4. SessionsOK
    BY DEF Init, ExecutorInit, SessionsOK
  <1>5. queue \in Seq(Clients) /\ calls \in 0..MaxCalls
    BY ExecutorAssumption DEF Init, ExecutorInit
  <1>6. \A c \in Clients : call[c].kind = "none"
    BY NoCallIsACall DEF Init, ExecutorInit
  <1>7. ExecutorInv
    BY <1>2, <1>3, <1>4, <1>5, <1>6 DEF ExecutorInv, Execution
  <1> QED BY <1>1, <1>7 DEF IInv

LEMMA RunStep ==
  ASSUME ExecutorInv, NEW c \in Clients, Serve(c), plans' = plans
  PROVE  ExecutorInv'
  BY InitializeStep, StatusStep, CancelStep, NothingStep, BeginStep, NextStageStep,
     NextPassStep, FinishStep DEF Serve

LEMMA NextIInv == IInv /\ [Next]_vars => IInv'
  <1> SUFFICES ASSUME IInv, [Next]_vars PROVE IInv'
    OBVIOUS
  <1>1. CASE UNCHANGED vars
    <2>1. PlannerInv'
      BY <1>1, StutterStep DEF IInv, vars
    <2>2. UNCHANGED <<sessions, call, queue, calls, plans>>
      BY <1>1 DEF vars, executorVars
    <2>3. CallState' = CallState /\ AllPlans' = AllPlans
      BY <2>2 DEF CallState, AllPlans
    <2>4. SessionsOK'
      BY <2>2, <2>3 DEF IInv, ExecutorInv, SessionsOK, SessionOK
    <2>5. Execution'
      BY <2>2 DEF IInv, ExecutorInv, Execution, Executing, Granted, PassOK
    <2>6. ExecutorInv'
      BY <2>2, <2>3, <2>4, <2>5 DEF IInv, ExecutorInv
    <2> QED BY <2>1, <2>6 DEF IInv
  <1>2. ASSUME NEW c \in Clients, UsePlan(c) \/ Run(c) \/ GiveUp(c)
        PROVE  IInv'
    <2>1. PlannerInv'
      BY <1>2, StutterStep DEF IInv, UsePlan, Run, GiveUp
    <2>2. ExecutorInv'
      BY <1>2, UsePlanStep, RunStep, DropStep DEF IInv, Run, GiveUp
    <2> QED BY <2>1, <2>2 DEF IInv
  <1> QED BY <1>1, <1>2, MakePlanStep DEF Next

LEMMA Invariance == Spec => []IInv
  <1>1. Init => IInv
    BY InitIInv
  <1>2. IInv /\ [Next]_vars => IInv'
    BY NextIInv
  <1> QED BY <1>1, <1>2, PTL DEF Spec

(* TypeOK: the planner's and the executor's variables; sessions and calls have
   plans that create_plan made. *)
THEOREM TypeCorrect == Spec => []TypeOK
  <1>1. IInv => TypeOK
    <2> SUFFICES ASSUME IInv PROVE TypeOK
      OBVIOUS
    <2>1. PlannerTypeOK
      BY DEF IInv, PlannerInv
    <2>2. ExecutorTypeOK(plans \cup {NoPlan})
      BY DEF IInv, ExecutorInv, ExecutorTypeOK, SessionsOK, SessionOK, AllPlans, CallState
    <2> QED BY <2>1, <2>2 DEF TypeOK
  <1> QED BY <1>1, Invariance, PTL

(* PassesInOrder: no pause, cancel or second request gets between two stages
   of an execution. *)
THEOREM StagesRunInOrder == Spec => []PassesInOrder
  <1>1. IInv => PassesInOrder
    BY DEF IInv, ExecutorInv, Execution, PassOK, PassesInOrder
  <1> QED BY <1>1, Invariance, PTL

(* EveryLayerPlaced: whatever the number of layers and nodes, a plan of
   create_plan runs every layer once, in order. *)
THEOREM LayersArePlaced == Spec => []EveryLayerPlaced
  <1>1. IInv => EveryLayerPlaced
    BY PlacedIfPlanned DEF IInv
  <1> QED BY <1>1, Invariance, PTL

(* StagesOnTheRightNodes: the stages of a plan are on different Healthy nodes
   of the kind its strategy wants. *)
THEOREM NodesAreRight == Spec => []StagesOnTheRightNodes
  <1>1. IInv => StagesOnTheRightNodes
    BY RightIfPlanned DEF IInv
  <1> QED BY <1>1, Invariance, PTL

-----------------------------------------------------------------------------
(* What a step may not do *)

LEMMA OnlyResumed ==
  ASSUME IInv, [Next]_vars, NEW s \in DOMAIN sessions \cap DOMAIN sessions',
         sessions[s].status = "Paused", sessions'[s].status = "Running"
  PROVE  call[Head(queue)].kind = "resume" /\ call[Head(queue)].session = s
  <1>1. ASSUME sessions' = sessions PROVE FALSE
    BY <1>1
  <1>2. PICK c \in Clients : Serve(c)
    BY <1>1 DEF Next, MakePlan, UsePlan, PlainCall, InitializeWith, Call, GiveUp, DropCall,
                Run, vars, executorVars
  <1>3. CASE InitializeSession(c)
    BY <1>3 DEF InitializeSession, Update
  <1>4. CASE PauseSession(c)
    BY <1>4 DEF PauseSession
  <1>5. CASE ResumeSession(c)
    <2>1. /\ call[c].kind = "resume" /\ Head(queue) = c
          /\ sessions' = [sessions EXCEPT ![call[c].session].status = "Running"]
      BY <1>5 DEF ResumeSession, Serves, Granted
    <2> QED BY <2>1
  <1>6. CASE CancelSession(c)
    BY <1>6 DEF CancelSession
  <1>7. CASE NothingToDo(c)
    BY <1>1, <1>7 DEF NothingToDo
  <1>8. CASE BeginExecute(c)
    <2>1. /\ sessions[call[c].session].status # "Paused"
          /\ \A r \in DOMAIN sessions : r # call[c].session => sessions'[r] = sessions[r]
      BY <1>8 DEF BeginExecute, Has, Executable
    <2> QED BY <2>1
  <1>9. CASE NextStage(c) \/ NextPass(c) \/ FinishExecute(c)
    <2>1. /\ Executing(c)
          /\ \A r \in DOMAIN sessions : r # call[c].session => sessions'[r] = sessions[r]
      BY <1>9 DEF NextStage, NextPass, FinishExecute, LastStageRuns
    <2>2. sessions[call[c].session].status = "Running"
      BY <2>1, ExecutingFacts DEF IInv, PassOK
    <2> QED BY <2>1, <2>2
  <1> QED BY <1>2, <1>3, <1>4, <1>5, <1>6, <1>7, <1>8, <1>9 DEF Serve

(* PauseHolds: nothing but resume_session lets a paused session run. *)
THEOREM PausesHold == Spec => PauseHolds
  <1>1. IInv /\ [Next]_vars =>
          [\A s \in DOMAIN sessions \cap DOMAIN sessions' :
             sessions[s].status = "Paused" /\ sessions'[s].status = "Running" =>
               call[Head(queue)].kind = "resume"
                 /\ call[Head(queue)].session = s]_executorVars
    BY OnlyResumed
  <1> QED BY <1>1, Invariance, PTL DEF Spec, PauseHolds

\* The stages of a session's plan follow each other through the model.
LEMMA PlanTiles ==
  ASSUME ExecutorInv, NEW s \in DOMAIN sessions
  PROVE  LET p == sessions[s].plan
         IN /\ Len(p.stages) \in Nat
            /\ \A k \in 1..Len(p.stages) :
                 /\ p.stages[k].first = (IF k = 1 THEN 0 ELSE p.stages[k - 1].end)
                 /\ k = Len(p.stages) => p.stages[k].end = p.layers
  <1>1. sessions[s].plan \in AllPlans
    BY DEF ExecutorInv, SessionsOK, SessionOK, Session
  <1>2. Tiles(sessions[s].plan)
    BY <1>1 DEF ExecutorInv
  <1>3. sessions[s].plan.stages \in Seq([first : Nat, end : Nat])
    BY <1>2 DEF Tiles, PlanShape
  <1>4. Len(sessions[s].plan.stages) \in Nat
    BY <1>3
  <1> QED BY <1>2, <1>4 DEF Tiles

\* An execution starts, goes on or ends by its own steps only.
LEMMA OwnSteps ==
  ASSUME IInv, [Next]_vars, NEW c \in Clients
  PROVE  /\ ~Executing(c) /\ Executing(c)' => BeginExecute(c) /\ StageCount(c) # 0
         /\ Executing(c) /\ Executing(c)' /\ call'[c] # call[c] => NextStage(c) \/ NextPass(c)
         /\ Executing(c) /\ ~Executing(c)' /\ sessions' # sessions => FinishExecute(c)
  <1>0. call \in [Clients -> CallState]
    BY DEF IInv, ExecutorInv
  <1>1. ASSUME NEW d \in Clients, Serve(d)
        PROVE  /\ Granted(d)
               /\ \A b \in Clients : b # d => call'[b] = call[b] /\ ~Executing(b)
    <2>1. Granted(d)
      BY <1>1, ExecutingFacts
         DEF Serve, InitializeSession, PauseSession, ResumeSession, CancelSession, NothingToDo,
             Refused, BeginExecute, NextStage, NextPass, FinishExecute, LastStageRuns, Serves,
             IInv
    <2>2. \A b \in Clients : b # d => call'[b] = call[b]
      BY <1>0, <1>1
         DEF Serve, InitializeSession, PauseSession, ResumeSession, CancelSession, NothingToDo,
             BeginExecute, NextStage, NextPass, FinishExecute, Returns
    <2> QED BY <2>1, <2>2, AloneWithLock DEF IInv
  <1>2. ASSUME NEW d \in Clients, Serve(d), d # c
        PROVE  call'[c] = call[c] /\ ~Executing(c) /\ ~Executing(c)'
    BY <1>1, <1>2 DEF Executing
  <1>3. ASSUME Serve(c), ~(NextStage(c) \/ NextPass(c) \/ FinishExecute(c))
        PROVE  /\ ~Executing(c)
               /\ Executing(c)' => BeginExecute(c) /\ StageCount(c) # 0
    <2>1. ~Executing(c)
      BY <1>3 DEF Serve, InitializeSession, PauseSession, ResumeSession, CancelSession,
                  NothingToDo, Refused, BeginExecute, Serves, Executing
    <2>2. Returns(c) => ~Executing(c)'
      BY <1>0, NoCallIsACall DEF Returns, Executing
    <2> QED BY <1>3, <2>1, <2>2
            DEF Serve, InitializeSession, PauseSession, ResumeSession, CancelSession,
                NothingToDo, BeginExecute
  <1>4. NextStage(c) \/ NextPass(c) \/ FinishExecute(c) => Executing(c)
    BY DEF NextStage, NextPass, FinishExecute, LastStageRuns
  <1>5. FinishExecute(c) => ~Executing(c)'
    BY <1>0, NoCallIsACall DEF FinishExecute, Returns, Executing
  <1>6. NextStage(c) \/ NextPass(c) => Executing(c)'
    <2>1. CASE NextStage(c)
      <3>1. call'[c].phase = call[c].phase
        BY <1>0, <2>1 DEF NextStage, CallState
      <3> QED BY <1>4, <2>1, <3>1 DEF Executing
    <2>2. CASE NextPass(c)
      <3>1. call'[c].phase = "decode"
        BY <1>0, <2>2 DEF NextPass, CallState
      <3> QED BY <3>1 DEF Executing
    <2> QED BY <2>1, <2>2
  <1>7. ASSUME NEW d \in Clients, UsePlan(d)
        PROVE  /\ sessions' = sessions /\ (call'[c] = call[c] \/ ~Executing(c))
               /\ Executing(c)' => Executing(c)
    <2>1. PICK request : /\ Call(d, request) /\ request.phase = "none"
      <3>1. \A kind, s : Request(kind, s).phase = "none"
        BY RequestIs
      <3>2. \A s, t, n : [Request("execute", s) EXCEPT !.token = t, !.left = n].phase = "none"
        BY RequestIs
      <3>3. \A s, p : [Request("initialize", s) EXCEPT !.plan = p].phase = "none"
        BY RequestIs
      <3> QED BY <1>7, <3>1, <3>2, <3>3 DEF UsePlan, PlainCall, InitializeWith
    <2> QED BY <1>0, <2>1, NoCallIsACall DEF Call, Executing
  <1>8. ASSUME NEW d \in Clients, GiveUp(d)
        PROVE  sessions' = sessions /\ (call'[c] = call[c] \/ ~Executing(c)')
    BY <1>0, <1>8, NoCallIsACall DEF GiveUp, DropCall, Executing
  <1>9. CASE MakePlan \/ UNCHANGED vars
    BY <1>9 DEF MakePlan, vars, executorVars, Executing
  <1>10. ASSUME NEW d \in Clients, Run(d)
         PROVE  /\ ~Executing(c) /\ Executing(c)' => BeginExecute(c) /\ StageCount(c) # 0
                /\ Executing(c) /\ Executing(c)' /\ call'[c] # call[c]
                     => NextStage(c) \/ NextPass(c)
                /\ Executing(c) /\ ~Executing(c)' /\ sessions' # sessions => FinishExecute(c)
    BY <1>2, <1>3, <1>4, <1>5, <1>6, <1>10 DEF Run
  <1> QED BY <1>7, <1>8, <1>9, <1>10 DEF Next, Executing

LEMMA StepIsComplete ==
  ASSUME IInv, [Next]_vars, NEW c \in Clients
  PROVE  /\ ~Executing(c) /\ Executing(c)' => Layers(c)'.first = 0
         /\ Executing(c) /\ Executing(c)' /\ call'[c] # call[c] =>
              \/ Layers(c)'.first = Layers(c).end
              \/ Layers(c).end = Model(c) /\ Layers(c)'.first = 0
         /\ Executing(c) /\ ~Executing(c)' /\ sessions' # sessions =>
              Layers(c).end = Model(c)
  <1> DEFINE s == call[c].session
             k == call[c].stage
             p == sessions[s].plan
  <1>0. call \in [Clients -> CallState] /\ ExecutorInv
    BY DEF IInv, ExecutorInv
  <1>1. ASSUME BeginExecute(c), StageCount(c) # 0
        PROVE  Layers(c)'.first = 0
    <2>1. /\ s \in DOMAIN sessions
          /\ sessions' = [sessions EXCEPT ![s] = Starting(sessions[s], 1)]
          /\ call' = [call EXCEPT ![c].phase = "prefill", ![c].stage = 1]
      BY <1>1 DEF BeginExecute, Has
    <2>2. call'[c].session = s /\ call'[c].stage = 1
      BY <1>0, <2>1 DEF CallState
    <2>3. SessionOK(sessions[s]) /\ 1 \in 1..Len(p.stages)
      BY <1>0, <1>1, <2>1, PlanTiles DEF ExecutorInv, SessionsOK, StageCount
    <2>4. Starting(sessions[s], 1).plan = p
      BY <2>3, StartingFacts DEF SessionOK
    <2>5. p.stages[1].first = 0
      BY <1>0, <2>1, <2>3, PlanTiles
    <2> QED BY <2>1, <2>2, <2>4, <2>5 DEF Layers
  <1>2. ASSUME Executing(c)
        PROVE  /\ s \in DOMAIN sessions /\ k \in 1..Len(p.stages) /\ StageCount(c) = Len(p.stages)
               /\ SessionOK(Ended(c)) /\ Ended(c).plan = p
               /\ Len(Ended(c).stage_states) = Len(p.stages)
               /\ Layers(c) = p.stages[k] /\ Model(c) = p.layers
    BY <1>0, <1>2, EndedFacts DEF SessionOK, Layers, Model, StageCount
  <1>3. ASSUME NextStage(c)
        PROVE  Layers(c)'.first = Layers(c).end
    <2>1. /\ Executing(c) /\ k < StageCount(c)
          /\ sessions' = [sessions EXCEPT ![s] = Starting(Ended(c), k + 1)]
          /\ call' = [call EXCEPT ![c].stage = @ + 1]
      BY <1>3 DEF NextStage
    <2>2. call'[c].session = s /\ call'[c].stage = k + 1
      BY <1>0, <2>1 DEF CallState
    <2>3. k + 1 \in 1..Len(p.stages) /\ k \in 1..Len(p.stages)
      BY <1>0, <1>2, <2>1, PlanTiles
    <2>4. Starting(Ended(c), k + 1).plan = p
      BY <1>2, <2>1, <2>3, StartingFacts
    <2>5. p.stages[k + 1].first = p.stages[k].end
      <3>1. k + 1 # 1 /\ (k + 1) - 1 = k
        BY <2>3
      <3> QED BY <1>0, <1>2, <2>1, <2>3, <3>1, PlanTiles
    <2> QED BY <1>2, <2>1, <2>2, <2>4, <2>5 DEF Layers
  <1>4. ASSUME NextPass(c)
        PROVE  Layers(c).end = Model(c) /\ Layers(c)'.first = 0
    <2>1. /\ Executing(c) /\ k = StageCount(c)
          /\ sessions' = [sessions EXCEPT ![s] = Starting(Ended(c), 1)]
          /\ call' = [call EXCEPT ![c] = [@ EXCEPT !.phase = "decode", !.stage = 1,
                                            !.token = Token(c), !.left = Left(c)]]
      BY <1>4 DEF NextPass, LastStageRuns, FirstStage
    <2>2. call'[c].session = s /\ call'[c].stage = 1
      BY <1>0, <2>1 DEF CallState
    <2>3. 1 \in 1..Len(p.stages)
      BY <1>0, <1>2, <2>1, PlanTiles
    <2>4. Starting(Ended(c), 1).plan = p
      BY <1>2, <2>1, <2>3, StartingFacts
    <2>5. p.stages[1].first = 0 /\ p.stages[k].end = p.layers
      BY <1>0, <1>2, <2>1, <2>3, PlanTiles
    <2> QED BY <1>2, <2>1, <2>2, <2>4, <2>5 DEF Layers
  <1>5. ASSUME FinishExecute(c)
        PROVE  Layers(c).end = Model(c)
    <2>1. Executing(c) /\ k = StageCount(c)
      BY <1>5 DEF FinishExecute, LastStageRuns
    <2> QED BY <1>0, <1>2, <2>1, PlanTiles
  <1> QED BY <1>1, <1>3, <1>4, <1>5, OwnSteps

(* EveryPassIsComplete: every pass of an execution takes the context through
   all layers of the model, in their order. *)
THEOREM PassesAreComplete == Spec => EveryPassIsComplete
  <1>1. IInv /\ [Next]_vars =>
          [\A c \in Clients :
             /\ ~Executing(c) /\ Executing(c)' => Layers(c)'.first = 0
             /\ Executing(c) /\ Executing(c)' /\ call'[c] # call[c] =>
                  \/ Layers(c)'.first = Layers(c).end
                  \/ Layers(c).end = Model(c) /\ Layers(c)'.first = 0
             /\ Executing(c) /\ ~Executing(c)' /\ sessions' # sessions =>
                  Layers(c).end = Model(c)]_vars
    BY StepIsComplete
  <1> QED BY <1>1, Invariance, PTL DEF Spec, EveryPassIsComplete

-----------------------------------------------------------------------------
(* What EveryCallReturns rests on, but for the fairness: whoever waits is in *)
(* the queue, the first in the queue has a step, its steps run out, and      *)
(* nobody falls back.                                                        *)

\* q names the members of S, each once, and nobody else.
Lists(q, S) ==
  /\ q \in Seq(Clients)
  /\ \A i \in 1..Len(q) : q[i] \in S
  /\ \A c \in S : \E i \in 1..Len(q) : q[i] = c
  /\ \A i, j \in 1..Len(q) : q[i] = q[j] => i = j

Callers == {c \in Clients : call[c].kind # "none"}

\* A step of the client's call can be taken: the guards of Serve.
CanServe(c) ==
  \/ \E kind \in Kinds : Serves(c, kind)
  \/ Executing(c) /\ call[c].stage <= StageCount(c)

LockIsPassedOn ==
  /\ Lists(queue, Callers)
  /\ queue # <<>> => CanServe(Head(queue))

\* How many sleeps an execution has left at most.
PassesLeft(c) == IF call[c].phase = "prefill" THEN call[c].left + 1 ELSE call[c].left
StagesLeft(c) == PassesLeft(c) * StageCount(c) - call[c].stage + 1

\* A turn is one step, or one that begins an execution, or one of an execution.
TurnsEnd ==
  \A c \in Clients :
    /\ Run(c) =>
         \/ call'[c] = NoCall /\ queue' = Tail(queue)
         \/ /\ Executing(c)' /\ StagesLeft(c)' \in Nat /\ queue' = queue
            /\ Executing(c) => StagesLeft(c)' < StagesLeft(c)
    /\ Executing(c) /\ ~Run(c) /\ ~GiveUp(c) =>
         Executing(c)' /\ StagesLeft(c)' = StagesLeft(c)

\* Whoever is in the queue and goes on waiting is where it was, or further ahead.
NobodyFallsBack ==
  \A i \in 1..Len(queue) :
    \/ call'[queue[i]] = NoCall
    \/ \E j \in 1..i : j <= Len(queue') /\ queue'[j] = queue[i]

LEMMA ListsMore ==
  ASSUME NEW q, NEW S, Lists(q, S), NEW c \in Clients, c \notin S
  PROVE  Lists(Append(q, c), S \cup {c})
  <1>1. /\ Append(q, c) \in Seq(Clients) /\ Len(Append(q, c)) = Len(q) + 1
        /\ Len(q) \in Nat
        /\ \A i \in 1..Len(q) : Append(q, c)[i] = q[i]
        /\ Append(q, c)[Len(q) + 1] = c
    BY DEF Lists
  <1>2. \A i \in 1..(Len(q) + 1) : i \in 1..Len(q) \/ i = Len(q) + 1
    BY <1>1
  <1>3. \A u \in S \cup {c} : \E i \in 1..(Len(q) + 1) : Append(q, c)[i] = u
    <2>1. ASSUME NEW u \in S
          PROVE  \E i \in 1..(Len(q) + 1) : Append(q, c)[i] = u
      <3>1. PICK i \in 1..Len(q) : q[i] = u
        BY DEF Lists
      <3>2. i \in 1..(Len(q) + 1)
        BY <1>1
      <3> QED BY <1>1, <3>1, <3>2
    <2>2. Len(q) + 1 \in 1..(Len(q) + 1)
      BY <1>1
    <2> QED BY <1>1, <2>1, <2>2
  <1>4. \A i \in 1..(Len(q) + 1) : Append(q, c)[i] \in S \cup {c}
    BY <1>1, <1>2 DEF Lists
  <1>5. \A i, j \in 1..(Len(q) + 1) : Append(q, c)[i] = Append(q, c)[j] => i = j
    BY <1>1, <1>2 DEF Lists
  <1> QED BY <1>1, <1>3, <1>4, <1>5 DEF Lists

LEMMA Concatenated ==
  ASSUME NEW a \in Seq(Clients), NEW b \in Seq(Clients)
  PROVE  /\ a \o b \in Seq(Clients) /\ Len(a \o b) = Len(a) + Len(b)
         /\ \A j \in 1..(Len(a) + Len(b)) :
              (a \o b)[j] = IF j <= Len(a) THEN a[j] ELSE b[j - Len(a)]
  OBVIOUS

\* A queue without its i-th.
LEMMA Without ==
  ASSUME NEW q \in Seq(Clients), NEW i \in 1..Len(q), NEW r,
         r = SubSeq(q, 1, i - 1) \o SubSeq(q, i + 1, Len(q))
  PROVE  /\ r \in Seq(Clients) /\ Len(r) = Len(q) - 1 /\ Len(q) \in Nat
         /\ \A j \in 1..(Len(q) - 1) : r[j] = IF j < i THEN q[j] ELSE q[j + 1]
  <1> DEFINE front == SubSeq(q, 1, i - 1)
             back == SubSeq(q, i + 1, Len(q))
  <1>1. /\ Len(q) \in Nat /\ i \in Nat
        /\ front \in Seq(Clients) /\ Len(front) = i - 1
        /\ \A j \in 1..(i - 1) : front[j] = q[j]
    OBVIOUS
  <1>2. /\ back \in Seq(Clients) /\ Len(back) = Len(q) - i
        /\ \A j \in 1..(Len(q) - i) : back[j] = q[i + j]
    BY SMTT(60)
  <1> HIDE DEF front, back
  <1>3. r = front \o back
    BY DEF front, back
  <1>4. /\ r \in Seq(Clients) /\ Len(r) = Len(q) - 1
        /\ \A j \in 1..(Len(q) - 1) :
             r[j] = IF j <= i - 1 THEN front[j] ELSE back[j - (i - 1)]
    <2>1. /\ front \o back \in Seq(Clients) /\ Len(front \o back) = Len(front) + Len(back)
          /\ \A j \in 1..(Len(front) + Len(back)) :
               (front \o back)[j] = IF j <= Len(front) THEN front[j] ELSE back[j - Len(front)]
      <3>1. front \in Seq(Clients) /\ back \in Seq(Clients)
        BY <1>1, <1>2
      <3> QED BY ONLY <3>1, Concatenated, Zenon
    <2>2. Len(front) + Len(back) = Len(q) - 1
      BY <1>1, <1>2
    <2>3. /\ r \in Seq(Clients) /\ Len(r) = Len(front) + Len(back)
          /\ \A j \in 1..(Len(front) + Len(back)) :
               r[j] = IF j <= Len(front) THEN front[j] ELSE back[j - Len(front)]
      BY ONLY <1>3, <2>1, Zenon
    <2> QED BY ONLY <1>1, <2>2, <2>3
  <1>5. ASSUME NEW j \in 1..(Len(q) - 1)
        PROVE  r[j] = IF j < i THEN q[j] ELSE q[j + 1]
    <2>1. CASE j < i
      <3>1. j \in 1..(i - 1) /\ j <= i - 1
        BY <1>1, <2>1
      <3> QED BY <1>1, <1>4, <2>1, <3>1
    <2>2. CASE ~(j < i)
      <3>1. j - (i - 1) \in 1..(Len(q) - i) /\ i + (j - (i - 1)) = j + 1 /\ ~(j <= i - 1)
        BY <1>1, <2>2
      <3> QED BY <1>2, <1>4, <2>2, <3>1
    <2> QED BY <2>1, <2>2
  <1> QED BY <1>1, <1>4, <1>5

LEMMA TailIsWithout ==
  ASSUME NEW q \in Seq(Clients), q # <<>>
  PROVE  /\ 1 \in 1..Len(q) /\ q[1] = Head(q)
         /\ Tail(q) \in Seq(Clients) /\ Len(Tail(q)) = Len(q) - 1 /\ Len(q) \in Nat
         /\ \A j \in 1..(Len(q) - 1) : Tail(q)[j] = IF j < 1 THEN q[j] ELSE q[j + 1]
  OBVIOUS

LEMMA ListsFewer ==
  ASSUME NEW q, NEW S, Lists(q, S), NEW i \in 1..Len(q), NEW r \in Seq(Clients),
         Len(r) = Len(q) - 1,
         \A j \in 1..(Len(q) - 1) : r[j] = IF j < i THEN q[j] ELSE q[j + 1]
  PROVE  Lists(r, S \ {q[i]})
  <1>1. Len(q) \in Nat
    BY DEF Lists
  <1> DEFINE at(j) == IF j < i THEN j ELSE j + 1
  <1>2. ASSUME NEW j \in 1..(Len(q) - 1)
        PROVE  at(j) \in 1..Len(q) /\ at(j) # i /\ r[j] = q[at(j)]
    BY <1>1
  <1>3. ASSUME NEW j \in 1..(Len(q) - 1), NEW k \in 1..(Len(q) - 1), at(j) = at(k)
        PROVE  j = k
    BY <1>1, <1>3
  <1>4. ASSUME NEW k \in 1..Len(q), k # i
        PROVE  \E j \in 1..(Len(q) - 1) : at(j) = k
    <2>1. CASE k < i
      <3>1. k \in 1..(Len(q) - 1)
        BY <1>1, <2>1
      <3> QED BY <2>1, <3>1
    <2>2. CASE ~(k < i)
      <3>1. k - 1 \in 1..(Len(q) - 1) /\ at(k - 1) = k
        BY <1>1, <1>4, <2>2
      <3> QED BY <3>1
    <2> QED BY <2>1, <2>2
  <1> HIDE DEF at
  <1>5. \A j \in 1..Len(r) : r[j] \in S \ {q[i]}
    BY <1>2 DEF Lists
  <1>6. \A j, k \in 1..Len(r) : r[j] = r[k] => j = k
    <2> SUFFICES ASSUME NEW j \in 1..(Len(q) - 1), NEW k \in 1..(Len(q) - 1), r[j] = r[k]
                 PROVE  j = k
      OBVIOUS
    <2>1. /\ at(j) \in 1..Len(q) /\ at(k) \in 1..Len(q)
          /\ q[at(j)] = q[at(k)]
      BY <1>2
    <2>2. at(j) = at(k)
      BY <2>1 DEF Lists
    <2> QED BY <1>3, <2>2
  <1>7. ASSUME NEW c \in S \ {q[i]}
        PROVE  \E j \in 1..Len(r) : r[j] = c
    <2>1. PICK k \in 1..Len(q) : q[k] = c
      BY DEF Lists
    <2>2. PICK j \in 1..(Len(q) - 1) : at(j) = k
      BY <1>4, <2>1
    <2> QED BY <1>2, <2>1, <2>2
  <1> QED BY <1>5, <1>6, <1>7 DEF Lists

\* How a step moves the queue: it appends one caller, takes out the i-th, or
\* leaves it alone.
Enters(c) ==
  /\ call[c].kind = "none" /\ call'[c].kind # "none"
  /\ \A d \in Clients : d # c => call'[d] = call[d]
  /\ queue' = Append(queue, c)

Leaves(c) ==
  /\ call'[c] = NoCall /\ \A d \in Clients : d # c => call'[d] = call[d]
  /\ \E i \in 1..Len(queue) :
       /\ queue[i] = c /\ queue' \in Seq(Clients) /\ Len(queue') = Len(queue) - 1
       /\ \A j \in 1..(Len(queue) - 1) :
            queue'[j] = IF j < i THEN queue[j] ELSE queue[j + 1]

Stays ==
  /\ queue' = queue
  /\ \A c \in Clients : (call'[c].kind = "none") <=> (call[c].kind = "none")

LEMMA ReturnLeaves ==
  ASSUME ExecutorInv, NEW c \in Clients, Granted(c), Returns(c)
  PROVE  Leaves(c) /\ call'[c] = NoCall /\ queue' = Tail(queue)
  <1>1. /\ call'[c] = NoCall /\ \A d \in Clients : d # c => call'[d] = call[d]
        /\ queue' = Tail(queue) /\ queue \in Seq(Clients) /\ queue # <<>> /\ Head(queue) = c
    BY DEF ExecutorInv, Returns, Granted
  <1> QED BY <1>1, TailIsWithout DEF Leaves

LEMMA DropLeaves ==
  ASSUME ExecutorInv, NEW c \in Clients, DropCall(c)
  PROVE  Leaves(c)
  <1>1. /\ call'[c] = NoCall /\ \A d \in Clients : d # c => call'[d] = call[d]
        /\ queue \in Seq(Clients)
    BY DEF ExecutorInv, DropCall
  <1>2. PICK i \in 1..Len(queue) :
          /\ queue[i] = c
          /\ queue' = SubSeq(queue, 1, i - 1) \o SubSeq(queue, i + 1, Len(queue))
    <2>1. DOMAIN queue = 1..Len(queue)
      BY <1>1
    <2> QED BY <2>1, Zenon DEF DropCall
  <1>3. /\ queue' \in Seq(Clients) /\ Len(queue') = Len(queue) - 1
        /\ \A j \in 1..(Len(queue) - 1) :
             queue'[j] = IF j < i THEN queue[j] ELSE queue[j + 1]
    <2>1. queue \in Seq(Clients) /\ i \in 1..Len(queue)
      BY <1>1
    <2>2. queue' = SubSeq(queue, 1, i - 1) \o SubSeq(queue, i + 1, Len(queue))
      BY <1>2
    <2> QED BY ONLY <2>1, <2>2, Without
  <1> QED BY <1>1, <1>2, <1>3 DEF Leaves

LEMMA CallEnters ==
  ASSUME ExecutorInv, NEW c \in Clients, UsePlan(c)
  PROVE  Enters(c) /\ UNCHANGED sessions
  <1>1. ASSUME NEW kind, NEW s
        PROVE  Request(kind, s).kind = kind /\ "kind" \in DOMAIN Request(kind, s)
    BY RequestIs
  <1>2. PICK request : Call(c, request) /\ request.kind # "none"
    <2>1. CASE \E s \in Sessions, kind \in Kinds \ {"initialize", "execute"} :
                 Call(c, Request(kind, s))
      BY <1>1, <2>1 DEF Kinds
    <2>2. CASE \E s \in Sessions, t \in Tokens, n \in 0..MaxTokens :
                 Call(c, [Request("execute", s) EXCEPT !.token = t, !.left = n])
      <3>1. PICK s \in Sessions, t \in Tokens, n \in 0..MaxTokens :
              Call(c, [Request("execute", s) EXCEPT !.token = t, !.left = n])
        BY <2>2
      <3>2. [Request("execute", s) EXCEPT !.token = t, !.left = n].kind = "execute"
        BY RequestIs
      <3> QED BY <3>1, <3>2
    <2>3. CASE \E s \in Sessions, p \in plans :
                 Call(c, [Request("initialize", s) EXCEPT !.plan = p])
      <3>1. PICK s \in Sessions, p \in plans :
              Call(c, [Request("initialize", s) EXCEPT !.plan = p])
        BY <2>3
      <3>2. [Request("initialize", s) EXCEPT !.plan = p].kind = "initialize"
        BY RequestIs
      <3> QED BY <3>1, <3>2
    <2> QED BY <2>1, <2>2, <2>3 DEF UsePlan, PlainCall, InitializeWith
  <1> QED BY <1>2, NoCallIsACall DEF Call, Enters, ExecutorInv

-----------------------------------------------------------------------------
(* Turns *)

LEMMA Times ==
  ASSUME NEW p \in Nat \ {0}, NEW n \in Nat
  PROVE  /\ p * n \in Nat /\ (p - 1) * n \in Nat
         /\ p * n = (p - 1) * n + n /\ p * n >= n
  OBVIOUS

\* The plan of a session stays, whichever of its stages runs.
LEMMA PlanStays ==
  ASSUME ExecutorInv, NEW c \in Clients, NEW state, call[c].session \in DOMAIN sessions,
         sessions' = [sessions EXCEPT ![call[c].session] = state],
         state.plan = sessions[call[c].session].plan,
         call'[c].session = call[c].session
  PROVE  StageCount(c)' = StageCount(c)
  BY DEF StageCount

LEMMA LeftCounts ==
  ASSUME ExecutorInv, NEW c \in Clients, Executing(c)
  PROVE  /\ PassesLeft(c) \in Nat \ {0} /\ StageCount(c) \in Nat
         /\ call[c].stage \in 1..StageCount(c)
         /\ StagesLeft(c) \in Nat
  <1>1. /\ call[c] \in CallState /\ call[c].phase \in {"prefill", "decode"}
        /\ call[c].phase = "decode" => call[c].left > 0
        /\ call[c].left \in Nat
    BY ExecutingFacts, ExecutorAssumption DEF CallState
  <1>2. StageCount(c) \in Nat /\ call[c].stage \in 1..StageCount(c)
    BY EndedFacts
  <1>3. PassesLeft(c) \in Nat \ {0}
    BY <1>1 DEF PassesLeft
  <1> QED BY <1>2, <1>3, Times DEF StagesLeft

LEMMA BeginTurn ==
  ASSUME ExecutorInv, NEW c \in Clients, BeginExecute(c)
  PROVE  \/ Returns(c)
         \/ /\ ~Executing(c) /\ Executing(c)' /\ StagesLeft(c)' \in Nat /\ queue' = queue
            /\ Stays
  <1> DEFINE s == call[c].session
  <1>1. /\ s \in DOMAIN sessions /\ call[c] \in CallState /\ call[c].phase = "none"
        /\ call[c].kind = "execute" /\ call[c].left \in Nat /\ call \in [Clients -> CallState]
    <2>1. Serves(c, "execute") /\ s \in DOMAIN sessions /\ "execute" \in Kinds
      BY DEF BeginExecute, Has, Kinds
    <2>2. call[c] \in CallState /\ call[c].phase = "none" /\ call[c].kind = "execute"
      BY <2>1, ServedIsTyped
    <2>3. call[c].left \in Nat
      BY <2>2, ExecutorAssumption DEF CallState
    <2> QED BY <2>1, <2>2, <2>3 DEF ExecutorInv
  <1>2. SessionOK(sessions[s])
    BY <1>1 DEF ExecutorInv, SessionsOK
  <1>3. /\ StageCount(c) \in Nat /\ StageCount(c) = Len(sessions[s].stage_states)
    BY <1>2, StageStates DEF StageCount
  <1>0. StageCount(c) = 0 => Returns(c)
    BY DEF BeginExecute
  <1> SUFFICES ASSUME StageCount(c) # 0
               PROVE  /\ ~Executing(c) /\ Executing(c)' /\ StagesLeft(c)' \in Nat
                      /\ queue' = queue /\ Stays
    BY <1>0
  <1>4. /\ sessions' = [sessions EXCEPT ![s] = Starting(sessions[s], 1)]
        /\ call' = [call EXCEPT ![c].phase = "prefill", ![c].stage = 1]
        /\ queue' = queue
    BY DEF BeginExecute
  <1>5. /\ call'[c].phase = "prefill" /\ call'[c].stage = 1 /\ call'[c].left = call[c].left
        /\ call'[c].session = s /\ call'[c].kind = "execute"
        /\ \A d \in Clients : d # c => call'[d] = call[d]
    BY <1>1, <1>4 DEF CallState
  <1>6. 1 \in 1..Len(sessions[s].stage_states)
    BY <1>3
  <1>7. Starting(sessions[s], 1).plan = sessions[s].plan
    BY <1>2, <1>6, StartingFacts
  <1>8. StageCount(c)' = StageCount(c)
    BY <1>1, <1>4, <1>5, <1>7, PlanStays
  <1>9. PassesLeft(c)' = call[c].left + 1
    BY <1>5 DEF PassesLeft
  <1>10. StagesLeft(c)' \in Nat
    BY <1>1, <1>3, <1>5, <1>8, <1>9, Times DEF StagesLeft
  <1> QED BY <1>1, <1>4, <1>5, <1>10 DEF Executing, Stays

LEMMA NextStageTurn ==
  ASSUME ExecutorInv, NEW c \in Clients, NextStage(c)
  PROVE  /\ Executing(c) /\ Executing(c)' /\ queue' = queue /\ Stays
         /\ StagesLeft(c)' \in Nat /\ StagesLeft(c)' < StagesLeft(c)
  <1> DEFINE s == call[c].session
             k == call[c].stage
  <1>1. /\ Executing(c) /\ k < StageCount(c) /\ queue' = queue
        /\ sessions' = [sessions EXCEPT ![s] = Starting(Ended(c), k + 1)]
        /\ call' = [call EXCEPT ![c].stage = @ + 1]
    BY DEF NextStage
  <1>2. /\ call[c] \in CallState /\ call[c].phase \in {"prefill", "decode"}
        /\ call[c].kind = "execute" /\ call \in [Clients -> CallState]
    BY <1>1, ExecutingFacts DEF ExecutorInv
  <1>3. /\ call'[c].phase = call[c].phase /\ call'[c].left = call[c].left
        /\ call'[c].session = s /\ call'[c].kind = "execute" /\ call'[c].stage = k + 1
        /\ \A d \in Clients : d # c => call'[d] = call[d]
    BY <1>1, <1>2 DEF CallState
  <1>4. /\ s \in DOMAIN sessions /\ SessionOK(Ended(c)) /\ StageCount(c) \in Nat
        /\ Ended(c).plan = sessions[s].plan
        /\ Len(Ended(c).stage_states) = StageCount(c) /\ k \in 1..StageCount(c)
    BY <1>1, EndedFacts
  <1>5. k + 1 \in 1..Len(Ended(c).stage_states)
    BY <1>1, <1>4
  <1>6. Starting(Ended(c), k + 1).plan = sessions[s].plan
    BY <1>4, <1>5, StartingFacts
  <1>7. StageCount(c)' = StageCount(c)
    BY <1>1, <1>3, <1>4, <1>6, PlanStays
  <1>8. PassesLeft(c)' = PassesLeft(c)
    BY <1>3 DEF PassesLeft
  <1>9. /\ PassesLeft(c) \in Nat \ {0} /\ StagesLeft(c) \in Nat
    BY <1>1, LeftCounts
  <1>10. StagesLeft(c)' = StagesLeft(c) - 1 /\ StagesLeft(c) - 1 \in Nat
    <2>1. /\ PassesLeft(c) * StageCount(c) \in Nat
          /\ PassesLeft(c) * StageCount(c) >= StageCount(c)
      BY <1>4, <1>9, Times
    <2> QED BY <1>1, <1>3, <1>4, <1>7, <1>8, <2>1 DEF StagesLeft
  <1> QED BY <1>1, <1>2, <1>3, <1>9, <1>10 DEF Executing, Stays

LEMMA NextPassTurn ==
  ASSUME ExecutorInv, NEW c \in Clients, NextPass(c)
  PROVE  /\ Executing(c) /\ Executing(c)' /\ queue' = queue /\ Stays
         /\ StagesLeft(c)' \in Nat /\ StagesLeft(c)' < StagesLeft(c)
  <1> DEFINE s == call[c].session
             k == call[c].stage
  <1>1. /\ Executing(c) /\ k = StageCount(c) /\ Left(c) # 0 /\ queue' = queue
        /\ sessions' = [sessions EXCEPT ![s] = Starting(Ended(c), 1)]
        /\ call' = [call EXCEPT ![c] = [@ EXCEPT !.phase = "decode", !.stage = 1,
                                          !.token = Token(c), !.left = Left(c)]]
    BY DEF NextPass, LastStageRuns, Over, FirstStage
  <1>2. /\ call[c] \in CallState /\ call[c].phase \in {"prefill", "decode"}
        /\ call[c].kind = "execute" /\ call \in [Clients -> CallState]
        /\ call[c].left \in Nat
    BY <1>1, ExecutingFacts, ExecutorAssumption DEF ExecutorInv, CallState
  <1>3. /\ call'[c].phase = "decode" /\ call'[c].left = Left(c)
        /\ call'[c].session = s /\ call'[c].kind = "execute" /\ call'[c].stage = 1
        /\ \A d \in Clients : d # c => call'[d] = call[d]
    BY <1>1, <1>2 DEF CallState
  <1>4. /\ s \in DOMAIN sessions /\ SessionOK(Ended(c)) /\ StageCount(c) \in Nat
        /\ Ended(c).plan = sessions[s].plan
        /\ Len(Ended(c).stage_states) = StageCount(c) /\ k \in 1..StageCount(c)
    BY <1>1, EndedFacts
  <1>5. 1 \in 1..Len(Ended(c).stage_states)
    BY <1>4
  <1>6. Starting(Ended(c), 1).plan = sessions[s].plan
    BY <1>4, <1>5, StartingFacts
  <1>7. StageCount(c)' = StageCount(c)
    BY <1>1, <1>3, <1>4, <1>6, PlanStays
  <1>8. /\ PassesLeft(c) \in Nat \ {0} /\ StagesLeft(c) \in Nat
    BY <1>1, LeftCounts
  <1>9. PassesLeft(c)' = PassesLeft(c) - 1 /\ PassesLeft(c)' \in Nat \ {0}
    BY <1>1, <1>2, <1>3, <1>8 DEF PassesLeft, Left
  <1>10. StagesLeft(c)' = StagesLeft(c) - 1 /\ StagesLeft(c)' \in Nat
    <2>1. /\ PassesLeft(c)' * StageCount(c) \in Nat
          /\ PassesLeft(c)' * StageCount(c) >= StageCount(c)
      BY <1>4, <1>9, Times
    <2>2. PassesLeft(c) * StageCount(c) = PassesLeft(c)' * StageCount(c) + StageCount(c)
      BY <1>4, <1>8, <1>9, Times
    <2> QED BY <1>1, <1>3, <1>4, <1>7, <2>1, <2>2 DEF StagesLeft
  <1> QED BY <1>1, <1>2, <1>3, <1>8, <1>10 DEF Executing, Stays

\* The client with the lock returns, or goes on with its execution.
LEMMA Turn ==
  ASSUME ExecutorInv, NEW c \in Clients, Serve(c)
  PROVE  /\ Granted(c)
         /\ \/ Returns(c)
            \/ /\ Executing(c)' /\ StagesLeft(c)' \in Nat /\ queue' = queue /\ Stays
               /\ Executing(c) => StagesLeft(c)' < StagesLeft(c)
  <1>1. CASE \/ InitializeSession(c) \/ PauseSession(c) \/ ResumeSession(c)
             \/ CancelSession(c) \/ NothingToDo(c)
    BY <1>1 DEF InitializeSession, PauseSession, ResumeSession, CancelSession, NothingToDo,
                Refused, Serves
  <1>2. CASE BeginExecute(c)
    BY <1>2, BeginTurn DEF BeginExecute, Serves
  <1>3. CASE NextStage(c)
    BY <1>3, NextStageTurn, ExecutingFacts
  <1>4. CASE NextPass(c)
    BY <1>4, NextPassTurn, ExecutingFacts
  <1>5. CASE FinishExecute(c)
    BY <1>5, ExecutingFacts DEF FinishExecute, LastStageRuns
  <1> QED BY <1>1, <1>2, <1>3, <1>4, <1>5 DEF Serve

-----------------------------------------------------------------------------
(* Steps, and the queue *)

LEMMA StepOfQueue ==
  ASSUME ExecutorInv, [Next]_vars
  PROVE  Stays \/ \E c \in Clients : Enters(c) \/ Leaves(c)
  <1>1. CASE MakePlan \/ UNCHANGED vars
    BY <1>1 DEF MakePlan, vars, executorVars, Stays
  <1>2. ASSUME NEW c \in Clients, UsePlan(c)
        PROVE  Enters(c)
    BY <1>2, CallEnters
  <1>3. ASSUME NEW c \in Clients, Run(c)
        PROVE  Stays \/ Leaves(c)
    BY <1>3, Turn, ReturnLeaves DEF Run
  <1>4. ASSUME NEW c \in Clients, GiveUp(c)
        PROVE  Leaves(c)
    BY <1>4, DropLeaves DEF GiveUp
  <1> QED BY <1>1, <1>2, <1>3, <1>4 DEF Next

LEMMA NextLists ==
  ASSUME ExecutorInv, Lists(queue, Callers), [Next]_vars
  PROVE  Lists(queue, Callers)'
  <1>1. CASE Stays
    <2>1. Callers' = Callers
      BY <1>1 DEF Stays, Callers
    <2> QED BY <1>1, <2>1 DEF Stays, Lists
  <1>2. ASSUME NEW c \in Clients, Enters(c)
        PROVE  Lists(queue, Callers)'
    <2>1. Callers' = Callers \cup {c} /\ c \notin Callers /\ queue' = Append(queue, c)
      BY <1>2 DEF Enters, Callers
    <2>2. Lists(queue', Callers')
      BY <2>1, ListsMore
    <2> QED BY <2>2 DEF Lists
  <1>3. ASSUME NEW c \in Clients, Leaves(c)
        PROVE  Lists(queue, Callers)'
    <2>1. Callers' = Callers \ {c}
      BY <1>3, NoCallIsACall DEF Leaves, Callers
    <2>2. Lists(queue', Callers \ {c})
      BY <1>3, ListsFewer DEF Leaves
    <2> QED BY <2>1, <2>2 DEF Lists
  <1> QED BY <1>1, <1>2, <1>3, StepOfQueue

LEMMA FirstCanBeServed ==
  ASSUME ExecutorInv, Lists(queue, Callers)
  PROVE  LockIsPassedOn
  <1> SUFFICES ASSUME queue # <<>> PROVE CanServe(Head(queue))
    BY DEF LockIsPassedOn
  <1> DEFINE c == Head(queue)
  <1>1. c \in Clients /\ call[c].kind # "none" /\ Granted(c) /\ call[c] \in CallState
    <2>1. queue \in Seq(Clients) /\ Len(queue) \in Nat \ {0} /\ c = queue[1] /\ 1 \in 1..Len(queue)
      BY DEF ExecutorInv
    <2> QED BY <2>1 DEF Lists, Callers, Granted, ExecutorInv
  <1> HIDE DEF c
  <1>2. CASE Executing(c)
    <2>1. call[c].stage \in 1..StageCount(c) /\ StageCount(c) \in Nat
      BY <1>1, <1>2, EndedFacts
    <2>2. call[c].stage <= StageCount(c)
      BY <2>1
    <2> QED BY <1>2, <2>2 DEF CanServe, c
  <1>3. CASE ~Executing(c)
    BY <1>1, <1>3 DEF CanServe, Serves, Executing, CallState, c
  <1> QED BY <1>2, <1>3

\* What others do leaves an execution alone.
LEMMA OthersWait ==
  ASSUME ExecutorInv, NEW c \in Clients, Executing(c), [Next]_vars, ~Run(c), ~GiveUp(c)
  PROVE  Executing(c)' /\ StagesLeft(c)' = StagesLeft(c)
  <1>1. call[c].kind # "none" /\ Granted(c)
    BY ExecutingFacts
  <1>2. ASSUME NEW d \in Clients, Run(d) PROVE d = c
    BY <1>1, <1>2, Turn DEF Run, Granted
  <1>3. call'[c] = call[c] /\ sessions' = sessions
    <2>1. CASE MakePlan \/ UNCHANGED vars
      BY <2>1 DEF MakePlan, vars, executorVars
    <2>2. ASSUME NEW d \in Clients, UsePlan(d)
          PROVE  call'[c] = call[c] /\ sessions' = sessions
      BY <1>1, <2>2, CallEnters DEF Enters
    <2>3. ASSUME NEW d \in Clients, d # c, GiveUp(d)
          PROVE  call'[c] = call[c] /\ sessions' = sessions
      BY <2>3, DropLeaves DEF GiveUp, DropCall, Leaves
    <2> QED BY <1>2, <2>1, <2>2, <2>3 DEF Next
  <1> QED BY <1>3 DEF Executing, StagesLeft, PassesLeft, StageCount

LEMMA StepTurnsEnd ==
  ASSUME ExecutorInv, [Next]_vars
  PROVE  TurnsEnd
  BY Turn, ReturnLeaves, OthersWait DEF TurnsEnd, Run

LEMMA StepKeepsOrder ==
  ASSUME ExecutorInv, Lists(queue, Callers), [Next]_vars
  PROVE  NobodyFallsBack
  <1>0. queue \in Seq(Clients) /\ Len(queue) \in Nat
    BY DEF ExecutorInv
  <1>1. CASE Stays
    <2>1. \A i \in 1..Len(queue) : i \in 1..i /\ i <= Len(queue)
      BY <1>0
    <2> QED BY <1>1, <2>1 DEF Stays, NobodyFallsBack
  <1>2. ASSUME NEW c \in Clients, Enters(c)
        PROVE  NobodyFallsBack
    <2>1. \A i \in 1..Len(queue) :
            i \in 1..i /\ i <= Len(queue') /\ queue'[i] = queue[i]
      BY <1>0, <1>2 DEF Enters
    <2> QED BY <2>1 DEF NobodyFallsBack
  <1>3. ASSUME NEW c \in Clients, Leaves(c)
        PROVE  NobodyFallsBack
    <2>1. PICK m \in 1..Len(queue) :
            /\ queue[m] = c /\ Len(queue') = Len(queue) - 1
            /\ \A j \in 1..(Len(queue) - 1) :
                 queue'[j] = IF j < m THEN queue[j] ELSE queue[j + 1]
      BY <1>3 DEF Leaves
    <2> SUFFICES ASSUME NEW i \in 1..Len(queue), call'[queue[i]] # NoCall
                 PROVE  \E j \in 1..i : j <= Len(queue') /\ queue'[j] = queue[i]
      BY DEF NobodyFallsBack
    <2>2. i # m
      BY <1>3, <2>1 DEF Leaves
    <2>3. CASE i < m
      <3>1. i \in 1..(Len(queue) - 1) /\ i \in 1..i /\ i <= Len(queue')
        BY <1>0, <2>1, <2>3
      <3> QED BY <2>1, <2>3, <3>1
    <2>4. CASE ~(i < m)
      <3>1. /\ i - 1 \in 1..(Len(queue) - 1) /\ i - 1 \in 1..i /\ i - 1 <= Len(queue')
            /\ ~(i - 1 < m) /\ (i - 1) + 1 = i
        BY <1>0, <2>1, <2>2, <2>4
      <3>2. queue'[i - 1] = queue[i]
        BY <2>1, <3>1
      <3> QED BY <3>1, <3>2
    <2> QED BY <2>3, <2>4
  <1> QED BY <1>1, <1>2, <1>3, StepOfQueue

LEMMA QueueInvariance == Spec => [](IInv /\ Lists(queue, Callers))
  <1>1. Init => IInv /\ Lists(queue, Callers)
    BY InitIInv, NoCallIsACall DEF Init, ExecutorInit, Lists, Callers
  <1>2. IInv /\ Lists(queue, Callers) /\ [Next]_vars => (IInv /\ Lists(queue, Callers))'
    BY NextIInv, NextLists DEF IInv
  <1> QED BY <1>1, <1>2, PTL DEF Spec

(* LockIsPassedOn: whoever waits for a call is in the lock's queue, once, and
   whoever is first in it has a step to take: an executor with a call to serve
   never stands still. *)
THEOREM FirstInLineIsServed == Spec => []LockIsPassedOn
  <1>1. IInv /\ Lists(queue, Callers) => LockIsPassedOn
    BY FirstCanBeServed DEF IInv
  <1> QED BY <1>1, QueueInvariance, PTL

(* TurnsEnd: whoever has the lock gives it back after finitely many steps: the
   number of stages that an execution has left is a natural number that each
   of its steps makes smaller and nobody else's step changes.
   NobodyFallsBack: meanwhile no caller loses its place to another. *)
THEOREM CallsComeToAnEnd == Spec => [][TurnsEnd /\ NobodyFallsBack]_vars
  <1>1. IInv /\ Lists(queue, Callers) /\ [Next]_vars => TurnsEnd /\ NobodyFallsBack
    BY StepTurnsEnd, StepKeepsOrder DEF IInv
  <1> QED BY <1>1, QueueInvariance, PTL DEF Spec
=============================================================================
