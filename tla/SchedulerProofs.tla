-------------------------- MODULE SchedulerProofs ---------------------------
(***************************************************************************)
(* Proofs about Scheduler for every cluster, every set of sessions and     *)
(* tasks, and every amount per node.                                       *)
(***************************************************************************)
EXTENDS Scheduler, FiniteSetTheorems, WellFoundedInduction, TLAPS

\* A call that has selected nodes has selected SelectedNodes.
CallsHoldSelected ==
  \A t \in Tasks :
    pc[t] \in {"reserve", "store", "release"} =>
      arg[t].nodes = SelectedNodes /\ arg[t].session \in Sessions

\* The inductive invariant: since every reservation is on the same nodes, and
\* of the same amounts, those nodes all carry the same load.
IInv == TypeOK /\ CallsHoldSelected /\ AllocationsAddUp /\ NoOvercommit

-----------------------------------------------------------------------------
LEMMA Amounts ==
  /\ CpuPerNode \in Nat /\ RamPerNode \in Nat /\ VramPerNode \in Nat
  /\ CpuLimit \in Nat /\ CpuPerNode > 0
  /\ IsFiniteSet(Nodes) /\ IsFiniteSet(Sessions) /\ IsFiniteSet(Tasks)
  /\ SelectedNodes \subseteq Nodes /\ NoSession \notin Sessions
  BY SchedulerAssumption DEF SelectedNodes

LEMMA OneMore ==
  ASSUME NEW c \in Nat, NEW k \in Nat
  PROVE  c * (k + 1) = c * k + c
  OBVIOUS

\* Loads at least as large as one reservation, when there is one.
LEMMA AtLeastOne ==
  ASSUME NEW c \in Nat, NEW k \in Nat, k > 0
  PROVE  /\ c * (k - 1) = c * k - c
         /\ c * k - c \in Nat
  <1>1. k - 1 \in Nat
    OBVIOUS
  <1>2. c * ((k - 1) + 1) = c * (k - 1) + c
    BY <1>1, OneMore
  <1>3. c * (k - 1) \in Nat
    BY <1>1
  <1> QED BY <1>1, <1>2, <1>3

LEMMA PendingFinite ==
  /\ IsFiniteSet(Pending)
  /\ Cardinality(Pending) \in Nat
  BY Amounts, FS_Subset, FS_CardinalityType DEF Pending

LEMMA LiveFinite ==
  ASSUME TypeOK
  PROVE  /\ IsFiniteSet(DOMAIN sessions)
         /\ Cardinality(DOMAIN sessions) \in Nat
         /\ Reservations \in Nat /\ leaked \in Nat
  <1>1. IsFiniteSet(DOMAIN sessions)
    BY Amounts, FS_Subset DEF TypeOK
  <1>2. Cardinality(DOMAIN sessions) \in Nat
    BY <1>1, FS_CardinalityType
  <1> QED BY <1>1, <1>2, PendingFinite DEF TypeOK, Reservations

\* How a change of one program counter changes the number of pending calls.
LEMMA PendingGrows ==
  ASSUME pc \in [Tasks -> {"idle", "reserve", "store", "release", "stats"}],
         NEW t \in Tasks, NEW w \in {"store", "release"}, Goto(t, w),
         pc[t] \notin {"store", "release"}
  PROVE  Cardinality(Pending') = Cardinality(Pending) + 1
  <1>1. Pending' = Pending \cup {t} /\ t \notin Pending
    BY DEF Pending, Goto
  <1> QED BY <1>1, PendingFinite, FS_AddElement

LEMMA PendingShrinks ==
  ASSUME pc \in [Tasks -> {"idle", "reserve", "store", "release", "stats"}],
         NEW t \in Tasks, Goto(t, "idle"), pc[t] \in {"store", "release"}
  PROVE  /\ Cardinality(Pending') = Cardinality(Pending) - 1
         /\ Cardinality(Pending) > 0
  <1>1. Pending' = Pending \ {t} /\ t \in Pending
    BY DEF Pending, Goto
  <1>2. Cardinality(Pending') = Cardinality(Pending) - 1
    BY <1>1, PendingFinite, FS_RemoveElement
  <1>3. Cardinality(Pending) # 0
    BY <1>1, PendingFinite, FS_EmptySet
  <1> QED BY <1>2, <1>3, PendingFinite

LEMMA PendingStays ==
  ASSUME pc \in [Tasks -> {"idle", "reserve", "store", "release", "stats"}],
         NEW t \in Tasks, NEW w \in {"idle", "reserve", "stats"}, Goto(t, w),
         pc[t] \notin {"store", "release"}
  PROVE  Pending' = Pending
  BY DEF Pending, Goto

\* A step that leaves the allocations and the number of reservations alone.
LEMMA SameLoads ==
  ASSUME AllocationsAddUp, NoOvercommit, UNCHANGED allocations,
         Reservations' = Reservations
  PROVE  AllocationsAddUp' /\ NoOvercommit'
  BY DEF AllocationsAddUp, NoOvercommit, allocations

-----------------------------------------------------------------------------
(* The steps *)

LEMMA GotoKeepsCounters ==
  ASSUME TypeOK, NEW t \in Tasks,
         NEW w \in {"idle", "reserve", "store", "release", "stats"}, Goto(t, w)
  PROVE  pc' \in [Tasks -> {"idle", "reserve", "store", "release", "stats"}]
  BY DEF Goto, TypeOK

\* A call that leaves the service.
LEMMA BackToIdle ==
  ASSUME TypeOK, CallsHoldSelected, NEW t \in Tasks, Goto(t, "idle"),
         arg' = [arg EXCEPT ![t] = NoArg]
  PROVE  arg' \in [Tasks -> Arg] /\ CallsHoldSelected'
  <1>1. NoArg \in Arg
    BY DEF NoArg, Arg
  <1>2. arg' \in [Tasks -> Arg]
    BY <1>1 DEF TypeOK
  <1>3. CallsHoldSelected'
    BY SMT DEF CallsHoldSelected, TypeOK, Goto, SelectedNodes, Before
  <1> QED BY <1>2, <1>3

LEMMA ScheduleKeeps ==
  ASSUME IInv, NEW t \in Tasks, NEW s \in Sessions, NEW length \in ContextLengths,
         Schedule(t, s, length)
  PROVE  IInv'
  <1> USE DEF IInv
  <1>0. SelectedNodes' = SelectedNodes
    BY DEF SelectedNodes, Before
  <1>1. [session |-> s, nodes |-> SelectedNodes] \in Arg
    BY DEF Arg
  <1>2. arg' \in [Tasks -> Arg]
    BY <1>1 DEF Schedule, TypeOK
  <1>3. pc' \in [Tasks -> {"idle", "reserve", "store", "release", "stats"}]
    BY GotoKeepsCounters DEF Schedule
  <1>5. Pending' = Pending
    BY PendingStays DEF Schedule, TypeOK
  <1>6. Reservations' = Reservations
    BY <1>5 DEF Reservations, Schedule, history
  <1>7. AllocationsAddUp' /\ NoOvercommit'
    BY <1>6, SameLoads DEF Schedule
  <1>8. CallsHoldSelected'
    BY <1>0, <1>3 DEF CallsHoldSelected, Schedule, TypeOK, Goto
  <1>9. TypeOK'
    BY <1>0, <1>2, <1>3 DEF TypeOK, Schedule, allocations, history, Arg
  <1> QED BY <1>7, <1>8, <1>9

\* What Reserve does to the types.
LEMMA ReserveTypes ==
  ASSUME TypeOK, NEW done \in SUBSET Nodes, NEW s \in Sessions, Reserve(done, s)
  PROVE  /\ cpu' \in [Nodes -> Nat] /\ ram' \in [Nodes -> Nat]
         /\ vram' \in [Nodes -> Nat]
         /\ active' \in [Nodes -> [Sessions -> Nat]]
  <1>1. /\ cpu' \in [Nodes -> Nat] /\ ram' \in [Nodes -> Nat]
        /\ vram' \in [Nodes -> Nat]
    BY Amounts DEF TypeOK, Reserve
  <1>2. \A n \in Nodes : [active[n] EXCEPT ![s] = @ + 1] \in [Sessions -> Nat]
    BY DEF TypeOK
  <1>3. active' \in [Nodes -> [Sessions -> Nat]]
    BY <1>2 DEF TypeOK, Reserve
  <1> QED BY <1>1, <1>3

LEMMA ReserveResourcesCounts ==
  ASSUME IInv, NEW t \in Tasks, ReserveResources(t)
  PROVE  Reservations' = Reservations + 1
  <1>1. Cardinality(Pending') = Cardinality(Pending) + 1
    BY PendingGrows DEF IInv, ReserveResources, TypeOK
  <1>2. DOMAIN sessions' = DOMAIN sessions /\ leaked' = leaked
    BY DEF ReserveResources, history
  <1> QED BY <1>1, <1>2, LiveFinite, PendingFinite DEF IInv, Reservations

LEMMA ReserveResourcesKeeps ==
  ASSUME IInv, NEW t \in Tasks, ReserveResources(t)
  PROVE  IInv'
  <1> USE DEF IInv
  <1>0. SelectedNodes' = SelectedNodes
    BY DEF SelectedNodes, Before
  <1>1. arg[t].nodes = SelectedNodes /\ arg[t].session \in Sessions
    BY DEF CallsHoldSelected, ReserveResources
  <1>2. Reserve(SelectedNodes, arg[t].session)
    BY <1>1 DEF ReserveResources
  <1>3. pc' \in [Tasks -> {"idle", "reserve", "store", "release", "stats"}]
    BY GotoKeepsCounters DEF ReserveResources
  <1>4. TypeOK'
    <2>1. /\ cpu' \in [Nodes -> Nat] /\ ram' \in [Nodes -> Nat]
          /\ vram' \in [Nodes -> Nat]
          /\ active' \in [Nodes -> [Sessions -> Nat]]
      BY <1>1, <1>2, Amounts, ReserveTypes
    <2> QED BY <1>0, <1>3, <2>1 DEF TypeOK, ReserveResources, history, Arg
  <1>5. Reservations' = Reservations + 1
    BY ReserveResourcesCounts
  <1>6. AllocationsAddUp'
    <2> SUFFICES ASSUME NEW n \in Nodes
                 PROVE  LET k == IF n \in SelectedNodes THEN Reservations' ELSE 0
                        IN cpu'[n] = CpuPerNode * k /\ ram'[n] = RamPerNode * k
                           /\ vram'[n] = VramPerNode * k
      BY <1>0 DEF AllocationsAddUp
    <2>1. CASE n \in SelectedNodes
      <3>1. /\ cpu[n] = CpuPerNode * Reservations
            /\ ram[n] = RamPerNode * Reservations
            /\ vram[n] = VramPerNode * Reservations
        BY <2>1 DEF AllocationsAddUp
      <3>2. /\ cpu'[n] = cpu[n] + CpuPerNode
            /\ ram'[n] = ram[n] + RamPerNode
            /\ vram'[n] = vram[n] + VramPerNode
        BY <1>2, <2>1 DEF Reserve
      <3>3. /\ CpuPerNode * (Reservations + 1) = CpuPerNode * Reservations + CpuPerNode
            /\ RamPerNode * (Reservations + 1) = RamPerNode * Reservations + RamPerNode
            /\ VramPerNode * (Reservations + 1)
                 = VramPerNode * Reservations + VramPerNode
        BY Amounts, LiveFinite, OneMore
      <3> QED BY <1>5, <2>1, <3>1, <3>2, <3>3
    <2>2. CASE n \notin SelectedNodes
      <3>1. cpu[n] = CpuPerNode * 0 /\ ram[n] = RamPerNode * 0
            /\ vram[n] = VramPerNode * 0
        BY <2>2 DEF AllocationsAddUp
      <3>2. cpu'[n] = cpu[n] /\ ram'[n] = ram[n] /\ vram'[n] = vram[n]
        BY <1>2, <2>2 DEF Reserve
      <3> QED BY <2>2, <3>1, <3>2
    <2> QED BY <2>1, <2>2
  <1>7. NoOvercommit'
    <2> SUFFICES ASSUME NEW n \in Nodes
                 PROVE  cpu'[n] <= CpuLimit
      BY DEF NoOvercommit
    <2>1. CASE n \in SelectedNodes
      BY <1>1, <1>2, <2>1 DEF Reserve, ReserveResources, Fits
    <2>2. CASE n \notin SelectedNodes
      BY <1>2, <2>2 DEF Reserve, NoOvercommit
    <2> QED BY <2>1, <2>2
  <1>8. CallsHoldSelected'
    BY <1>0, <1>1 DEF CallsHoldSelected, ReserveResources, TypeOK, Goto
  <1> QED BY <1>4, <1>6, <1>7, <1>8

\* The nodes of a session fill up together: when one of them refuses, so would
\* every other, and the loop has reserved nothing before it.
LEMMA RefusalsAreUniform ==
  ASSUME IInv, NEW t \in Tasks, ReserveFails(t)
  PROVE  UNCHANGED allocations
  <1> USE DEF IInv
  <1>1. arg[t].nodes = SelectedNodes /\ arg[t].session \in Sessions
    BY DEF CallsHoldSelected, ReserveFails
  <1>2. PICK n \in SelectedNodes :
          /\ ~Fits(n)
          /\ \E done \in SUBSET {m \in SelectedNodes \ {n} : Fits(m)} :
               Reserve(done, arg[t].session)
    BY <1>1 DEF ReserveFails
  <1>3. \A m \in SelectedNodes : ~Fits(m)
    BY <1>2, Amounts DEF Fits, AllocationsAddUp
  <1>4. Reserve({}, arg[t].session)
    BY <1>2, <1>3
  <1>5. cpu' = cpu /\ ram' = ram /\ vram' = vram /\ active' = active
    BY <1>4 DEF Reserve, TypeOK
  <1> QED BY <1>5 DEF allocations

LEMMA ReserveFailsKeeps ==
  ASSUME IInv, NEW t \in Tasks, ReserveFails(t)
  PROVE  IInv'
  <1> USE DEF IInv
  <1>0. SelectedNodes' = SelectedNodes
    BY DEF SelectedNodes, Before
  <1>1. UNCHANGED allocations
    BY RefusalsAreUniform
  <1>2. arg' \in [Tasks -> Arg] /\ CallsHoldSelected'
    BY BackToIdle DEF ReserveFails
  <1>3. pc' \in [Tasks -> {"idle", "reserve", "store", "release", "stats"}]
    BY GotoKeepsCounters DEF ReserveFails
  <1>4. Pending' = Pending
    BY PendingStays DEF ReserveFails, TypeOK
  <1>5. Reservations' = Reservations
    BY <1>4 DEF Reservations, ReserveFails, history
  <1>6. AllocationsAddUp' /\ NoOvercommit'
    BY <1>1, <1>5, SameLoads
  <1>7. TypeOK'
    BY <1>0, <1>1, <1>2, <1>3 DEF TypeOK, ReserveFails, allocations, history, Arg
  <1> QED BY <1>2, <1>6, <1>7

LEMMA LossTypes ==
  ASSUME TypeOK, NEW s \in Sessions, Lose(s)
  PROVE  /\ leaked' = leaked + 1 /\ leaked' \in Nat /\ lost' \in [Sessions -> Nat]
         /\ \A x \in Sessions : lost'[x] = IF x = s THEN lost[x] + 1 ELSE lost[x]
  <1>1. /\ lost \in [Sessions -> Nat] /\ lost[s] + 1 \in Nat
        /\ lost' = [lost EXCEPT ![s] = lost[s] + 1]
    BY DEF TypeOK, Lose
  <1>2. leaked' = leaked + 1 /\ leaked' \in Nat
    BY DEF TypeOK, Lose
  <1> QED BY <1>1, <1>2

\* A reservation goes from the call to the session, or, when the id was taken,
\* the session's former reservation is left to nobody.
LEMMA StoreSessionCounts ==
  ASSUME IInv, NEW t \in Tasks, StoreSession(t)
  PROVE  /\ Reservations' = Reservations
         /\ leaked' \in Nat /\ lost' \in [Sessions -> Nat]
  <1> USE DEF IInv
  <1> DEFINE s == arg[t].session
  <1>1. /\ Cardinality(Pending') = Cardinality(Pending) - 1
        /\ Cardinality(Pending) > 0
    BY PendingShrinks DEF StoreSession, TypeOK
  <1>2. DOMAIN sessions' = DOMAIN sessions \cup {s}
    BY DEF StoreSession
  <1>3. CASE s \in DOMAIN sessions
    <2>1. DOMAIN sessions' = DOMAIN sessions /\ Lose(s)
      BY <1>2, <1>3 DEF StoreSession
    <2>2. PICK x \in Sessions : x = s
      BY DEF CallsHoldSelected, StoreSession
    <2>3. /\ leaked' = leaked + 1 /\ leaked' \in Nat /\ lost' \in [Sessions -> Nat]
      BY <2>1, <2>2, LossTypes
    <2>4. Reservations' = Reservations
      BY <1>1, <2>1, <2>3, LiveFinite, PendingFinite DEF Reservations
    <2> QED BY <2>3, <2>4
  <1>4. CASE s \notin DOMAIN sessions
    <2>1. /\ Cardinality(DOMAIN sessions') = Cardinality(DOMAIN sessions) + 1
          /\ leaked' = leaked /\ lost' = lost
      BY <1>2, <1>4, LiveFinite, FS_AddElement DEF StoreSession
    <2>2. Reservations' = Reservations
      BY <1>1, <2>1, LiveFinite, PendingFinite DEF Reservations
    <2> QED BY <2>1, <2>2 DEF TypeOK
  <1> QED BY <1>3, <1>4

LEMMA StoreSessionKeeps ==
  ASSUME IInv, NEW t \in Tasks, StoreSession(t)
  PROVE  IInv'
  <1> USE DEF IInv
  <1> DEFINE s == arg[t].session
  <1>0. SelectedNodes' = SelectedNodes
    BY DEF SelectedNodes, Before
  <1>1. arg[t].nodes = SelectedNodes /\ s \in Sessions
    BY DEF CallsHoldSelected, StoreSession
  <1>2. arg' \in [Tasks -> Arg] /\ CallsHoldSelected'
    BY BackToIdle DEF StoreSession
  <1>3. pc' \in [Tasks -> {"idle", "reserve", "store", "release", "stats"}]
    BY GotoKeepsCounters DEF StoreSession
  <1>5. DOMAIN sessions' = DOMAIN sessions \cup {s}
    BY DEF StoreSession
  <1>6. /\ Reservations' = Reservations
        /\ leaked' \in Nat /\ lost' \in [Sessions -> Nat]
    BY StoreSessionCounts
  <1>7. AllocationsAddUp' /\ NoOvercommit'
    BY <1>6, SameLoads DEF StoreSession
  <1>8. \A x \in DOMAIN sessions' : sessions'[x] = SelectedNodes
    BY <1>1 DEF StoreSession, TypeOK
  <1>9. TypeOK'
    BY <1>0, <1>1, <1>2, <1>3, <1>5, <1>6, <1>8
    DEF TypeOK, StoreSession, allocations, Arg
  <1> QED BY <1>2, <1>7, <1>9

LEMMA BeginReleaseCounts ==
  ASSUME IInv, NEW t \in Tasks, NEW s \in Sessions, BeginRelease(t, s)
  PROVE  Reservations' = Reservations
  <1> USE DEF IInv
  <1>1. Cardinality(Pending') = Cardinality(Pending) + 1
    BY PendingGrows DEF BeginRelease, TypeOK
  <1>2. DOMAIN sessions' = DOMAIN sessions \ {s}
    BY DEF BeginRelease
  <1>3. Cardinality(DOMAIN sessions') = Cardinality(DOMAIN sessions) - 1
    BY <1>2, LiveFinite, FS_RemoveElement DEF BeginRelease
  <1>4. leaked' = leaked
    BY DEF BeginRelease, history
  <1> QED BY <1>1, <1>3, <1>4, LiveFinite, PendingFinite DEF Reservations

LEMMA BeginReleaseKeeps ==
  ASSUME IInv, NEW t \in Tasks, NEW s \in Sessions, BeginRelease(t, s)
  PROVE  IInv'
  <1> USE DEF IInv
  <1>0. SelectedNodes' = SelectedNodes
    BY DEF SelectedNodes, Before
  <1>1. sessions[s] = SelectedNodes
    BY DEF BeginRelease, TypeOK
  <1>2. [session |-> s, nodes |-> SelectedNodes] \in Arg
    BY DEF Arg
  <1>3. arg' \in [Tasks -> Arg]
    BY <1>1, <1>2 DEF BeginRelease, TypeOK
  <1>4. pc' \in [Tasks -> {"idle", "reserve", "store", "release", "stats"}]
    BY GotoKeepsCounters DEF BeginRelease
  <1>6. DOMAIN sessions' = DOMAIN sessions \ {s}
    BY DEF BeginRelease
  <1>8. Reservations' = Reservations
    BY BeginReleaseCounts
  <1>9. AllocationsAddUp' /\ NoOvercommit'
    BY <1>8, SameLoads DEF BeginRelease
  <1>10. CallsHoldSelected'
    BY <1>0, <1>1 DEF CallsHoldSelected, BeginRelease, TypeOK, Goto
  <1>11. \A x \in DOMAIN sessions' : sessions'[x] = SelectedNodes
    BY DEF BeginRelease, TypeOK
  <1>12. TypeOK'
    BY <1>0, <1>3, <1>4, <1>6, <1>11 DEF TypeOK, BeginRelease, allocations, history, Arg
  <1> QED BY <1>9, <1>10, <1>12

LEMMA HoldingFinite ==
  \A s : IsFiniteSet(Holding(s)) /\ Cardinality(Holding(s)) \in Nat
  <1> SUFFICES ASSUME NEW s
               PROVE  IsFiniteSet(Holding(s)) /\ Cardinality(Holding(s)) \in Nat
    OBVIOUS
  <1>1. Holding(s) \subseteq Tasks
    BY DEF Holding
  <1> QED BY <1>1, Amounts, FS_Subset, FS_CardinalityType

LEMMA HeldIsNat ==
  ASSUME TypeOK
  PROVE  \A s \in Sessions : Held(s) \in Nat
  BY HoldingFinite DEF Held, TypeOK

LEMMA HolderHolds ==
  ASSUME TypeOK, NEW t \in Tasks, pc[t] \in {"store", "release"},
         NEW s \in Sessions, arg[t].session = s
  PROVE  Held(s) \in Nat /\ Held(s) > 0
  <1>1. t \in Holding(s)
    BY DEF Holding
  <1>2. Cardinality(Holding(s)) # 0
    BY <1>1, HoldingFinite, FS_EmptySet
  <1>3. Cardinality(Holding(s)) \in Nat /\ lost[s] \in Nat
    BY HoldingFinite DEF TypeOK
  <1> QED BY <1>2, <1>3 DEF Held

LEMMA ReleaseAllocationsCounts ==
  ASSUME IInv, NEW t \in Tasks, ReleaseAllocations(t)
  PROVE  Reservations' = Reservations - 1 /\ Reservations > 0
  <1>1. /\ Cardinality(Pending') = Cardinality(Pending) - 1
        /\ Cardinality(Pending) > 0
    BY PendingShrinks DEF IInv, ReleaseAllocations, TypeOK
  <1>2. DOMAIN sessions' = DOMAIN sessions /\ leaked' = leaked
    BY DEF ReleaseAllocations
  <1> QED BY <1>1, <1>2, LiveFinite, PendingFinite DEF IInv, Reservations

\* No subtraction underflows: the reservation being released is one of those
\* every selected node carries.
LEMMA ReleaseAllocationsKeeps ==
  ASSUME IInv, NEW t \in Tasks, ReleaseAllocations(t)
  PROVE  IInv'
  <1> USE DEF IInv
  <1>0. SelectedNodes' = SelectedNodes
    BY DEF SelectedNodes, Before
  <1>1. /\ ReleasedNodes(arg[t].nodes) = SelectedNodes
        /\ arg[t].session \in Sessions
    BY DEF CallsHoldSelected, ReleaseAllocations, ReleasedNodes
  <1>2. arg' \in [Tasks -> Arg] /\ CallsHoldSelected'
    BY BackToIdle DEF ReleaseAllocations
  <1>3. pc' \in [Tasks -> {"idle", "reserve", "store", "release", "stats"}]
    BY GotoKeepsCounters DEF ReleaseAllocations
  <1>5. Reservations' = Reservations - 1 /\ Reservations > 0
    BY ReleaseAllocationsCounts
  <1>6. \A n \in SelectedNodes :
          /\ cpu[n] = CpuPerNode * Reservations
          /\ ram[n] = RamPerNode * Reservations
          /\ vram[n] = VramPerNode * Reservations
    BY Amounts DEF AllocationsAddUp
  <1>7. \A n \in Nodes :
          n \notin SelectedNodes =>
            cpu[n] = CpuPerNode * 0 /\ ram[n] = RamPerNode * 0
              /\ vram[n] = VramPerNode * 0
    BY DEF AllocationsAddUp
  <1>8. \A n \in Nodes :
          /\ cpu'[n] = IF n \in SelectedNodes THEN cpu[n] - CpuPerNode ELSE cpu[n]
          /\ ram'[n] = IF n \in SelectedNodes THEN ram[n] - RamPerNode ELSE ram[n]
          /\ vram'[n] = IF n \in SelectedNodes THEN vram[n] - VramPerNode
                                               ELSE vram[n]
    BY <1>1 DEF ReleaseAllocations
  <1>9. /\ CpuPerNode * (Reservations - 1) = CpuPerNode * Reservations - CpuPerNode
        /\ RamPerNode * (Reservations - 1) = RamPerNode * Reservations - RamPerNode
        /\ VramPerNode * (Reservations - 1)
             = VramPerNode * Reservations - VramPerNode
        /\ CpuPerNode * Reservations - CpuPerNode \in Nat
        /\ RamPerNode * Reservations - RamPerNode \in Nat
        /\ VramPerNode * Reservations - VramPerNode \in Nat
    BY <1>5, Amounts, LiveFinite, AtLeastOne
  <1>10. AllocationsAddUp'
    <2> SUFFICES ASSUME NEW n \in Nodes
                 PROVE  LET k == IF n \in SelectedNodes THEN Reservations' ELSE 0
                        IN cpu'[n] = CpuPerNode * k /\ ram'[n] = RamPerNode * k
                           /\ vram'[n] = VramPerNode * k
      BY <1>0 DEF AllocationsAddUp
    <2>1. CASE n \in SelectedNodes
      BY <1>5, <1>6, <1>8, <1>9, <2>1
    <2>2. CASE n \notin SelectedNodes
      BY <1>7, <1>8, <2>2
    <2> QED BY <2>1, <2>2
  <1>11. NoOvercommit'
    BY <1>8, Amounts DEF NoOvercommit, TypeOK
  <1>12. /\ cpu' \in [Nodes -> Nat] /\ ram' \in [Nodes -> Nat]
         /\ vram' \in [Nodes -> Nat]
    <2>1. \A n \in Nodes : cpu'[n] \in Nat /\ ram'[n] \in Nat /\ vram'[n] \in Nat
      BY <1>6, <1>8, <1>9 DEF TypeOK
    <2> QED BY <2>1 DEF ReleaseAllocations
  <1>13. active' \in [Nodes -> [Sessions -> Nat]]
    BY <1>1 DEF ReleaseAllocations, Retain, TypeOK
  <1>14. struck' \in [Sessions -> Nat]
    <2>1. PICK s \in Sessions : s = arg[t].session
      BY <1>1
    <2>2. Held(s) \in Nat /\ Held(s) > 0
      BY <2>1, HolderHolds DEF ReleaseAllocations
    <2>3. Held(s) - 1 \in Nat
      BY <2>2
    <2> QED BY <2>1, <2>3 DEF ReleaseAllocations, TypeOK
  <1>15. TypeOK'
    BY <1>0, <1>2, <1>3, <1>12, <1>13, <1>14 DEF TypeOK, ReleaseAllocations, Arg
  <1> QED BY <1>2, <1>10, <1>11, <1>15

\* What a dropped call had reserved is still counted, as nobody's.
LEMMA DropCallCounts ==
  ASSUME IInv, NEW t \in Tasks, DropCall(t)
  PROVE  /\ Reservations' = Reservations
         /\ leaked' \in Nat /\ lost' \in [Sessions -> Nat]
  <1> USE DEF IInv
  <1>1. DOMAIN sessions' = DOMAIN sessions
    BY DEF DropCall
  <1>2. CASE pc[t] = "reserve"
    <2>1. Pending' = Pending /\ leaked' = leaked /\ lost' = lost
      BY <1>2, PendingStays DEF DropCall, TypeOK
    <2> QED BY <1>1, <2>1 DEF Reservations, TypeOK
  <1>3. CASE pc[t] \in {"store", "release"}
    <2>1. /\ Cardinality(Pending') = Cardinality(Pending) - 1
          /\ Lose(arg[t].session)
      BY <1>3, PendingShrinks DEF DropCall, TypeOK
    <2>2. leaked' = leaked + 1 /\ leaked' \in Nat /\ lost' \in [Sessions -> Nat]
      <3>1. PICK s \in Sessions : s = arg[t].session
        BY <1>3 DEF CallsHoldSelected
      <3> QED BY <2>1, <3>1, LossTypes
    <2> QED BY <1>1, <2>1, <2>2, LiveFinite, PendingFinite DEF Reservations
  <1> QED BY <1>2, <1>3 DEF DropCall

LEMMA DropCallKeeps ==
  ASSUME IInv, NEW t \in Tasks, DropCall(t)
  PROVE  IInv'
  <1> USE DEF IInv
  <1>0. SelectedNodes' = SelectedNodes
    BY DEF SelectedNodes, Before
  <1>1. arg' \in [Tasks -> Arg] /\ CallsHoldSelected'
    BY BackToIdle DEF DropCall
  <1>2. pc' \in [Tasks -> {"idle", "reserve", "store", "release", "stats"}]
    BY GotoKeepsCounters DEF DropCall
  <1>4. /\ Reservations' = Reservations
        /\ leaked' \in Nat /\ lost' \in [Sessions -> Nat]
    BY DropCallCounts
  <1>5. AllocationsAddUp' /\ NoOvercommit'
    BY <1>4, SameLoads DEF DropCall
  <1>6. TypeOK'
    BY <1>0, <1>1, <1>2, <1>4 DEF TypeOK, DropCall, allocations, Arg
  <1> QED BY <1>1, <1>5, <1>6

LEMMA BeginStatsKeeps ==
  ASSUME IInv, NEW t \in Tasks, BeginStats(t)
  PROVE  IInv'
  <1> USE DEF IInv
  <1>0. SelectedNodes' = SelectedNodes
    BY DEF SelectedNodes, Before
  <1>1. pc' \in [Tasks -> {"idle", "reserve", "store", "release", "stats"}]
    BY GotoKeepsCounters DEF BeginStats
  <1>2. Pending' = Pending
    BY PendingStays DEF BeginStats, TypeOK
  <1>3. AllocationsAddUp' /\ NoOvercommit'
    BY <1>2, SameLoads DEF BeginStats, Reservations, history
  <1>4. CallsHoldSelected'
    BY <1>0 DEF CallsHoldSelected, BeginStats, TypeOK, Goto
  <1>5. counted' \in [Tasks -> Nat]
    BY LiveFinite DEF BeginStats, TypeOK
  <1>6. TypeOK'
    BY <1>0, <1>1, <1>5 DEF TypeOK, BeginStats, allocations, history, Arg
  <1> QED BY <1>3, <1>4, <1>6

LEMMA FinishStatsKeeps ==
  ASSUME IInv, NEW t \in Tasks, FinishStats(t)
  PROVE  IInv'
  <1> USE DEF IInv
  <1>0. SelectedNodes' = SelectedNodes
    BY DEF SelectedNodes, Before
  <1>1. pc' \in [Tasks -> {"idle", "reserve", "store", "release", "stats"}]
    BY GotoKeepsCounters DEF FinishStats
  <1>2. Pending' = Pending
    BY PendingStays DEF FinishStats, TypeOK
  <1>3. AllocationsAddUp' /\ NoOvercommit'
    BY <1>2, SameLoads DEF FinishStats, Reservations, history
  <1>4. CallsHoldSelected'
    BY <1>0 DEF CallsHoldSelected, FinishStats, TypeOK, Goto
  <1>5. counted' \in [Tasks -> Nat]
    BY DEF FinishStats, TypeOK
  <1>6. TypeOK'
    BY <1>0, <1>1, <1>5 DEF TypeOK, FinishStats, allocations, history, Arg
  <1> QED BY <1>3, <1>4, <1>6

-----------------------------------------------------------------------------
(* The invariant *)

LEMMA InitIInv == Init => IInv
  <1> SUFFICES ASSUME Init PROVE IInv
    OBVIOUS
  <1>1. Pending = {} /\ DOMAIN sessions = {}
    BY DEF Init, Pending
  <1>2. Reservations = 0
    BY <1>1, FS_EmptySet DEF Reservations, Init
  <1>3. AllocationsAddUp
    BY <1>2, Amounts DEF AllocationsAddUp, Init
  <1>4. NoOvercommit
    BY Amounts DEF NoOvercommit, Init
  <1>5. CallsHoldSelected
    BY DEF CallsHoldSelected, Init
  <1>6. active \in [Nodes -> [Sessions -> Nat]]
    BY DEF Init
  <1>7. arg \in [Tasks -> Arg]
    BY DEF Init, Arg, NoArg
  <1>8. TypeOK
    BY <1>1, <1>6, <1>7 DEF TypeOK, Init
  <1> QED BY <1>3, <1>4, <1>5, <1>8 DEF IInv

LEMMA NextIInv == IInv /\ [Next]_vars => IInv'
  <1> SUFFICES ASSUME IInv, [Next]_vars PROVE IInv'
    OBVIOUS
  <1>1. ASSUME NEW t \in Tasks, NEW s \in Sessions, NEW length \in ContextLengths,
               Schedule(t, s, length)
        PROVE  IInv'
    BY <1>1, ScheduleKeeps
  <1>2. ASSUME NEW t \in Tasks, NEW s \in Sessions, BeginRelease(t, s)
        PROVE  IInv'
    BY <1>2, BeginReleaseKeeps
  <1>3. ASSUME NEW t \in Tasks, ReserveResources(t) PROVE IInv'
    BY <1>3, ReserveResourcesKeeps
  <1>4. ASSUME NEW t \in Tasks, ReserveFails(t) PROVE IInv'
    BY <1>4, ReserveFailsKeeps
  <1>5. ASSUME NEW t \in Tasks, StoreSession(t) PROVE IInv'
    BY <1>5, StoreSessionKeeps
  <1>6. ASSUME NEW t \in Tasks, ReleaseAllocations(t) PROVE IInv'
    BY <1>6, ReleaseAllocationsKeeps
  <1>7. ASSUME NEW t \in Tasks, DropCall(t) PROVE IInv'
    BY <1>7, DropCallKeeps
  <1>8. ASSUME NEW t \in Tasks, BeginStats(t) PROVE IInv'
    BY <1>8, BeginStatsKeeps
  <1>9. ASSUME NEW t \in Tasks, FinishStats(t) PROVE IInv'
    BY <1>9, FinishStatsKeeps
  <1>10. CASE UNCHANGED vars
    <2>1. SelectedNodes' = SelectedNodes
      BY DEF SelectedNodes, Before
    <2>2. Pending' = Pending
      BY <1>10 DEF Pending, vars
    <2>3. AllocationsAddUp' /\ NoOvercommit'
      <3>1. Reservations' = Reservations
        BY <1>10, <2>2 DEF Reservations, vars
      <3>2. UNCHANGED allocations
        BY <1>10 DEF vars, allocations
      <3> QED BY <3>1, <3>2, SameLoads DEF IInv
    <2>4. TypeOK' /\ CallsHoldSelected'
      BY <1>10, <2>1
      DEF IInv, TypeOK, CallsHoldSelected, vars, allocations, Arg
    <2> QED BY <2>3, <2>4 DEF IInv
  <1> QED BY <1>1, <1>2, <1>3, <1>4, <1>5, <1>6, <1>7, <1>8, <1>9, <1>10 DEF Next

\* The inductive invariant holds throughout, whatever calls are made, however
\* they interleave and wherever they are dropped.
THEOREM InductiveInvariant == Spec => []IInv
  BY InitIInv, NextIInv, PTL DEF Spec

\* Every value the service keeps has its type; in particular the unsigned
\* totals of node_allocations never go below zero.
THEOREM TypeCorrect == Spec => []TypeOK
  BY InductiveInvariant, PTL DEF IInv

\* The totals of node_allocations are those of the reservations still held.
THEOREM AllocationsAreExact == Spec => []AllocationsAddUp
  BY InductiveInvariant, PTL DEF IInv

\* reserve_resources never lets a node go over its CPU, with any number of
\* concurrent calls.
THEOREM NeverOvercommitted == Spec => []NoOvercommit
  BY InductiveInvariant, PTL DEF IInv

\* A reservation that is refused at some node has reserved nothing at the
\* nodes before it, though reserve_resources does not roll back.
THEOREM RefusalIsAtomic == Spec => RefusalLeavesNothing
  <1>1. ASSUME IInv, [Next]_vars, NEW t \in Tasks,
               pc[t] = "reserve", pc'[t] = "idle"
        PROVE  UNCHANGED allocations
    <2>1. ASSUME NEW u \in Tasks, ReserveFails(u) PROVE UNCHANGED allocations
      BY <1>1, <2>1, RefusalsAreUniform
    <2>2. ASSUME NEW u \in Tasks, ReserveResources(u) PROVE FALSE
      BY <1>1, <2>2 DEF IInv, TypeOK, ReserveResources, Goto
    <2>3. ASSUME NEW u \in Tasks, ReleaseAllocations(u) PROVE FALSE
      BY <1>1, <2>3 DEF IInv, TypeOK, ReleaseAllocations, Goto
    <2>4. ASSUME NEW u \in Tasks, NEW s \in Sessions,
                 \/ \E length \in ContextLengths : Schedule(u, s, length)
                 \/ BeginRelease(u, s)
          PROVE  UNCHANGED allocations
      BY <2>4 DEF Schedule, BeginRelease
    <2>5. ASSUME NEW u \in Tasks,
                 \/ StoreSession(u) \/ DropCall(u)
                 \/ BeginStats(u) \/ FinishStats(u)
          PROVE  UNCHANGED allocations
      BY <2>5 DEF StoreSession, DropCall, BeginStats, FinishStats
    <2>6. CASE UNCHANGED vars
      BY <2>6 DEF vars, allocations
    <2> QED BY <1>1, <2>1, <2>2, <2>3, <2>4, <2>5, <2>6 DEF Next
  <1>2. IInv /\ [Next]_vars =>
          [\A t \in Tasks :
             pc[t] = "reserve" /\ pc'[t] = "idle" => UNCHANGED allocations]_vars
    BY <1>1
  <1> QED BY <1>2, InductiveInvariant, PTL DEF Spec, RefusalLeavesNothing

-----------------------------------------------------------------------------
(* The ledger of reservations *)

LEMMA LedgerInit == Init => Ledger!Init
  <1> SUFFICES ASSUME Init PROVE Ledger!Init
    OBVIOUS
  <1>1. Pending = {} /\ DOMAIN sessions = {}
    BY DEF Init, Pending
  <1>2. Reservations = 0
    BY <1>1, FS_EmptySet DEF Reservations, Init
  <1> QED BY <1>2 DEF Init, Ledger!Init

LEMMA ReserveIsLedgerStep ==
  ASSUME IInv, NEW t \in Tasks, ReserveResources(t)
  PROVE  Ledger!Reserve
  <1>1. arg[t].nodes = SelectedNodes
    BY DEF IInv, CallsHoldSelected, ReserveResources
  <1>2. \A n \in SelectedNodes : cpu[n] + CpuPerNode <= CpuLimit
    BY <1>1 DEF ReserveResources, Fits
  <1>3. Reservations' = Reservations + 1
    BY ReserveResourcesCounts
  <1>4. /\ cpu' = Ledger!Shifted(cpu, CpuPerNode)
        /\ ram' = Ledger!Shifted(ram, RamPerNode)
        /\ vram' = Ledger!Shifted(vram, VramPerNode)
    BY <1>1 DEF ReserveResources, Reserve, Ledger!Shifted
  <1> QED BY <1>2, <1>3, <1>4 DEF Ledger!Reserve

LEMMA ReleaseIsLedgerStep ==
  ASSUME IInv, NEW t \in Tasks, ReleaseAllocations(t)
  PROVE  Ledger!Release
  <1>1. ReleasedNodes(arg[t].nodes) = SelectedNodes
    BY DEF IInv, CallsHoldSelected, ReleaseAllocations, ReleasedNodes
  <1>2. Reservations' = Reservations - 1 /\ Reservations > 0
    BY ReleaseAllocationsCounts
  <1>3. /\ cpu' = [n \in Nodes |-> IF n \in SelectedNodes THEN cpu[n] - CpuPerNode
                                                       ELSE cpu[n]]
        /\ ram' = [n \in Nodes |-> IF n \in SelectedNodes THEN ram[n] - RamPerNode
                                                       ELSE ram[n]]
        /\ vram' = [n \in Nodes |-> IF n \in SelectedNodes
                                  THEN vram[n] - VramPerNode ELSE vram[n]]
    BY <1>1 DEF ReleaseAllocations
  <1>4. \A n \in Nodes : /\ cpu[n] - CpuPerNode = cpu[n] + (-CpuPerNode)
                         /\ ram[n] - RamPerNode = ram[n] + (-RamPerNode)
                         /\ vram[n] - VramPerNode = vram[n] + (-VramPerNode)
    BY Amounts DEF IInv, TypeOK
  <1>5. /\ cpu' = Ledger!Shifted(cpu, -CpuPerNode)
        /\ ram' = Ledger!Shifted(ram, -RamPerNode)
        /\ vram' = Ledger!Shifted(vram, -VramPerNode)
    BY <1>3, <1>4 DEF Ledger!Shifted
  <1> QED BY <1>2, <1>5 DEF Ledger!Release

\* Every other step leaves the ledger as it is.
LEMMA OthersStutter ==
  ASSUME UNCHANGED allocations, Reservations' = Reservations
  PROVE  UNCHANGED Ledger!vars
  BY DEF allocations, Ledger!vars

LEMMA NextIsLedgerStep == IInv /\ [Next]_vars => [Ledger!Next]_(Ledger!vars)
  <1> SUFFICES ASSUME IInv, [Next]_vars PROVE [Ledger!Next]_(Ledger!vars)
    OBVIOUS
  <1>1. ASSUME NEW t \in Tasks, ReserveResources(t) PROVE Ledger!Next
    BY <1>1, ReserveIsLedgerStep DEF Ledger!Next
  <1>2. ASSUME NEW t \in Tasks, ReleaseAllocations(t) PROVE Ledger!Next
    BY <1>2, ReleaseIsLedgerStep DEF Ledger!Next
  <1>3. ASSUME NEW t \in Tasks, NEW s \in Sessions, NEW length \in ContextLengths,
               Schedule(t, s, length)
        PROVE  UNCHANGED Ledger!vars
    <2>1. Pending' = Pending
      BY <1>3, PendingStays DEF IInv, TypeOK, Schedule
    <2> QED BY <1>3, <2>1, OthersStutter DEF Schedule, Reservations, history
  <1>4. ASSUME NEW t \in Tasks, NEW s \in Sessions, BeginRelease(t, s)
        PROVE  UNCHANGED Ledger!vars
    BY <1>4, BeginReleaseCounts, OthersStutter DEF BeginRelease
  <1>5. ASSUME NEW t \in Tasks, ReserveFails(t) PROVE UNCHANGED Ledger!vars
    <2>1. Pending' = Pending
      BY <1>5, PendingStays DEF IInv, TypeOK, ReserveFails
    <2>2. Reservations' = Reservations
      BY <1>5, <2>1 DEF Reservations, ReserveFails, history
    <2> QED BY <1>5, <2>2, RefusalsAreUniform, OthersStutter
  <1>6. ASSUME NEW t \in Tasks, StoreSession(t) PROVE UNCHANGED Ledger!vars
    BY <1>6, StoreSessionCounts, OthersStutter DEF StoreSession
  <1>7. ASSUME NEW t \in Tasks, DropCall(t) PROVE UNCHANGED Ledger!vars
    BY <1>7, DropCallCounts, OthersStutter DEF DropCall
  <1>8. ASSUME NEW t \in Tasks, BeginStats(t) \/ FinishStats(t)
        PROVE  UNCHANGED Ledger!vars
    <2>1. Pending' = Pending
      BY <1>8, PendingStays DEF IInv, TypeOK, BeginStats, FinishStats
    <2> QED BY <1>8, <2>1, OthersStutter DEF BeginStats, FinishStats, Reservations, history
  <1>9. CASE UNCHANGED vars
    <2>1. Pending' = Pending
      BY <1>9 DEF Pending, vars
    <2>2. Reservations' = Reservations /\ UNCHANGED allocations
      BY <1>9, <2>1 DEF Reservations, vars, allocations
    <2> QED BY <2>2, OthersStutter
  <1> QED
    BY <1>1, <1>2, <1>3, <1>4, <1>5, <1>6, <1>7, <1>8, <1>9 DEF Next

\* The service implements the ledger: between their locks, calls, releases,
\* dropped calls and refusals amount to reservations that are made on all the
\* selected nodes at once, when they fit, and given back once.
THEOREM ImplementsLedger == Spec => ReservationsAreAtomic
  BY LedgerInit, NextIsLedgerStep, InductiveInvariant, PTL
  DEF Spec, ReservationsAreAtomic, Ledger!Spec

-----------------------------------------------------------------------------
(* The lists of active sessions *)

\* A call that comes by a reservation under s, or parts with one.
LEMMA HoldingGrows ==
  ASSUME TypeOK, NEW t \in Tasks, NEW w \in {"store", "release"}, Goto(t, w),
         pc[t] \notin {"store", "release"}, NEW s, arg'[t].session = s,
         \A u \in Tasks \ {t} : arg'[u] = arg[u]
  PROVE  /\ Cardinality(Holding(s)') = Cardinality(Holding(s)) + 1
         /\ \A x : x # s => Holding(x)' = Holding(x)
  <1>1. pc'[t] = w /\ \A u \in Tasks \ {t} : pc'[u] = pc[u]
    BY DEF Goto, TypeOK
  <1>2. Holding(s)' = Holding(s) \cup {t} /\ t \notin Holding(s)
    BY <1>1 DEF Holding
  <1>3. \A x : x # s => Holding(x)' = Holding(x)
    BY <1>1 DEF Holding
  <1>4. IsFiniteSet(Holding(s))
    BY HoldingFinite
  <1>5. Cardinality(Holding(s) \cup {t}) = Cardinality(Holding(s)) + 1
    BY <1>2, <1>4, FS_AddElement
  <1> QED BY <1>2, <1>3, <1>5

LEMMA HoldingShrinks ==
  ASSUME TypeOK, NEW t \in Tasks, Goto(t, "idle"),
         pc[t] \in {"store", "release"}, NEW s, arg[t].session = s,
         \A u \in Tasks \ {t} : arg'[u] = arg[u]
  PROVE  /\ Cardinality(Holding(s)') = Cardinality(Holding(s)) - 1
         /\ \A x : x # s => Holding(x)' = Holding(x)
  <1>1. pc'[t] = "idle" /\ \A u \in Tasks \ {t} : pc'[u] = pc[u]
    BY DEF Goto, TypeOK
  <1>2. Holding(s)' = Holding(s) \ {t} /\ t \in Holding(s)
    BY <1>1 DEF Holding
  <1>3. \A x : x # s => Holding(x)' = Holding(x)
    BY <1>1 DEF Holding
  <1>4. IsFiniteSet(Holding(s))
    BY HoldingFinite
  <1>5. Cardinality(Holding(s) \ {t}) = Cardinality(Holding(s)) - 1
    BY <1>2, <1>4, FS_RemoveElement
  <1> QED BY <1>2, <1>3, <1>5

\* A call that comes or goes without a reservation.
LEMMA HoldingStays ==
  ASSUME TypeOK, NEW t \in Tasks, NEW w \in {"idle", "reserve", "stats"}, Goto(t, w),
         pc[t] \notin {"store", "release"},
         \A u \in Tasks \ {t} : arg'[u] = arg[u]
  PROVE  \A x : Holding(x)' = Holding(x)
  <1>1. pc'[t] = w /\ \A u \in Tasks \ {t} : pc'[u] = pc[u]
    BY DEF Goto, TypeOK
  <1> QED BY <1>1 DEF Holding

\* A step that changes neither the lists nor what is held.
LEMMA SameLists ==
  ASSUME ListsAddUp, active' = active, struck' = struck,
         \A s \in Sessions : Held(s)' = Held(s)
  PROVE  ListsAddUp'
  <1>1. SelectedNodes' = SelectedNodes
    BY DEF SelectedNodes, Before
  <1> QED BY <1>1 DEF ListsAddUp

\* Steps of calls that have no reservation.
LEMMA UnreservedKeepsLists ==
  ASSUME TypeOK, ListsAddUp,
         NEW t \in Tasks, NEW w \in {"idle", "reserve", "stats"}, Goto(t, w),
         pc[t] \notin {"store", "release"},
         \A u \in Tasks \ {t} : arg'[u] = arg[u],
         UNCHANGED <<sessions, active, lost, struck>>
  PROVE  ListsAddUp'
  <1>1. \A x : Holding(x)' = Holding(x)
    BY HoldingStays
  <1>2. \A s \in Sessions : Held(s)' = Held(s)
    BY <1>1 DEF Held
  <1> QED BY <1>2, SameLists

LEMMA ReserveKeepsLists ==
  ASSUME IInv, ListsAddUp, NEW t \in Tasks, ReserveResources(t)
  PROVE  ListsAddUp'
  <1> USE DEF IInv
  <1>0. SelectedNodes' = SelectedNodes /\ SelectedNodes \subseteq Nodes
    BY Amounts DEF SelectedNodes, Before
  <1>1. PICK s \in Sessions : s = arg[t].session
    BY DEF CallsHoldSelected, ReserveResources
  <1>2. /\ arg[t].nodes = SelectedNodes /\ pc[t] = "reserve" /\ Goto(t, "store")
        /\ arg' = arg /\ sessions' = sessions /\ lost' = lost /\ struck' = struck
    BY DEF CallsHoldSelected, ReserveResources, history
  <1>3. /\ Cardinality(Holding(s)') = Cardinality(Holding(s)) + 1
        /\ \A x : x # s => Holding(x)' = Holding(x)
    BY <1>1, <1>2, HoldingGrows
  <1>4. \A x \in Sessions : Held(x)' = IF x = s THEN Held(x) + 1 ELSE Held(x)
    <2>1. Held(s)' = Held(s) + 1
      <3>1. Cardinality(Holding(s)) \in Nat /\ lost[s] \in Nat
        BY HoldingFinite DEF TypeOK
      <3> QED BY <1>2, <1>3, <3>1 DEF Held
    <2>2. \A x \in Sessions : x # s => Held(x)' = Held(x)
      BY <1>2, <1>3 DEF Held
    <2> QED BY <2>1, <2>2
  <1>5. \A n \in Nodes, x \in Sessions :
          active'[n][x] = IF n \in SelectedNodes /\ x = s THEN active[n][x] + 1
                                                          ELSE active[n][x]
    BY <1>1, <1>2 DEF ReserveResources, Reserve, TypeOK
  <1> SUFFICES ASSUME NEW n \in Nodes, NEW x \in Sessions
               PROVE  active'[n][x] =
                        IF n \in SelectedNodes THEN Held(x)' - struck'[x] ELSE 0
    BY <1>0 DEF ListsAddUp
  <1>6. /\ active[n][x] = IF n \in SelectedNodes THEN Held(x) - struck[x] ELSE 0
        /\ Held(x) \in Nat /\ struck[x] \in Nat
    BY HeldIsNat DEF ListsAddUp, TypeOK
  <1>7. /\ Held(x)' = IF x = s THEN Held(x) + 1 ELSE Held(x)
        /\ struck'[x] = struck[x]
    BY <1>2, <1>4
  <1>8. CASE x = s /\ n \in SelectedNodes
    BY <1>5, <1>6, <1>7, <1>8
  <1>9. CASE ~(x = s /\ n \in SelectedNodes)
    BY <1>5, <1>6, <1>7, <1>9
  <1> QED BY <1>8, <1>9

\* store and the start of a release pass a reservation on.
LEMMA StoreKeepsLists ==
  ASSUME IInv, ListsAddUp, NEW t \in Tasks, StoreSession(t)
  PROVE  ListsAddUp'
  <1> USE DEF IInv
  <1>1. PICK s \in Sessions : s = arg[t].session
    BY DEF CallsHoldSelected, StoreSession
  <1>2. /\ pc[t] = "store" /\ Goto(t, "idle") /\ active' = active /\ struck' = struck
        /\ \A u \in Tasks \ {t} : arg'[u] = arg[u]
        /\ DOMAIN sessions' = DOMAIN sessions \cup {s}
        /\ IF s \in DOMAIN sessions THEN Lose(s) ELSE lost' = lost
    BY <1>1 DEF StoreSession, allocations, TypeOK
  <1>3. /\ Cardinality(Holding(s)') = Cardinality(Holding(s)) - 1
        /\ \A x : x # s => Holding(x)' = Holding(x)
    BY <1>1, <1>2, HoldingShrinks
  <1>4. /\ Cardinality(Holding(s)) \in Nat /\ lost \in [Sessions -> Nat]
    BY HoldingFinite DEF TypeOK
  <1>5. /\ lost'[s] = IF s \in DOMAIN sessions THEN lost[s] + 1 ELSE lost[s]
        /\ \A x \in Sessions : x # s => lost'[x] = lost[x]
    BY <1>2, LossTypes
  <1>6. Held(s)' = Held(s) /\ \A x \in Sessions : x # s => Held(x)' = Held(x)
    <2>1. Held(s)' = Held(s)
      BY <1>2, <1>3, <1>4, <1>5 DEF Held
    <2>2. \A x \in Sessions : x # s => Held(x)' = Held(x)
      BY <1>2, <1>3, <1>5 DEF Held
    <2> QED BY <2>1, <2>2
  <1> QED BY <1>2, <1>6, SameLists

LEMMA BeginReleaseKeepsLists ==
  ASSUME IInv, ListsAddUp, NEW t \in Tasks, NEW s \in Sessions, BeginRelease(t, s)
  PROVE  ListsAddUp'
  <1> USE DEF IInv
  <1>1. /\ pc[t] = "idle" /\ Goto(t, "release") /\ arg'[t].session = s
        /\ active' = active /\ struck' = struck /\ lost' = lost
        /\ \A u \in Tasks \ {t} : arg'[u] = arg[u]
        /\ s \in DOMAIN sessions /\ DOMAIN sessions' = DOMAIN sessions \ {s}
    BY DEF BeginRelease, allocations, history, TypeOK
  <1>2. /\ Cardinality(Holding(s)') = Cardinality(Holding(s)) + 1
        /\ \A x : x # s => Holding(x)' = Holding(x)
    BY <1>1, HoldingGrows
  <1>3. Held(s)' = Held(s)
    <2>1. Cardinality(Holding(s)) \in Nat /\ lost[s] \in Nat
      BY HoldingFinite DEF TypeOK
    <2> QED BY <1>1, <1>2, <2>1 DEF Held
  <1>4. \A x \in Sessions : x # s => Held(x)' = Held(x)
    BY <1>1, <1>2 DEF Held
  <1> QED BY <1>1, <1>3, <1>4, SameLists

\* retain strikes the entries of all reservations under the released id, of
\* which all but the one released are still held.
LEMMA ReleaseKeepsLists ==
  ASSUME IInv, ListsAddUp, NEW t \in Tasks, ReleaseAllocations(t)
  PROVE  ListsAddUp'
  <1> USE DEF IInv
  <1>0. SelectedNodes' = SelectedNodes /\ SelectedNodes \subseteq Nodes
    BY Amounts DEF SelectedNodes, Before
  <1>1. PICK s \in Sessions : s = arg[t].session
    BY DEF CallsHoldSelected, ReleaseAllocations
  <1>2. /\ arg[t].nodes = SelectedNodes /\ pc[t] = "release" /\ Goto(t, "idle")
        /\ sessions' = sessions /\ lost' = lost
        /\ struck' = [struck EXCEPT ![s] = Held(s) - 1]
        /\ \A u \in Tasks \ {t} : arg'[u] = arg[u]
    BY <1>1 DEF CallsHoldSelected, ReleaseAllocations, TypeOK
  <1>3. /\ Cardinality(Holding(s)') = Cardinality(Holding(s)) - 1
        /\ \A x : x # s => Holding(x)' = Holding(x)
    BY <1>1, <1>2, HoldingShrinks
  <1>4. Held(s)' = Held(s) - 1 /\ Held(s) \in Nat
    <2>1. Cardinality(Holding(s)) \in Nat /\ lost[s] \in Nat
      BY HoldingFinite DEF TypeOK
    <2>2. Held(s)' = Held(s) - 1
      BY <1>2, <1>3, <2>1 DEF Held
    <2> QED BY <2>2, HeldIsNat
  <1>5. \A x \in Sessions : x # s => Held(x)' = Held(x)
    BY <1>2, <1>3 DEF Held
  <1>6. \A x \in Sessions : struck'[x] = IF x = s THEN Held(s) - 1 ELSE struck[x]
    BY <1>2 DEF TypeOK
  <1>7. \A n \in Nodes, x \in Sessions :
          active'[n][x] = IF n \in SelectedNodes /\ x = s THEN 0 ELSE active[n][x]
    BY <1>1, <1>2 DEF ReleaseAllocations, ReleasedNodes, Retain, TypeOK
  <1> SUFFICES ASSUME NEW n \in Nodes, NEW x \in Sessions
               PROVE  active'[n][x] =
                        IF n \in SelectedNodes THEN Held(x)' - struck'[x] ELSE 0
    BY <1>0 DEF ListsAddUp
  <1>8. active[n][x] = IF n \in SelectedNodes THEN Held(x) - struck[x] ELSE 0
    BY DEF ListsAddUp
  <1>9. CASE x = s
    <2>1. Held(x)' - struck'[x] = 0
      BY <1>4, <1>6, <1>9
    <2> QED BY <1>7, <1>8, <1>9, <2>1
  <1>10. CASE x # s
    BY <1>5, <1>6, <1>7, <1>8, <1>10
  <1> QED BY <1>9, <1>10

\* What a dropped call held is still in the lists, and lost.
LEMMA DropKeepsLists ==
  ASSUME IInv, ListsAddUp, NEW t \in Tasks, DropCall(t)
  PROVE  ListsAddUp'
  <1> USE DEF IInv
  <1>1. /\ Goto(t, "idle") /\ sessions' = sessions /\ active' = active /\ struck' = struck
        /\ \A u \in Tasks \ {t} : arg'[u] = arg[u]
    BY DEF DropCall, allocations, TypeOK
  <1>2. CASE pc[t] = "reserve"
    BY <1>1, <1>2, UnreservedKeepsLists DEF DropCall
  <1>3. CASE pc[t] \in {"store", "release"}
    <2>1. PICK s \in Sessions : s = arg[t].session
      BY <1>3 DEF CallsHoldSelected
    <2>2. Lose(s)
      BY <1>3, <2>1 DEF DropCall
    <2>3. /\ Cardinality(Holding(s)') = Cardinality(Holding(s)) - 1
          /\ \A x : x # s => Holding(x)' = Holding(x)
      BY <1>1, <1>3, <2>1, HoldingShrinks
    <2>4. /\ lost'[s] = lost[s] + 1
          /\ \A x \in Sessions : x # s => lost'[x] = lost[x]
          /\ Cardinality(Holding(s)) \in Nat /\ lost[s] \in Nat
      BY <2>2, LossTypes, HoldingFinite DEF TypeOK
    <2>6. Held(s)' = Held(s)
      BY <1>1, <2>3, <2>4 DEF Held
    <2>5. \A x \in Sessions : x # s => Held(x)' = Held(x)
      BY <1>1, <2>3, <2>4 DEF Held
    <2> QED BY <1>1, <2>5, <2>6, SameLists
  <1> QED BY <1>2, <1>3 DEF DropCall

LEMMA NextKeepsLists == IInv /\ ListsAddUp /\ [Next]_vars => ListsAddUp'
  <1> SUFFICES ASSUME IInv, ListsAddUp, [Next]_vars PROVE ListsAddUp'
    OBVIOUS
  <1>0. TypeOK
    BY DEF IInv
  <1>1. ASSUME NEW t \in Tasks, NEW s \in Sessions, NEW length \in ContextLengths,
               Schedule(t, s, length)
        PROVE  ListsAddUp'
    <2>1. /\ pc[t] \notin {"store", "release"} /\ Goto(t, "reserve")
          /\ UNCHANGED <<sessions, active, lost, struck>>
          /\ \A u \in Tasks \ {t} : arg'[u] = arg[u]
      BY <1>0, <1>1 DEF Schedule, allocations, history, TypeOK
    <2> QED BY <1>0, <2>1, UnreservedKeepsLists
  <1>2. ASSUME NEW t \in Tasks, NEW s \in Sessions, BeginRelease(t, s)
        PROVE  ListsAddUp'
    BY <1>2, BeginReleaseKeepsLists
  <1>3. ASSUME NEW t \in Tasks, ReserveResources(t) PROVE ListsAddUp'
    BY <1>3, ReserveKeepsLists
  <1>4. ASSUME NEW t \in Tasks, ReserveFails(t) PROVE ListsAddUp'
    <2>1. /\ pc[t] \notin {"store", "release"} /\ Goto(t, "idle")
          /\ UNCHANGED <<sessions, lost, struck>>
          /\ \A u \in Tasks \ {t} : arg'[u] = arg[u]
      BY <1>0, <1>4 DEF ReserveFails, history, TypeOK
    <2>2. active' = active
      BY <1>4, RefusalsAreUniform DEF allocations
    <2> QED BY <1>0, <2>1, <2>2, UnreservedKeepsLists
  <1>5. ASSUME NEW t \in Tasks, StoreSession(t) PROVE ListsAddUp'
    BY <1>5, StoreKeepsLists
  <1>6. ASSUME NEW t \in Tasks, ReleaseAllocations(t) PROVE ListsAddUp'
    BY <1>6, ReleaseKeepsLists
  <1>7. ASSUME NEW t \in Tasks, DropCall(t) PROVE ListsAddUp'
    BY <1>7, DropKeepsLists
  <1>8. ASSUME NEW t \in Tasks, BeginStats(t) \/ FinishStats(t) PROVE ListsAddUp'
    <2>1. /\ pc[t] \notin {"store", "release"}
          /\ Goto(t, "idle") \/ Goto(t, "stats")
          /\ UNCHANGED <<sessions, active, lost, struck>> /\ arg' = arg
      BY <1>8 DEF BeginStats, FinishStats, allocations, history
    <2> QED BY <1>0, <2>1, UnreservedKeepsLists
  <1>9. CASE UNCHANGED vars
    <2>1. \A s \in Sessions : Held(s)' = Held(s)
      BY <1>9 DEF vars, Held, Holding
    <2> QED BY <1>9, <2>1, SameLists DEF vars
  <1> QED BY <1>1, <1>2, <1>3, <1>4, <1>5, <1>6, <1>7, <1>8, <1>9 DEF Next

LEMMA NothingHeldYet ==
  ASSUME Init
  PROVE  \A s \in Sessions : Held(s) = 0
  <1> SUFFICES ASSUME NEW s \in Sessions PROVE Held(s) = 0
    OBVIOUS
  <1>1. Holding(s) = {} /\ s \notin DOMAIN sessions /\ lost[s] = 0
    BY DEF Init, Holding
  <1>2. Cardinality(Holding(s)) = 0
    BY <1>1, FS_EmptySet
  <1> QED BY <1>1, <1>2 DEF Held

\* ListsAddUp: for every id, reused or not, and whatever calls are dropped, each
\* selected node lists the reservations held under it, but for those a release
\* of another one under the same id has struck, and no other node lists it.
THEOREM ListsAreExact == Spec => []ListsAddUp
  <1>1. Init => ListsAddUp
    BY NothingHeldYet DEF Init, ListsAddUp
  <1> QED BY <1>1, NextKeepsLists, InductiveInvariant, PTL DEF Spec

-----------------------------------------------------------------------------
(* What keeps the books exact: nothing is lost unless a caller schedules an  *)
(* id that is still in use, or drops a call that holds a reservation.        *)

NothingLost == leaked = 0 /\ \A s \in Sessions : lost[s] = 0 /\ struck[s] = 0

Holds(t, s) == pc[t] \in {"reserve", "store", "release"} /\ arg[t].session = s

\* Each id is held by one call or by the map.
OneHolder ==
  \A s \in Sessions :
    /\ s \in DOMAIN sessions => \A t \in Tasks : ~Holds(t, s)
    /\ \A t, u \in Tasks : Holds(t, s) /\ Holds(u, s) => t = u

\* A call that takes up an id nobody holds.
LEMMA ScheduleKeepsHolder ==
  ASSUME ~ReuseIds, IInv, OneHolder, NEW t \in Tasks, NEW s \in Sessions,
         NEW length \in ContextLengths, Schedule(t, s, length)
  PROVE  OneHolder'
  <1>1. /\ pc'[t] = "reserve" /\ arg'[t].session = s
        /\ \A u \in Tasks \ {t} : pc'[u] = pc[u] /\ arg'[u] = arg[u]
        /\ sessions' = sessions /\ ~InUse(s)
    BY DEF Schedule, Goto, IInv, TypeOK
  <1>2. \A u \in Tasks, x \in Sessions :
          Holds(u, x)' <=> IF u = t THEN x = s ELSE Holds(u, x)
    BY <1>1 DEF Holds
  <1>3. s \notin DOMAIN sessions /\ \A u \in Tasks : ~Holds(u, s)
    BY <1>1 DEF InUse, Holds
  <1> QED BY <1>1, <1>2, <1>3 DEF OneHolder

\* A call that leaves, or goes on.
LEMMA HoldersStay ==
  ASSUME OneHolder,
         \A u \in Tasks, x \in Sessions : Holds(u, x)' => Holds(u, x),
         DOMAIN sessions' \subseteq DOMAIN sessions
  PROVE  OneHolder'
  BY DEF OneHolder

LEMMA StoreKeepsHolder ==
  ASSUME IInv, OneHolder, NEW t \in Tasks, StoreSession(t)
  PROVE  OneHolder'
  <1>1. /\ pc[t] = "store" /\ pc'[t] = "idle"
        /\ \A u \in Tasks \ {t} : pc'[u] = pc[u] /\ arg'[u] = arg[u]
        /\ DOMAIN sessions' = DOMAIN sessions \cup {arg[t].session}
    BY DEF StoreSession, Goto, IInv, TypeOK
  <1>2. \A u \in Tasks, x \in Sessions : Holds(u, x)' => u # t /\ Holds(u, x)
    BY <1>1 DEF Holds
  <1>3. Holds(t, arg[t].session)
    BY <1>1 DEF Holds
  <1> QED BY <1>1, <1>2, <1>3 DEF OneHolder

LEMMA BeginReleaseKeepsHolder ==
  ASSUME IInv, OneHolder, NEW t \in Tasks, NEW s \in Sessions, BeginRelease(t, s)
  PROVE  OneHolder'
  <1>1. /\ pc'[t] = "release" /\ arg'[t].session = s
        /\ \A u \in Tasks \ {t} : pc'[u] = pc[u] /\ arg'[u] = arg[u]
        /\ s \in DOMAIN sessions /\ DOMAIN sessions' = DOMAIN sessions \ {s}
    BY DEF BeginRelease, Goto, IInv, TypeOK
  <1>2. \A u \in Tasks, x \in Sessions :
          Holds(u, x)' <=> IF u = t THEN x = s ELSE Holds(u, x)
    BY <1>1 DEF Holds
  <1> QED BY <1>1, <1>2 DEF OneHolder

LEMMA NextKeepsHolder ==
  ASSUME ~ReuseIds, IInv, OneHolder, [Next]_vars
  PROVE  OneHolder'
  <1>1. ASSUME NEW t \in Tasks, NEW s \in Sessions, NEW length \in ContextLengths,
               Schedule(t, s, length)
        PROVE  OneHolder'
    BY <1>1, ScheduleKeepsHolder
  <1>2. ASSUME NEW t \in Tasks, NEW s \in Sessions, BeginRelease(t, s)
        PROVE  OneHolder'
    BY <1>2, BeginReleaseKeepsHolder
  <1>3. ASSUME NEW t \in Tasks, StoreSession(t) PROVE OneHolder'
    BY <1>3, StoreKeepsHolder
  <1>4. ASSUME NEW t \in Tasks, ReserveResources(t) PROVE OneHolder'
    <2>1. /\ pc[t] = "reserve" /\ \A u \in Tasks \ {t} : pc'[u] = pc[u]
          /\ arg' = arg /\ sessions' = sessions
      BY <1>4 DEF ReserveResources, Goto, IInv, TypeOK
    <2>2. \A u \in Tasks, x \in Sessions : Holds(u, x)' => Holds(u, x)
      BY <2>1 DEF Holds
    <2> QED BY <2>1, <2>2, HoldersStay
  <1>5. ASSUME NEW t \in Tasks,
               ReserveFails(t) \/ ReleaseAllocations(t) \/ DropCall(t)
        PROVE  OneHolder'
    <2>1. /\ pc'[t] = "idle" /\ sessions' = sessions
          /\ \A u \in Tasks \ {t} : pc'[u] = pc[u] /\ arg'[u] = arg[u]
      BY <1>5 DEF ReserveFails, ReleaseAllocations, DropCall, Goto, IInv, TypeOK
    <2>2. \A u \in Tasks, x \in Sessions : Holds(u, x)' => Holds(u, x)
      BY <2>1 DEF Holds
    <2> QED BY <2>1, <2>2, HoldersStay
  <1>6. ASSUME NEW t \in Tasks, BeginStats(t) \/ FinishStats(t) PROVE OneHolder'
    <2>1. /\ pc'[t] \in {"idle", "stats"} /\ \A u \in Tasks \ {t} : pc'[u] = pc[u]
          /\ arg' = arg /\ sessions' = sessions
      BY <1>6 DEF BeginStats, FinishStats, Goto, IInv, TypeOK
    <2>2. \A u \in Tasks, x \in Sessions : Holds(u, x)' => Holds(u, x)
      BY <2>1 DEF Holds
    <2> QED BY <2>1, <2>2, HoldersStay
  <1>7. CASE UNCHANGED vars
    BY <1>7 DEF vars, OneHolder, Holds
  <1> QED BY <1>1, <1>2, <1>3, <1>4, <1>5, <1>6, <1>7 DEF Next

\* An id with one holder has at most one reservation.
LEMMA OneReservation ==
  ASSUME TypeOK, OneHolder, NothingLost, NEW s \in Sessions
  PROVE  Held(s) = IF s \in DOMAIN sessions \/ Holding(s) # {} THEN 1 ELSE 0
  <1>1. lost[s] = 0
    BY DEF NothingLost
  <1>2. CASE Holding(s) = {}
    <2>1. Cardinality(Holding(s)) = 0
      BY <1>2, FS_EmptySet
    <2> QED BY <1>1, <1>2, <2>1 DEF Held
  <1>3. CASE Holding(s) # {}
    <2>1. PICK t \in Tasks : t \in Holding(s)
      BY <1>3 DEF Holding
    <2>2. Holds(t, s)
      BY <2>1 DEF Holds, Holding
    <2>3. s \notin DOMAIN sessions /\ \A u \in Tasks : Holds(u, s) => u = t
      BY <2>2 DEF OneHolder
    <2>4. Holding(s) = {t}
      BY <2>1, <2>3 DEF Holding, Holds
    <2>5. Cardinality(Holding(s)) = 1
      BY <2>4, FS_Singleton
    <2> QED BY <1>1, <1>3, <2>3, <2>5 DEF Held
  <1> QED BY <1>2, <1>3

LEMMA CarefulStep ==
  ASSUME ~ReuseIds, ~Drops, IInv, OneHolder, NothingLost, [Next]_vars
  PROVE  NothingLost'
  <1>0. TypeOK
    BY DEF IInv
  <1>1. ASSUME NEW t \in Tasks, StoreSession(t) PROVE NothingLost'
    <2>1. Holds(t, arg[t].session) /\ arg[t].session \in Sessions
      BY <1>1 DEF StoreSession, Holds, IInv, CallsHoldSelected
    <2>2. arg[t].session \notin DOMAIN sessions
      BY <2>1 DEF OneHolder
    <2> QED BY <1>1, <2>2 DEF StoreSession, NothingLost
  <1>2. ASSUME NEW t \in Tasks, ReleaseAllocations(t) PROVE NothingLost'
    <2>1. PICK s \in Sessions : s = arg[t].session
      BY <1>2 DEF ReleaseAllocations, IInv, CallsHoldSelected
    <2>2. /\ t \in Holding(s) /\ leaked' = leaked /\ lost' = lost
          /\ struck' = [struck EXCEPT ![s] = Held(s) - 1]
      BY <1>2, <2>1 DEF ReleaseAllocations, Holding
    <2>3. Held(s) = 1
      BY <1>0, <2>2, OneReservation
    <2> QED BY <1>0, <2>2, <2>3 DEF NothingLost, TypeOK
  <1>3. CASE UNCHANGED <<leaked, lost, struck>>
    BY <1>3 DEF NothingLost
  <1> QED BY <1>1, <1>2, <1>3
          DEF Next, vars, history, Schedule, BeginRelease, ReserveResources,
          ReserveFails, DropCall, BeginStats, FinishStats

\* The load of a service that nothing was lost in and no call is changing.
IdleLoad ==
  Pending = {} =>
    \A n \in SelectedNodes :
      /\ cpu[n] = CpuPerNode * Cardinality(DOMAIN sessions)
      /\ ram[n] = RamPerNode * Cardinality(DOMAIN sessions)
      /\ vram[n] = VramPerNode * Cardinality(DOMAIN sessions)

\* The lists of such a service: every session with a reservation, once, on each
\* of its nodes, and nothing else.
ListedOnce ==
  \A n \in Nodes, s \in Sessions :
    active[n][s] = IF /\ n \in SelectedNodes
                      /\ s \in DOMAIN sessions \/ Holding(s) # {} THEN 1 ELSE 0

(* NothingLost, IdleLoad and ListedOnce: when every session has an id of its
   own and no call is dropped, nothing is ever leaked, however the calls
   interleave; whenever none of them is between its locks each selected node
   carries the load of the live sessions and nothing else, so that releasing
   them all empties it; and no list names a session twice, or after its release. *)
THEOREM CarefulCallersLoseNothing ==
  ASSUME ~ReuseIds, ~Drops
  PROVE  Spec => [](NothingLost /\ IdleLoad /\ ListedOnce)
  <1>1. Init => OneHolder /\ NothingLost
    BY DEF Init, OneHolder, Holds, NothingLost
  <1>2. IInv /\ OneHolder /\ NothingLost /\ [Next]_vars => OneHolder' /\ NothingLost'
    BY NextKeepsHolder, CarefulStep
  <1>3. IInv /\ NothingLost => IdleLoad
    <2> SUFFICES ASSUME IInv, NothingLost, Pending = {} PROVE IdleLoad
      BY DEF IdleLoad
    <2>1. Cardinality(Pending) = 0 /\ leaked = 0
      BY FS_EmptySet DEF NothingLost
    <2>2. Reservations = Cardinality(DOMAIN sessions)
      BY <2>1, LiveFinite DEF Reservations, IInv
    <2>3. SelectedNodes \subseteq Nodes
      BY Amounts
    <2> QED BY <2>2, <2>3 DEF IInv, AllocationsAddUp, IdleLoad
  <1>4. IInv /\ ListsAddUp /\ OneHolder /\ NothingLost => ListedOnce
    <2> SUFFICES ASSUME IInv, ListsAddUp, OneHolder, NothingLost PROVE ListedOnce
      OBVIOUS
    <2>1. \A s \in Sessions :
            Held(s) = IF s \in DOMAIN sessions \/ Holding(s) # {} THEN 1 ELSE 0
      BY OneReservation DEF IInv
    <2>2. \A n \in Nodes, s \in Sessions :
            active[n][s] = IF n \in SelectedNodes THEN Held(s) ELSE 0
      BY <2>1 DEF ListsAddUp, NothingLost
    <2> QED BY <2>1, <2>2 DEF ListedOnce
  <1> QED BY <1>1, <1>2, <1>3, <1>4, InductiveInvariant, ListsAreExact, PTL DEF Spec

-----------------------------------------------------------------------------
(* Sums over sets: by the least size of a set whose sum would be wrong *)

LEMMA LeastNumber ==
  ASSUME NEW T, T \subseteq Nat, T # {}
  PROVE  \E x \in T : \A y \in T : x <= y
  <1>1. PICK x \in T : \A y \in T : ~ (<<y, x>> \in OpToRel(<, Nat))
    BY NatLessThanWellFounded, WFMin
  <1>2. \A y \in T : ~(y < x)
    BY <1>1 DEF OpToRel
  <1> QED BY <1>2

AnyMember(s) == CHOOSE x \in s : TRUE

\* One step of a sum.
SumStep(load, g, s) == IF s = {} THEN 0 ELSE load[AnyMember(s)] + g[s \ {AnyMember(s)}]

LEMMA AnyMemberIn ==
  ASSUME NEW s, s # {}
  PROVE  AnyMember(s) \in s
  BY DEF AnyMember

LEMMA OneLess ==
  ASSUME NEW S, IsFiniteSet(S), NEW s \in SUBSET S
  PROVE  /\ IsFiniteSet(s) /\ Cardinality(s) \in Nat
         /\ s # {} => /\ s \ {AnyMember(s)} \in SUBSET S
                      /\ Cardinality(s \ {AnyMember(s)}) = Cardinality(s) - 1
  <1>1. IsFiniteSet(s) /\ Cardinality(s) \in Nat
    BY FS_Subset, FS_CardinalityType
  <1>2. ASSUME s # {} PROVE Cardinality(s \ {AnyMember(s)}) = Cardinality(s) - 1
    <2>1. AnyMember(s) \in s
      BY <1>2, AnyMemberIn
    <2> QED BY <1>1, <2>1, FS_RemoveElement
  <1> QED BY <1>1, <1>2

\* A function that is a sum for all sets smaller than n.
SumBelow(S, load, n) ==
  \E g \in [SUBSET S -> Nat] :
    \A s \in SUBSET S : Cardinality(s) < n => g[s] = SumStep(load, g, s)

LEMMA SumsBelow ==
  ASSUME NEW S, IsFiniteSet(S), NEW load \in [S -> Nat]
  PROVE  \A n \in Nat : SumBelow(S, load, n)
  <1> DEFINE bad == {n \in Nat : ~SumBelow(S, load, n)}
  <1> SUFFICES ASSUME bad # {} PROVE FALSE
    OBVIOUS
  <1>1. PICK n \in bad : \A m \in bad : n <= m
    BY LeastNumber
  <1>2. n # 0
    <2>1. [s \in SUBSET S |-> 0] \in [SUBSET S -> Nat]
      OBVIOUS
    <2>2. \A s \in SUBSET S : ~(Cardinality(s) < 0)
      <3> SUFFICES ASSUME NEW s \in SUBSET S PROVE ~(Cardinality(s) < 0)
        OBVIOUS
      <3>1. Cardinality(s) \in Nat
        BY OneLess
      <3> QED BY <3>1
    <2>3. SumBelow(S, load, 0)
      BY <2>1, <2>2 DEF SumBelow
    <2> QED BY <1>1, <2>3
  <1>3. n - 1 \in Nat /\ n - 1 \notin bad
    BY <1>1, <1>2
  <1>4. PICK g \in [SUBSET S -> Nat] :
          \A s \in SUBSET S : Cardinality(s) < n - 1 => g[s] = SumStep(load, g, s)
    BY <1>3 DEF SumBelow
  <1> DEFINE h == [s \in SUBSET S |-> SumStep(load, g, s)]
  <1>5. h \in [SUBSET S -> Nat]
    <2> SUFFICES ASSUME NEW s \in SUBSET S PROVE SumStep(load, g, s) \in Nat
      OBVIOUS
    <2> QED BY AnyMemberIn DEF SumStep
  <1>6. ASSUME NEW s \in SUBSET S, Cardinality(s) < n
        PROVE  h[s] = SumStep(load, h, s)
    <2>1. CASE s = {}
      BY <2>1 DEF SumStep
    <2>2. CASE s # {}
      <3> DEFINE r == s \ {AnyMember(s)}
      <3>1. r \in SUBSET S /\ Cardinality(r) < n - 1
        BY <1>6, <2>2, OneLess
      <3>2. g[r] = h[r]
        BY <1>4, <3>1
      <3>3. h[s] = load[AnyMember(s)] + g[r] /\ SumStep(load, h, s) = load[AnyMember(s)] + h[r]
        BY <2>2 DEF SumStep
      <3> QED BY <3>2, <3>3
    <2> QED BY <2>1, <2>2
  <1>7. SumBelow(S, load, n)
    BY <1>5, <1>6 DEF SumBelow
  <1> QED BY <1>1, <1>7

IsSum(S, load, g) == g = [s \in SUBSET S |-> SumStep(load, g, s)]

LEMMA SumExists ==
  ASSUME NEW S, IsFiniteSet(S), NEW load \in [S -> Nat]
  PROVE  \E g : IsSum(S, load, g)
  <1>1. Cardinality(S) + 1 \in Nat /\ \A s \in SUBSET S : Cardinality(s) < Cardinality(S) + 1
    BY FS_Subset, FS_CardinalityType
  <1>2. SumBelow(S, load, Cardinality(S) + 1)
    BY <1>1, SumsBelow
  <1>3. PICK g \in [SUBSET S -> Nat] : \A s \in SUBSET S : g[s] = SumStep(load, g, s)
    BY <1>1, <1>2 DEF SumBelow
  <1> QED BY <1>3 DEF IsSum

\* MapThenSumSet adds the loads up one by one.
LEMMA SumIs ==
  ASSUME NEW S, IsFiniteSet(S), NEW load \in [S -> Nat]
  PROVE  \E g : /\ IsSum(S, load, g)
                /\ MapThenSumSet(LAMBDA x : load[x], S) = g[S]
  <1>1. PICK j : IsSum(S, load, j)
    BY SumExists
  <1> DEFINE Sums(i) ==
               i = [s \in SUBSET S |->
                      IF s = {} THEN 0
                      ELSE load[CHOOSE x \in s : TRUE]
                             + i[s \ {CHOOSE x \in s : TRUE}]]
             sum == CHOOSE i : Sums(i)
  <1>2. \A i : Sums(i) <=> IsSum(S, load, i)
    BY DEF IsSum, SumStep, AnyMember
  <1>3. MapThenSumSet(LAMBDA x : load[x], S) = sum[S]
    BY DEF MapThenSumSet, MapThenFoldSet
  <1>4. Sums(sum)
    <2> HIDE DEF Sums
    <2> QED BY <1>1, <1>2
  <1> QED BY <1>2, <1>3, <1>4

\* Equal loads on the members of H, and none elsewhere.
LEMMA SumOfEqualLoads ==
  ASSUME NEW S, IsFiniteSet(S), NEW H \in SUBSET S, NEW k \in Nat,
         NEW load \in [S -> Nat],
         \A x \in S : load[x] = IF x \in H THEN k ELSE 0
  PROVE  MapThenSumSet(LAMBDA x : load[x], S) = k * Cardinality(H)
  <1>1. PICK g : /\ IsSum(S, load, g)
                 /\ MapThenSumSet(LAMBDA x : load[x], S) = g[S]
    BY SumIs
  <1>0. \A s \in SUBSET S : g[s] = SumStep(load, g, s)
    BY <1>1 DEF IsSum
  <1> DEFINE Right(s) == g[s] = k * Cardinality(s \cap H)
             bad == {n \in Nat : \E s \in SUBSET S : Cardinality(s) = n /\ ~Right(s)}
  <1>2. ASSUME bad # {} PROVE FALSE
    <2>1. PICK n \in bad : \A m \in bad : n <= m
      BY <1>2, LeastNumber
    <2>2. PICK s \in SUBSET S : Cardinality(s) = n /\ ~Right(s)
      BY <2>1
    <2> HIDE DEF bad
    <2>3. CASE s = {}
      <3>1. g[s] = 0 /\ s \cap H = {}
        BY <1>0, <2>3 DEF SumStep
      <3>2. Cardinality(s \cap H) = 0
        BY <3>1, FS_EmptySet
      <3> QED BY <2>2, <3>1, <3>2
    <2>4. CASE s # {}
      <3> DEFINE x == AnyMember(s)
                 r == s \ {x}
      <3>1. x \in s /\ x \in S /\ r \in SUBSET S
        BY <2>4, AnyMemberIn
      <3>2. Cardinality(s) \in Nat /\ Cardinality(r) = Cardinality(s) - 1
            /\ Cardinality(r) \in Nat
        <4>1. Cardinality(r) \in Nat
          <5>1. r \in SUBSET S
            BY <3>1
          <5> HIDE DEF r
          <5> QED BY <5>1, FS_Subset, FS_CardinalityType
        <4>2. Cardinality(s) \in Nat /\ Cardinality(r) = Cardinality(s) - 1
          BY <2>4, OneLess
        <4> QED BY <4>1, <4>2
      <3>3. Cardinality(r) \in bad \/ Right(r)
        BY <3>1, <3>2 DEF bad
      <3>4. Right(r)
        <4>1. Cardinality(r) < n /\ n \in Nat
          <5>1. n \in Nat
            BY <2>1 DEF bad
          <5> QED BY <2>2, <3>2, <5>1
        <4>2. Cardinality(r) \notin bad
          <5> HIDE DEF r
          <5> QED BY <2>1, <3>2, <4>1
        <4> QED BY <3>3, <4>2
      <3>5. g[s] = load[x] + g[r]
        BY <1>0, <2>4 DEF SumStep
      <3>6. IsFiniteSet(s \cap H) /\ Cardinality(s \cap H) \in Nat
        BY FS_Subset, FS_CardinalityType
      <3> DEFINE c == Cardinality(s \cap H)
                 d == Cardinality(r \cap H)
      <3>7. CASE x \in H
        <4>1. r \cap H = (s \cap H) \ {x} /\ x \in s \cap H
          BY <3>1, <3>7
        <4>2. d = c - 1 /\ c # 0
          <5> DEFINE both == s \cap H
          <5>1. IsFiniteSet(both) /\ x \in both /\ r \cap H = both \ {x}
            BY <3>6, <4>1
          <5> HIDE DEF both, x, r
          <5>2. Cardinality(both \ {x}) = Cardinality(both) - 1
            BY <5>1, FS_RemoveElement
          <5>3. Cardinality(both) # 0
            BY <5>1, FS_EmptySet
          <5> QED BY <5>1, <5>2, <5>3 DEF both
        <4>3. d \in Nat /\ c = d + 1
          BY <3>6, <4>2
        <4>4. k * c = k * d + k
          <5> HIDE DEF c, d
          <5> QED BY <4>3
        <4>5. load[x] = k
          BY <3>1, <3>7
        <4>6. g[r] = k * d /\ k * d \in Nat
          <5> HIDE DEF x, r
          <5> QED BY <3>4, <4>3
        <4>7. g[s] = k * c
          <5> HIDE DEF c, d, x, r
          <5> QED BY <3>5, <4>4, <4>5, <4>6
        <4> QED BY <2>2, <4>7
      <3>8. CASE x \notin H
        <4>1. r \cap H = s \cap H
          BY <3>8
        <4>2. load[x] = 0 /\ g[r] = k * c
          BY <3>1, <3>4, <3>8, <4>1
        <4>3. k * c \in Nat
          BY <3>6
        <4>4. g[s] = k * c
          <5> HIDE DEF c, x, r
          <5> QED BY <3>5, <4>2, <4>3
        <4> QED BY <2>2, <4>4
      <3> QED BY <3>7, <3>8
    <2> QED BY <2>3, <2>4
  <1>3. Cardinality(S) \in Nat /\ S \cap H = H
    BY FS_CardinalityType
  <1>4. Right(S)
    BY <1>2, <1>3
  <1> QED BY <1>1, <1>3, <1>4

-----------------------------------------------------------------------------
(* The statistics *)

\* Nothing changes the sessions while a call is reading the statistics.
CountsCovered ==
  \A t \in Tasks : pc[t] = "stats" => counted[t] <= Cardinality(DOMAIN sessions)

LEMMA SessionsStayCounted ==
  ASSUME IInv, CountsCovered, NEW t \in Tasks,
         NEW w \in {"idle", "reserve", "store", "release"}, Goto(t, w),
         SessionsFree \/ UNCHANGED sessions, UNCHANGED counted
  PROVE  CountsCovered'
  <1>1. pc \in [Tasks -> {"idle", "reserve", "store", "release", "stats"}]
    BY DEF IInv, TypeOK
  <1>2. \A u \in Tasks : pc'[u] = "stats" => pc[u] = "stats"
    BY <1>1 DEF Goto
  <1> QED BY <1>2 DEF CountsCovered, SessionsFree, SessionsUnread

LEMMA NextCounts == IInv /\ CountsCovered /\ [Next]_vars => CountsCovered'
  <1> SUFFICES ASSUME IInv, CountsCovered, [Next]_vars PROVE CountsCovered'
    OBVIOUS
  <1>1. ASSUME NEW t \in Tasks, NEW s \in Sessions, NEW length \in ContextLengths,
               Schedule(t, s, length)
        PROVE  CountsCovered'
    BY <1>1, SessionsStayCounted DEF Schedule
  <1>2. ASSUME NEW t \in Tasks, NEW s \in Sessions, BeginRelease(t, s)
        PROVE  CountsCovered'
    BY <1>2, SessionsStayCounted DEF BeginRelease
  <1>3. ASSUME NEW t \in Tasks,
               ReserveResources(t) \/ ReserveFails(t) \/ StoreSession(t)
                 \/ ReleaseAllocations(t) \/ DropCall(t)
        PROVE  CountsCovered'
    <2>1. /\ \E w \in {"idle", "store"} : Goto(t, w)
          /\ SessionsFree \/ UNCHANGED sessions
          /\ UNCHANGED counted
      BY <1>3 DEF ReserveResources, ReserveFails, StoreSession, ReleaseAllocations,
                  DropCall
    <2> QED BY <2>1, SessionsStayCounted
  <1>4. ASSUME NEW t \in Tasks, BeginStats(t) PROVE CountsCovered'
    <2>1. Cardinality(DOMAIN sessions) \in Nat
      BY LiveFinite DEF IInv
    <2> QED BY <1>4, <2>1 DEF BeginStats, Goto, CountsCovered, IInv, TypeOK
  <1>5. ASSUME NEW t \in Tasks, FinishStats(t) PROVE CountsCovered'
    BY <1>5 DEF FinishStats, Goto, CountsCovered, IInv, TypeOK
  <1>6. CASE UNCHANGED vars
    BY <1>6 DEF vars, CountsCovered
  <1> QED BY <1>1, <1>2, <1>3, <1>4, <1>5, <1>6 DEF Next

\* The CPU that get_stats adds up.
LEMMA TotalCpuIs ==
  ASSUME IInv
  PROVE  TotalCpu = (CpuPerNode * Reservations) * Cardinality(SelectedNodes)
  <1>1. /\ cpu \in [Nodes -> Nat] /\ SelectedNodes \in SUBSET Nodes
        /\ IsFiniteSet(Nodes) /\ CpuPerNode * Reservations \in Nat
    BY Amounts, LiveFinite DEF IInv, TypeOK
  <1>2. \A n \in Nodes :
          cpu[n] = IF n \in SelectedNodes THEN CpuPerNode * Reservations ELSE 0
    BY Amounts DEF IInv, AllocationsAddUp
  <1> QED BY <1>1, <1>2, SumOfEqualLoads DEF TotalCpu

LEMMA CoverageGrows ==
  ASSUME NEW a \in Nat, NEW b \in Nat, NEW i \in Nat, NEW j \in Nat, i <= j
  PROVE  (a * j) * b >= (a * b) * i
  <1>1. (a * j) * b = (a * b) * j /\ a * b \in Nat
    OBVIOUS
  <1>2. \A c \in Nat : c * j >= c * i
    <2> TAKE c \in Nat
    <2>1. j - i \in Nat /\ c * (j - i) = c * j - c * i
      OBVIOUS
    <2>2. c * (j - i) \in Nat /\ c * j \in Nat /\ c * i \in Nat
      BY <2>1
    <2> QED BY <2>1, <2>2
  <1> QED BY <1>1, <1>2

(* StatsCoverSessions: get_stats holds its read lock of the sessions while it
   waits for the allocations, so no session appears or goes meanwhile; and the
   total it then shows is that of every reservation on every selected node. *)
THEOREM StatisticsAreCovered == Spec => StatsCoverSessions
  <1>1. Init => CountsCovered
    BY DEF Init, CountsCovered
  <1>2. IInv /\ CountsCovered =>
          [\A t \in Tasks :
             pc[t] = "stats" /\ pc'[t] = "idle" =>
               TotalCpu >= CpuPerNode * Cardinality(SelectedNodes) * counted[t]]_vars
    <2> SUFFICES ASSUME IInv, CountsCovered, NEW t \in Tasks, pc[t] = "stats"
                 PROVE  TotalCpu >= (CpuPerNode * Cardinality(SelectedNodes)) * counted[t]
      OBVIOUS
    <2>1. /\ counted[t] \in Nat /\ Reservations \in Nat
          /\ Cardinality(DOMAIN sessions) \in Nat /\ Cardinality(Pending) \in Nat
          /\ leaked \in Nat /\ CpuPerNode \in Nat
      BY Amounts, LiveFinite, PendingFinite DEF IInv, TypeOK
    <2>2. counted[t] <= Reservations
      BY <2>1 DEF CountsCovered, Reservations
    <2>3. Cardinality(SelectedNodes) \in Nat
      BY Amounts, FS_Subset, FS_CardinalityType
    <2> QED BY <2>1, <2>2, <2>3, TotalCpuIs, CoverageGrows
  <1> QED BY <1>1, <1>2, NextCounts, InductiveInvariant, PTL DEF Spec, StatsCoverSessions
=============================================================================
