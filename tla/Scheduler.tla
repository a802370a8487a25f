----------------------------- MODULE Scheduler ------------------------------
(***************************************************************************)
(* The scheduler service (services/scheduler): admission, node selection,  *)
(* reservation and release, called by concurrent tasks.                    *)
(*                                                                         *)
(* A call is a task going through the service's await points; between two  *)
(* of them its steps are atomic, because they are done under a lock.  A    *)
(* call can also be dropped at an await point, which is how async Rust     *)
(* cancels.  The cluster is a constant: the service never changes the one  *)
(* it was built with, hence neither the nodes it selects.                  *)
(***************************************************************************)
EXTENDS Integers, FiniteSets, FiniteSetsExt

CONSTANTS
  Nodes,           \* the nodes of the LogicalCluster
  Healthy,         \* those whose status is Healthy
  Score,           \* calculate_node_score of each node
  Order,           \* their places in the iteration order of the node map
  TotalRam,        \* host_memory_bytes of the cluster
  TotalVram,       \* device_memory_bytes of the cluster
  MaxNodes,        \* nodes per session, 3 in the code
  CpuPerNode,      \* 30 (%) in the code
  RamPerNode,      \* 4 (GB) in the code
  VramPerNode,     \* 2 (GB) in the code
  CpuLimit,        \* 100 (%) in the code
  Sessions,        \* session ids
  NoSession,       \* none of them
  ContextLengths,  \* context lengths of the requests
  Tasks,           \* concurrent calls
  ReuseIds,        \* whether callers schedule an id that is still in use
  Drops            \* whether calls are dropped while they wait

ASSUME SchedulerAssumption ==
  /\ Healthy \subseteq Nodes
  /\ Score \in [Nodes -> Nat] /\ Order \in [Nodes -> Nat]
  /\ {TotalRam, TotalVram, MaxNodes, CpuPerNode, RamPerNode, VramPerNode,
      CpuLimit} \subseteq Nat
  /\ CpuPerNode > 0
  /\ IsFiniteSet(Nodes) /\ IsFiniteSet(Sessions) /\ IsFiniteSet(Tasks)
  /\ ContextLengths \subseteq Nat
  /\ NoSession \notin Sessions
  /\ ReuseIds \in BOOLEAN /\ Drops \in BOOLEAN

VARIABLES
  sessions,  \* the sessions map: id -> the nodes it has an allocation on
  cpu, ram, vram,  \* the totals of node_allocations, per node
  active,    \* active_sessions of each node, as a bag of session ids
  pc,        \* where each call is
  arg,       \* the session each call is about, and its nodes
  counted,   \* sessions.len() as read by a get_stats in progress
  leaked,    \* history: reservations no release can free any more
  lost,      \* history: how many of them were made under each id
  struck     \* history: reservations under each id that a release of another
             \* one under the same id has taken out of the lists

vars ==
  <<sessions, cpu, ram, vram, active, pc, arg, counted, leaked, lost, struck>>
allocations == <<cpu, ram, vram, active>>
history == <<leaked, lost, struck>>

-----------------------------------------------------------------------------
(* Admission and selection: functions of the request and the cluster *)

Admitted(length) == TotalRam > length * 1024 /\ TotalVram > length * 512

\* The order after a stable sort by descending score.
Before(m, n) ==
  \/ Score[m] > Score[n]
  \/ Score[m] = Score[n] /\ Order[m] < Order[n]

SelectedNodes ==
  {n \in Healthy : Cardinality({m \in Healthy : Before(m, n)}) < MaxNodes}

-----------------------------------------------------------------------------
NoArg == [session |-> NoSession, nodes |-> {}]

InUse(s) ==
  s \in DOMAIN sessions \/ \E t \in Tasks : pc[t] # "idle" /\ arg[t].session = s

Init ==
  /\ sessions = [s \in {} |-> {}]
  /\ cpu = [n \in Nodes |-> 0]
  /\ ram = [n \in Nodes |-> 0]
  /\ vram = [n \in Nodes |-> 0]
  /\ active = [n \in Nodes |-> [s \in Sessions |-> 0]]
  /\ pc = [t \in Tasks |-> "idle"]
  /\ arg = [t \in Tasks |-> NoArg]
  /\ counted = [t \in Tasks |-> 0]
  /\ leaked = 0
  /\ lost = [s \in Sessions |-> 0]
  /\ struck = [s \in Sessions |-> 0]

\* The lock of the sessions map: release_session writes under it until it has
\* the lock of the allocations too, get_stats reads under it likewise.
\* (A bug: get_stats does not hold on to it.)
SessionsUnread == \A t \in Tasks : pc[t] # "stats"
SessionsUnwritten == \A t \in Tasks : pc[t] # "release"
SessionsFreeDespiteReaders == SessionsUnwritten
SessionsFree == SessionsUnread /\ SessionsUnwritten

Goto(t, where) == pc' = [pc EXCEPT ![t] = where]

-----------------------------------------------------------------------------
(* schedule *)

\* A request that is admitted and has nodes goes on to reserve them; one that
\* is refused (AdmissionRejected, NoAvailableNodes) changes nothing.
Schedule(t, s, length) ==
  /\ pc[t] = "idle"
  /\ ReuseIds \/ ~InUse(s)
  /\ Admitted(length)
  /\ SelectedNodes # {}
  /\ Goto(t, "reserve")
  /\ arg' = [arg EXCEPT ![t] = [session |-> s, nodes |-> SelectedNodes]]
  /\ UNCHANGED <<sessions, allocations, counted, history>>

\* The test of one node in reserve_resources (a bug: the node's present load
\* is left out).
FitsAlone(n) == CpuPerNode <= CpuLimit
Fits(n) == cpu[n] + CpuPerNode <= CpuLimit

\* What the loop adds to the nodes it has reached.
Reserve(done, s) ==
  /\ cpu' = [n \in Nodes |-> IF n \in done THEN cpu[n] + CpuPerNode ELSE cpu[n]]
  /\ ram' = [n \in Nodes |-> IF n \in done THEN ram[n] + RamPerNode ELSE ram[n]]
  /\ vram' = [n \in Nodes |->
                IF n \in done THEN vram[n] + VramPerNode ELSE vram[n]]
  /\ active' = [n \in Nodes |->
                  IF n \in done THEN [active[n] EXCEPT ![s] = @ + 1]
                                ELSE active[n]]

ReserveResources(t) ==
  /\ pc[t] = "reserve"
  /\ \A n \in arg[t].nodes : Fits(n)
  /\ Reserve(arg[t].nodes, arg[t].session)
  /\ Goto(t, "store")
  /\ UNCHANGED <<sessions, arg, counted, history>>

\* InsufficientResources at one node: those the loop has been through, in the
\* arbitrary order of a hash map, keep what it added.
ReserveFails(t) ==
  /\ pc[t] = "reserve"
  /\ \E n \in arg[t].nodes :
       /\ ~Fits(n)
       /\ \E done \in SUBSET {m \in arg[t].nodes \ {n} : Fits(m)} :
            Reserve(done, arg[t].session)
  /\ Goto(t, "idle")
  /\ arg' = [arg EXCEPT ![t] = NoArg]
  /\ UNCHANGED <<sessions, counted, history>>

\* A reservation made under an id that nobody can release any more.
Lose(s) == leaked' = leaked + 1 /\ lost' = [lost EXCEPT ![s] = @ + 1]

\* insert: a session already there under this id is overwritten, and with it
\* the record of its reservation.
StoreSession(t) ==
  /\ pc[t] = "store" /\ SessionsFree
  /\ LET s == arg[t].session
     IN /\ sessions' = [x \in DOMAIN sessions \cup {s} |->
                          IF x = s THEN arg[t].nodes ELSE sessions[x]]
        /\ IF s \in DOMAIN sessions THEN Lose(s) ELSE UNCHANGED <<leaked, lost>>
  /\ Goto(t, "idle")
  /\ arg' = [arg EXCEPT ![t] = NoArg]
  /\ UNCHANGED <<allocations, counted, struck>>

-----------------------------------------------------------------------------
(* release_session *)

\* The session is removed, then the allocations are waited for.
\* SessionNotFound changes nothing.
BeginRelease(t, s) ==
  /\ pc[t] = "idle" /\ SessionsFree
  /\ s \in DOMAIN sessions
  /\ Goto(t, "release")
  /\ arg' = [arg EXCEPT ![t] = [session |-> s, nodes |-> sessions[s]]]
  /\ sessions' = [x \in DOMAIN sessions \ {s} |-> sessions[x]]
  /\ UNCHANGED <<allocations, counted, history>>

\* The nodes a release gives back (bugs: all but one; every node there is).
AllButOne(nodes) == nodes \ {CHOOSE n \in nodes : TRUE}
EveryNode(nodes) == Nodes
ReleasedNodes(nodes) == nodes

\* active_sessions.retain drops every copy of the id (a bug: every id).
RetainNothing(bag, s) == [x \in Sessions |-> 0]
Retain(bag, s) == [bag EXCEPT ![s] = 0]

\* The reservations held under an id: by the session, by the calls on their way
\* to store or to release one, and by nobody.
Holding(s) == {t \in Tasks : pc[t] \in {"store", "release"} /\ arg[t].session = s}
Held(s) ==
  (IF s \in DOMAIN sessions THEN 1 ELSE 0) + Cardinality(Holding(s)) + lost[s]

ReleaseAllocations(t) ==
  /\ pc[t] = "release"
  /\ LET done == ReleasedNodes(arg[t].nodes)
     IN /\ cpu' = [n \in Nodes |->
                     IF n \in done THEN cpu[n] - CpuPerNode ELSE cpu[n]]
        /\ ram' = [n \in Nodes |->
                     IF n \in done THEN ram[n] - RamPerNode ELSE ram[n]]
        /\ vram' = [n \in Nodes |->
                      IF n \in done THEN vram[n] - VramPerNode ELSE vram[n]]
        /\ active' = [n \in Nodes |->
                        IF n \in done THEN Retain(active[n], arg[t].session)
                                      ELSE active[n]]
  /\ struck' = [struck EXCEPT ![arg[t].session] = Held(arg[t].session) - 1]
  /\ Goto(t, "idle")
  /\ arg' = [arg EXCEPT ![t] = NoArg]
  /\ UNCHANGED <<sessions, counted, leaked, lost>>

-----------------------------------------------------------------------------
\* A call dropped while it waits for a lock.  What it had reserved and not yet
\* stored, or removed and not yet released, stays reserved.
DropCall(t) ==
  /\ Drops /\ pc[t] \in {"reserve", "store", "release"}
  /\ IF pc[t] = "reserve" THEN UNCHANGED <<leaked, lost>> ELSE Lose(arg[t].session)
  /\ Goto(t, "idle")
  /\ arg' = [arg EXCEPT ![t] = NoArg]
  /\ UNCHANGED <<sessions, allocations, counted, struck>>

-----------------------------------------------------------------------------
(* get_stats *)

BeginStats(t) ==
  /\ pc[t] = "idle" /\ SessionsUnwritten
  /\ Goto(t, "stats")
  /\ counted' = [counted EXCEPT ![t] = Cardinality(DOMAIN sessions)]
  /\ UNCHANGED <<sessions, allocations, arg, history>>

\* total_allocated_cpu
TotalCpu == MapThenSumSet(LAMBDA n : cpu[n], Nodes)

\* It returns counted[t] and TotalCpu.
FinishStats(t) ==
  /\ pc[t] = "stats"
  /\ counted' = [counted EXCEPT ![t] = 0]
  /\ Goto(t, "idle")
  /\ UNCHANGED <<sessions, allocations, arg, history>>

-----------------------------------------------------------------------------
Next ==
  \E t \in Tasks :
    \/ \E s \in Sessions :
         (\E length \in ContextLengths : Schedule(t, s, length))
         \/ BeginRelease(t, s)
    \/ ReserveResources(t) \/ ReserveFails(t) \/ StoreSession(t)
    \/ ReleaseAllocations(t) \/ DropCall(t)
    \/ BeginStats(t) \/ FinishStats(t)

Spec == Init /\ [][Next]_vars

-----------------------------------------------------------------------------
(* Properties *)

Arg == [session : Sessions \cup {NoSession}, nodes : {{}, SelectedNodes}]

TypeOK ==
  /\ DOMAIN sessions \subseteq Sessions
  /\ \A s \in DOMAIN sessions : sessions[s] = SelectedNodes
  /\ cpu \in [Nodes -> Nat] /\ ram \in [Nodes -> Nat] /\ vram \in [Nodes -> Nat]
  /\ active \in [Nodes -> [Sessions -> Nat]]
  /\ pc \in [Tasks -> {"idle", "reserve", "store", "release", "stats"}]
  /\ arg \in [Tasks -> Arg]
  /\ counted \in [Tasks -> Nat]
  /\ leaked \in Nat /\ lost \in [Sessions -> Nat] /\ struck \in [Sessions -> Nat]

Pending == {t \in Tasks : pc[t] \in {"store", "release"}}

\* How many reservations are held: by live sessions, by calls on their way to
\* store or to release one, and by nobody.
Reservations == Cardinality(DOMAIN sessions) + Cardinality(Pending) + leaked

\* Every reservation is accounted for on every selected node, in each of the
\* resources, whatever the order of schedule, release and dropped calls; so
\* that the unsigned subtractions of release never underflow, and nothing is
\* charged to a node that was never selected.
AllocationsAddUp ==
  \A n \in Nodes :
    LET k == IF n \in SelectedNodes THEN Reservations ELSE 0
    IN cpu[n] = CpuPerNode * k /\ ram[n] = RamPerNode * k
       /\ vram[n] = VramPerNode * k

\* No node is ever promised more CPU than it has.
NoOvercommit == \A n \in Nodes : cpu[n] <= CpuLimit

\* A refused reservation leaves nothing behind, although the loop does not
\* undo what it did before the refusal.
RefusalLeavesNothing ==
  [][\A t \in Tasks :
       pc[t] = "reserve" /\ pc'[t] = "idle" => UNCHANGED allocations]_vars

\* "Reserve resources atomically": whatever calls, releases, dropped calls and
\* refusals do between their locks, on the nodes it is as if every reservation
\* were made on all of them at once and given back once.
Ledger == INSTANCE Reservations WITH held <- Reservations
ReservationsAreAtomic == Ledger!Spec

\* The lists of active sessions agree with the sessions map, id by id and entry
\* by entry, although they change under different locks and ids are reused: each
\* selected node lists an id once for every reservation held under it, but for
\* those that the release of another one under the same id, which strikes all
\* entries of the id, has struck; and no other node lists it.
ListsAddUp ==
  \A n \in Nodes, s \in Sessions :
    active[n][s] = IF n \in SelectedNodes THEN Held(s) - struck[s] ELSE 0

\* get_stats never shows more sessions than the CPU it shows accounts for.
StatsCoverSessions ==
  [][\A t \in Tasks :
       pc[t] = "stats" /\ pc'[t] = "idle" =>
         TotalCpu >= CpuPerNode * Cardinality(SelectedNodes) * counted[t]]_vars

=============================================================================
