---------------------------- MODULE NodeControl -----------------------------
(***************************************************************************)
(* The coordinator's gRPC service (services/coordinator/node_control.rs)   *)
(* on the state it shares with the HTTP interface and the heartbeat        *)
(* monitor: the registry of Membership, and the pairing manager.           *)
(*                                                                         *)
(* A handler has the registry's lock for one step, and none awaits while   *)
(* it has it.  register keeps the pairing manager's lock while it waits    *)
(* for the registry's.  Requests that only read, or name a node that is    *)
(* not there, change nothing and are not steps; what a caller may ask for  *)
(* is not bounded but for MaxIds and MaxPlans.                             *)
(*                                                                         *)
(* The agents of Membership, which use the HTTP interface, take no steps   *)
(* here: to the registry their requests are what register and heartbeat    *)
(* of this module are.                                                     *)
(***************************************************************************)
EXTENDS Membership, SecurePairing, FiniteSets

CONSTANTS
  MaxIds,   \* bound on the node ids generated
  MaxPlans  \* bound on the plans that are prepared and not ended

VARIABLES
  registering,  \* the register call that has the pairing manager's lock
  prepared,     \* nodes that accepted a plan its owner has not ended yet
  heard         \* history: node id -> how long ago it was last heard of, and
                \* whether it was told to drain since

grpcVars == <<registering, prepared, heard>>
controlVars == <<vars, pairingVars, grpcVars>>

NobodyRegisters == [id |-> NoId, stamp |-> 0]

ControlInit ==
  /\ Init /\ PairingInit
  /\ registering = NobodyRegisters
  /\ prepared = {}
  /\ heard = [n \in {} |-> 0]

\* Bookkeeping: n was heard of just now, `age' ago; nodes that are gone are
\* forgotten.
Hear(n, age) ==
  heard' = [m \in DOMAIN nodes' |-> IF m = n THEN [age |-> age, drained |-> FALSE]
                                             ELSE heard[m]]
HearNobody == heard' = [m \in DOMAIN nodes' |-> heard[m]]

\* The lock of the pairing manager.
PairingFree == registering = NobodyRegisters

-----------------------------------------------------------------------------
(* Handlers *)

\* register: a challenge for a fresh id under the pairing manager's lock, and
\* the node's entry, its clock read, before the registry's lock is there.
BeginRegister ==
  /\ up /\ PairingFree /\ issued < MaxIds
  /\ issued' = issued + 1
  /\ GenerateChallenge(issued')
  /\ registering' = [id |-> issued', stamp |-> 0]
  /\ UNCHANGED <<nodes, up, monitor, agent, call, faults, prepared, heard>>

\* The entry is inserted, and both locks are given up.
FinishRegister ==
  /\ ~PairingFree
  /\ LET id == registering.id
     IN /\ nodes' = [n \in DOMAIN nodes \cup {id} |->
                       IF n = id
                       THEN [status |-> "Suspect", age |-> registering.stamp]
                       ELSE nodes[n]]
        /\ Hear(id, registering.stamp)
  /\ registering' = NobodyRegisters
  /\ UNCHANGED <<issued, up, monitor, agent, call, faults, pairingVars, prepared>>

\* The caller goes away while register waits for the registry.
DropRegister ==
  /\ ~PairingFree
  /\ registering' = NobodyRegisters
  /\ UNCHANGED <<vars, pairingVars, prepared, heard>>

\* heartbeat of a known node, whatever its status is.
Heartbeat(n) ==
  /\ up /\ n \in DOMAIN nodes
  /\ nodes' = [nodes EXCEPT ![n] = Refreshed(n)]
  /\ Hear(n, 0)
  /\ UNCHANGED <<issued, up, monitor, agent, call, faults, pairingVars,
                 registering, prepared>>

\* probe: capabilities and a status, and no new last_heartbeat.
Probe(n) ==
  /\ up /\ n \in DOMAIN nodes
  /\ nodes' = [nodes EXCEPT ![n].status = "Healthy"]
  /\ Hear(n, 0)
  /\ UNCHANGED <<issued, up, monitor, agent, call, faults, pairingVars,
                 registering, prepared>>

\* prepare_plan that accepts: the node is Healthy (a bug: it is not Suspect).
\* That it has room for the plan's weights depends on the plan: one without
\* weights always fits.
NotSuspect(n) == nodes[n].status # "Suspect"
Accepts(n) == nodes[n].status = "Healthy"

PreparePlan(n) ==
  /\ up /\ n \in DOMAIN nodes /\ Cardinality(prepared) < MaxPlans
  /\ Accepts(n)
  /\ prepared' = prepared \cup {n}
  /\ UNCHANGED <<vars, pairingVars, registering, heard>>

\* commit_plan and cancel_plan acknowledge, and look at nothing.
EndPlan(n) ==
  /\ up /\ n \in prepared
  /\ prepared' = prepared \ {n}
  /\ UNCHANGED <<vars, pairingVars, registering, heard>>

Drain(n) ==
  /\ up /\ n \in DOMAIN nodes
  /\ nodes' = [nodes EXCEPT ![n].status = "Draining"]
  /\ heard' = [heard EXCEPT ![n].drained = TRUE]
  /\ UNCHANGED <<issued, up, monitor, agent, call, faults, pairingVars,
                 registering, prepared>>

Handle(n) ==
  \/ Heartbeat(n) \/ Probe(n) \/ Drain(n)
  \/ PreparePlan(n) \/ EndPlan(n)

\* The manager's own operations, under its lock.
Pair ==
  /\ up /\ PairingFree
  /\ \/ \E id \in 1..issued :
          \/ RevokeNode(id)
          \/ \E key \in PublicKeys, signed \in BOOLEAN :
               VerifyResponse(id, key, signed)
     \/ CleanupExpiredChallenges
  /\ UNCHANGED <<vars, grpcVars>>

-----------------------------------------------------------------------------
(* The rest of the coordinator, and time *)

MonitorWakes == MonitorTick /\ UNCHANGED <<pairingVars, grpcVars>>

MonitorSweeps ==
  /\ MonitorSweep /\ HearNobody
  /\ UNCHANGED <<pairingVars, registering, prepared>>

\* A coordinator that starts again has a new cluster id and a new key, and
\* both maps are empty.
Crash ==
  /\ CrashCoordinator
  /\ NewManager
  /\ registering' = NobodyRegisters
  /\ prepared' = {} /\ HearNobody

Restart == RestartCoordinator /\ UNCHANGED <<pairingVars, grpcVars>>

\* An age that no property tells from longer ones is kept as it is.
LongAgo == SuspectAfter + 2 * MonitorPeriod + 1

ControlTick ==
  /\ Tick /\ PairingTick
  /\ ~PairingFree => registering.stamp < LockDelay
  /\ registering' = IF PairingFree THEN registering
                    ELSE [registering EXCEPT !.stamp = @ + 1]
  /\ heard' = [n \in DOMAIN heard |->
                [heard[n] EXCEPT !.age = IF @ = LongAgo THEN @ ELSE @ + 1]]
  /\ UNCHANGED prepared

Working == MonitorWakes \/ MonitorSweeps \/ FinishRegister

ControlNext ==
  \/ BeginRegister \/ DropRegister \/ Pair
  \/ \E n \in 1..issued : Handle(n)
  \/ Working \/ Crash \/ Restart \/ ControlTick

\* Time passes and what runs is scheduled; nobody has to ask for anything.
ControlSpec ==
  /\ ControlInit /\ [][ControlNext]_controlVars
  /\ WF_controlVars(ControlTick) /\ WF_controlVars(Working)

-----------------------------------------------------------------------------
(* Properties *)

\* Types of both maps; the registry's histories are about the nodes in it.
ControlTypeOK ==
  /\ DOMAIN nodes \subseteq 1..issued
  /\ \A n \in DOMAIN nodes :
       nodes[n] \in [status : {"Healthy", "Suspect", "Draining"}, age : Nat]
  /\ PairingTypeOK(1..issued)
  /\ registering \in [id : 0..issued, stamp : 0..LockDelay]
  /\ prepared \subseteq 1..issued
  /\ DOMAIN heard = DOMAIN nodes
  /\ \A n \in DOMAIN nodes :
       heard[n] \in [age : 0..LongAgo, drained : BOOLEAN]

\* The monitor has read its clock and not swept yet.
Slack == IF monitor.pc = "sweep" THEN MonitorPeriod ELSE 0

\* prepare_plan accepts a plan only for a node that sent a heartbeat or was
\* probed within the suspicion threshold and the monitor's slack, and that was
\* not told to drain since: the monitor, and heartbeats and probes of other
\* nodes, do not undo a drain (its own do).
PlansOnServingNodes ==
  [][\A n \in prepared' \ prepared :
       /\ heard[n].age <= SuspectAfter + SinceTick + Slack
       /\ ~heard[n].drained]_controlVars

Drained(n) == n \in DOMAIN nodes /\ nodes[n].status = "Draining"

\* "Stop assigning new work", "Remove node from future plans": a node that was
\* told to drain is given no plan any more.
DrainedNodesGetNoPlan ==
  \A n \in 1..MaxIds :
    [](Drained(n) /\ n \notin prepared => [](n \notin prepared))

=============================================================================
