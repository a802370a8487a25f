----------------------------- MODULE Membership -----------------------------
(***************************************************************************)
(* Cluster membership: the coordinator's registry of nodes with its HTTP   *)
(* handlers and heartbeat monitor (services/coordinator), the node agent's *)
(* registration and heartbeat loop (services/node-agent), and the HTTP     *)
(* calls between them, which can break or be delayed.                      *)
(*                                                                         *)
(* Time is discrete.  An entry's last_heartbeat is kept as its age; `Tick' *)
(* ages everything by one unit.  Whatever the program does "at once" is    *)
(* given a deadline (LockDelay, CallTime, or none for a wake-up) that Tick *)
(* respects; a call beyond CallTime is a delayed call, which counts as a   *)
(* fault and can stay delayed forever, the HTTP client having no timeout.  *)
(***************************************************************************)
EXTENDS Integers

CONSTANTS
  Agents,          \* node agent processes
  SuspectAfter,    \* 10 s in the code
  RemoveAfter,     \* 30 s in the code
  MonitorPeriod,   \* 5 s in the code
  LockDelay,       \* longest wait for the registry's lock
  HeartbeatEvery,  \* 2 s in the code
  Backoff,         \* 5 s in the code, times the number of attempts
  MaxAttempts,     \* max_reconnect_attempts, 5 in the code
  CallTime,        \* longest duration of a call that is not delayed
  MaxFaults        \* bound on breaks, delays, kills and crashes

ASSUME MembershipAssumption ==
  /\ {SuspectAfter, RemoveAfter, MonitorPeriod, LockDelay, HeartbeatEvery,
      Backoff, MaxAttempts, CallTime, MaxFaults} \subseteq Nat
  /\ SuspectAfter < RemoveAfter
  /\ LockDelay < MonitorPeriod
  /\ CallTime \in 1..SuspectAfter
  /\ MaxAttempts > 1

VARIABLES
  nodes,    \* ClusterState.nodes: node id -> [status, age]
  issued,   \* how many node ids (UUIDs) have been generated: 1..issued
  up,       \* whether the coordinator process runs
  monitor,  \* heartbeat_monitor: [pc, due], due = time to the next tick
  agent,    \* the node agents
  call,     \* the HTTP call each agent is awaiting
  faults    \* faults so far

vars == <<nodes, issued, up, monitor, agent, call, faults>>

NoId == 0
NoCall == [kind |-> "none", id |-> NoId, stage |-> "none", age |-> 0,
           stamp |-> 0, delayed |-> FALSE]

\* A call as it leaves the agent: refused at once when nothing listens.
NewCall(kind, id) ==
  [kind |-> kind, id |-> id, stage |-> IF up THEN "sent" ELSE "broken",
   age |-> 0, stamp |-> 0, delayed |-> FALSE]

Fault == faults < MaxFaults /\ faults' = faults + 1

AgentInit == [pc |-> "off", node_id |-> NoId, loop_id |-> NoId,
              client |-> FALSE, attempts |-> 0, timer |-> 0]

\* The interval's first tick is immediate.
MonitorInit == [pc |-> "idle", due |-> 0]

Init ==
  /\ nodes = [id \in {} |-> 0]
  /\ issued = 0
  /\ up = TRUE
  /\ monitor = MonitorInit
  /\ agent = [a \in Agents |-> AgentInit]
  /\ call = [a \in Agents |-> NoCall]
  /\ faults = 0

-----------------------------------------------------------------------------
(* Coordinator: HTTP handlers *)

\* What a handler can work on: the coordinator runs and the request is there.
Arrived(a, kind, stage) ==
  up /\ call[a].kind = kind /\ call[a].stage = stage /\ ~call[a].delayed

\* register_node builds the PhysicalNode, reading the clock, before it asks
\* for the lock.
StampRegistration(a) ==
  /\ Arrived(a, "register", "sent")
  /\ call' = [call EXCEPT ![a] = [@ EXCEPT !.stage = "stamped", !.stamp = 0]]
  /\ UNCHANGED <<nodes, issued, up, monitor, agent, faults>>

\* register_node, under the lock: a fresh id, whatever the node is.
HandleRegister(a) ==
  /\ Arrived(a, "register", "stamped")
  /\ LET id == issued + 1
     IN /\ issued' = id
        /\ nodes' = [n \in DOMAIN nodes \cup {id} |->
                       IF n = id
                       THEN [status |-> "Healthy", age |-> call[a].stamp]
                       ELSE nodes[n]]
        /\ call' = [call EXCEPT ![a] = [@ EXCEPT !.stage = "replied",
                                                  !.id = id, !.stamp = 0]]
  /\ UNCHANGED <<up, monitor, agent, faults>>

\* The entry of a node that has just sent a heartbeat.
\* Bugs it could have: the status is left as it was, or the clock is.
RefreshAgeOnly(n) == [nodes[n] EXCEPT !.age = 0]
RefreshStatusOnly(n) == [nodes[n] EXCEPT !.status = "Healthy"]
Refreshed(n) == [status |-> "Healthy", age |-> 0]

\* send_heartbeat: an unknown id is answered with success = false, a reply
\* like any other.
HandleHeartbeat(a) ==
  /\ Arrived(a, "heartbeat", "sent")
  /\ nodes' = [n \in DOMAIN nodes |->
                 IF n = call[a].id THEN Refreshed(n) ELSE nodes[n]]
  /\ call' = [call EXCEPT ![a].stage = "replied"]
  /\ UNCHANGED <<issued, up, monitor, agent, faults>>

-----------------------------------------------------------------------------
(* Coordinator: heartbeat monitor *)

\* interval.tick() returns and `now' is read, before the lock is held.
MonitorTick ==
  /\ up /\ monitor.pc = "idle" /\ monitor.due = 0
  /\ monitor' = [pc |-> "sweep", due |-> MonitorPeriod]
  /\ UNCHANGED <<nodes, issued, up, agent, call, faults>>

\* How long ago the monitor read `now'.
SinceTick == MonitorPeriod - monitor.due

\* time_since_heartbeat, against a `now' that may be older than the entry.
SilentFor(n) == nodes[n].age - SinceTick

\* The first threshold marks the entry (bugs: it does not; with the status of
\* the second; it only stamps it anew).
SweptUnmarked(n) == nodes[n]
SweptUnavailable(n) ==
  IF SilentFor(n) > SuspectAfter
  THEN [nodes[n] EXCEPT !.status = "Unavailable"] ELSE nodes[n]
SweptStamped(n) ==
  IF SilentFor(n) > SuspectAfter THEN [nodes[n] EXCEPT !.age = 0] ELSE nodes[n]
Swept(n) ==
  IF SilentFor(n) > SuspectAfter /\ nodes[n].status = "Healthy"
  THEN [nodes[n] EXCEPT !.status = "Suspect"] ELSE nodes[n]

\* The second threshold removes it (a bug: one second early).
ExpiredEarly(n) == SilentFor(n) >= RemoveAfter
Expired(n) == SilentFor(n) > RemoveAfter

\* The loop over the registry: nodes marked Unavailable are removed before
\* the lock is released.
MonitorSweep ==
  /\ up /\ monitor.pc = "sweep"
  /\ nodes' = [n \in {m \in DOMAIN nodes : ~Expired(m)} |-> Swept(n)]
  /\ monitor' = [monitor EXCEPT !.pc = "idle"]
  /\ UNCHANGED <<issued, up, agent, call, faults>>

-----------------------------------------------------------------------------
(* Node agent *)

\* main: the agent registers before it enters its loop.
StartAgent(a) ==
  /\ agent[a].pc = "off"
  /\ agent' = [agent EXCEPT ![a] = [AgentInit EXCEPT !.pc = "boot"]]
  /\ call' = [call EXCEPT ![a] = NewCall("register", NoId)]
  /\ UNCHANGED <<nodes, issued, up, monitor, faults>>

\* reconnect_attempts once a registration succeeds, and the test after each
\* failure (a bug: one attempt too many).
AttemptsAfterRegister(a) == 0
GivesUpLate(tries) == tries > MaxAttempts
GivesUp(tries) == tries >= MaxAttempts

\* register returns Ok; the loop goes on to its heartbeat.  The loop's own
\* node_id was read once, when it started.
Registered(a) ==
  /\ call[a].kind = "register" /\ call[a].stage = "replied" /\ ~call[a].delayed
  /\ LET target == IF agent[a].pc = "boot" THEN call[a].id
                                           ELSE agent[a].loop_id
     IN /\ agent' = [agent EXCEPT ![a] =
                       [@ EXCEPT !.pc = "heartbeat", !.node_id = call[a].id,
                                 !.loop_id = target, !.client = TRUE,
                                 !.attempts = AttemptsAfterRegister(a)]]
        /\ call' = [call EXCEPT ![a] = NewCall("heartbeat", target)]
  /\ UNCHANGED <<nodes, issued, up, monitor, faults>>

\* The first registration fails: main returns the error.
BootFails(a) ==
  /\ call[a].kind = "register" /\ call[a].stage = "broken"
  /\ agent[a].pc = "boot"
  /\ agent' = [agent EXCEPT ![a] = AgentInit]
  /\ call' = [call EXCEPT ![a] = NoCall]
  /\ UNCHANGED <<nodes, issued, up, monitor, faults>>

\* A registration from the loop fails: back off, or give up for good.
RegisterFails(a) ==
  /\ call[a].kind = "register" /\ call[a].stage = "broken"
  /\ agent[a].pc = "register"
  /\ LET tries == agent[a].attempts + 1
     IN agent' = [agent EXCEPT ![a] =
                    IF GivesUp(tries)
                    THEN [@ EXCEPT !.pc = "gave_up", !.attempts = tries]
                    ELSE [@ EXCEPT !.pc = "sleep", !.attempts = tries,
                                   !.timer = Backoff * tries]]
  /\ call' = [call EXCEPT ![a] = NoCall]
  /\ UNCHANGED <<nodes, issued, up, monitor, faults>>

\* Ok(_): the reply's success field is not looked at.
HeartbeatReplied(a) ==
  /\ call[a].kind = "heartbeat" /\ call[a].stage = "replied"
  /\ ~call[a].delayed
  /\ agent' = [agent EXCEPT ![a] =
                 [@ EXCEPT !.pc = "sleep", !.attempts = 0,
                           !.timer = HeartbeatEvery]]
  /\ call' = [call EXCEPT ![a] = NoCall]
  /\ UNCHANGED <<nodes, issued, up, monitor, faults>>

HeartbeatFails(a) ==
  /\ call[a].kind = "heartbeat" /\ call[a].stage = "broken"
  /\ LET tries == agent[a].attempts + 1
     IN agent' = [agent EXCEPT ![a] =
                    IF GivesUp(tries)
                    THEN [@ EXCEPT !.pc = "gave_up", !.client = FALSE,
                                   !.attempts = tries]
                    ELSE [@ EXCEPT !.pc = "sleep", !.client = FALSE,
                                   !.attempts = tries,
                                   !.timer = HeartbeatEvery]]
  /\ call' = [call EXCEPT ![a] = NoCall]
  /\ UNCHANGED <<nodes, issued, up, monitor, faults>>

\* The top of the loop: register again if there is no client.
WakeUp(a) ==
  /\ agent[a].pc = "sleep" /\ agent[a].timer = 0
  /\ LET kind == IF agent[a].client THEN "heartbeat" ELSE "register"
         id   == IF agent[a].client THEN agent[a].loop_id ELSE NoId
     IN /\ agent' = [agent EXCEPT ![a].pc = kind]
        /\ call' = [call EXCEPT ![a] = NewCall(kind, id)]
  /\ UNCHANGED <<nodes, issued, up, monitor, faults>>

-----------------------------------------------------------------------------
(* Faults *)

InTransit(a) == call[a].stage \in {"sent", "stamped", "replied"}

\* The connection breaks: the request is lost, or what it did is done and the
\* reply is lost.
BreakConnection(a) ==
  /\ InTransit(a) /\ Fault
  /\ call' = [call EXCEPT ![a] = [@ EXCEPT !.stage = "broken", !.stamp = 0,
                                            !.delayed = FALSE]]
  /\ UNCHANGED <<nodes, issued, up, monitor, agent>>

\* The request or its reply is held up for an unknown time, maybe forever.
DelayCall(a) ==
  /\ call[a].stage \in {"sent", "replied"} /\ ~call[a].delayed /\ Fault
  /\ call' = [call EXCEPT ![a].delayed = TRUE]
  /\ UNCHANGED <<nodes, issued, up, monitor, agent>>

ArriveLate(a) ==
  /\ call[a].delayed
  /\ call' = [call EXCEPT ![a] = [@ EXCEPT !.delayed = FALSE, !.age = 0]]
  /\ UNCHANGED <<nodes, issued, up, monitor, agent, faults>>

KillAgent(a) ==
  /\ agent[a].pc # "off" /\ Fault
  /\ agent' = [agent EXCEPT ![a] = AgentInit]
  /\ call' = [call EXCEPT ![a] = NoCall]
  /\ UNCHANGED <<nodes, issued, up, monitor>>

\* The registry is only in memory.
CrashCoordinator ==
  /\ up /\ Fault
  /\ up' = FALSE
  /\ nodes' = [id \in {} |-> 0]
  /\ monitor' = MonitorInit
  /\ call' = [a \in Agents |->
                IF call[a].stage \in {"sent", "stamped"}
                THEN [call[a] EXCEPT !.stage = "broken", !.stamp = 0,
                                     !.delayed = FALSE]
                ELSE call[a]]
  /\ UNCHANGED <<issued, agent>>

RestartCoordinator ==
  /\ ~up
  /\ up' = TRUE
  /\ UNCHANGED <<nodes, issued, monitor, agent, call, faults>>

-----------------------------------------------------------------------------
(* Time *)

OnTime(a) ==
  /\ agent[a].pc = "sleep" => agent[a].timer > 0
  /\ call[a].stage # "none" => call[a].age < CallTime \/ call[a].delayed

MonitorOnTime ==
  /\ up /\ monitor.pc = "idle" => monitor.due > 0
  /\ up /\ monitor.pc = "sweep" => SinceTick < LockDelay

Tick ==
  /\ MonitorOnTime
  /\ \A a \in Agents : OnTime(a)
  /\ nodes' = [n \in DOMAIN nodes |-> [nodes[n] EXCEPT !.age = @ + 1]]
  /\ monitor' = IF up THEN [monitor EXCEPT !.due = @ - 1] ELSE monitor
  /\ agent' = [a \in Agents |->
                 IF agent[a].pc = "sleep"
                 THEN [agent[a] EXCEPT !.timer = @ - 1] ELSE agent[a]]
  /\ call' = [a \in Agents |->
                IF call[a].stage = "none" \/ call[a].delayed THEN call[a]
                ELSE [call[a] EXCEPT !.age = @ + 1,
                        !.stamp = IF call[a].stage = "stamped" THEN @ + 1
                                                               ELSE @]]
  /\ UNCHANGED <<issued, up, faults>>

-----------------------------------------------------------------------------
Handler(a) == StampRegistration(a) \/ HandleRegister(a) \/ HandleHeartbeat(a)

AgentStep(a) ==
  \/ Registered(a) \/ BootFails(a) \/ RegisterFails(a)
  \/ HeartbeatReplied(a) \/ HeartbeatFails(a) \/ WakeUp(a)

FaultStep(a) ==
  BreakConnection(a) \/ DelayCall(a) \/ ArriveLate(a) \/ KillAgent(a)

Next ==
  \/ \E a \in Agents : Handler(a) \/ AgentStep(a) \/ FaultStep(a)
                       \/ StartAgent(a)
  \/ MonitorTick \/ MonitorSweep
  \/ CrashCoordinator \/ RestartCoordinator
  \/ Tick

\* What runs is scheduled; faults, restarts and late arrivals need not happen.
Fairness ==
  /\ WF_vars(Tick) /\ WF_vars(MonitorTick) /\ WF_vars(MonitorSweep)
  /\ \A a \in Agents : WF_vars(Handler(a)) /\ WF_vars(AgentStep(a))

Spec == Init /\ [][Next]_vars
FairSpec == Spec /\ Fairness

\* A cluster that is repaired: the coordinator comes back, late calls arrive.
RepairedSpec ==
  /\ FairSpec
  /\ WF_vars(RestartCoordinator)
  /\ \A a \in Agents : WF_vars(ArriveLate(a))

-----------------------------------------------------------------------------
(* Properties *)

NodeEntry == [status : {"Healthy", "Suspect"}, age : Nat]

AgentState ==
  [pc : {"off", "boot", "register", "heartbeat", "sleep", "gave_up"},
   node_id : Nat, loop_id : Nat, client : BOOLEAN,
   attempts : 0..MaxAttempts, timer : Nat]

CallState ==
  [kind : {"none", "register", "heartbeat"}, id : Nat,
   stage : {"none", "sent", "stamped", "replied", "broken"},
   age : 0..CallTime, stamp : 0..CallTime, delayed : BOOLEAN]

\* Types of the registry, the monitor, the agents and the calls in progress.
TypeOK ==
  /\ DOMAIN nodes \subseteq 1..issued
  /\ \A n \in DOMAIN nodes : nodes[n] \in NodeEntry
  /\ issued \in Nat
  /\ up \in BOOLEAN
  /\ monitor \in [pc : {"idle", "sweep"}, due : 0..MonitorPeriod]
  /\ agent \in [Agents -> AgentState]
  /\ call \in [Agents -> CallState]
  /\ faults \in 0..MaxFaults

\* Every node the registry shows (get_cluster sums the resources of all of
\* them) was heard from within the removal threshold, one monitor period and
\* the wait for the lock; one shown Healthy, within the suspicion threshold
\* and the same slack.  The monitor compares with a clock read before it got
\* the lock, which is where the slack comes from.
BoundedStaleness ==
  LET slack == IF monitor.pc = "sweep" THEN MonitorPeriod ELSE 0
  IN \A n \in DOMAIN nodes :
       /\ nodes[n].age <= RemoveAfter + SinceTick + slack
       /\ nodes[n].status = "Healthy" =>
            nodes[n].age <= SuspectAfter + SinceTick + slack

\* A node is shown Suspect only while it really has been silent for longer
\* than the threshold: no interleaving of a heartbeat with the monitor, whose
\* clock may be older than the heartbeat, leaves a fresh node Suspect.
SuspectOnlyWhenSilent ==
  \A n \in DOMAIN nodes :
    nodes[n].status = "Suspect" => nodes[n].age > SuspectAfter

\* The registry is one of leases, whatever happens to calls, agents and the
\* coordinator: every registration that is handled has an entry of its own, no
\* entry is suspected or removed before its time, however the heartbeats, the
\* sweeps and the clock they read interleave, and time never gets further than
\* a monitor period and the wait for the lock past a removal that is due.
Leases == INSTANCE LeaseRegistry WITH
  leases <- nodes, granted <- issued, running <- up,
  Grace <- MonitorPeriod + LockDelay, MaxStamp <- CallTime
RegistryOfLeases == Leases!Spec

\* Only a node silent for longer than the removal threshold leaves the
\* registry of a coordinator that keeps running.
RemovedOnlyWhenSilent ==
  [][\A n \in DOMAIN nodes :
       up' /\ n \notin DOMAIN nodes' => nodes[n].age > RemoveAfter]_vars

\* Without faults the heartbeat interval, the calls and the monitor's
\* thresholds fit together: an agent in its loop is registered and Healthy.
NoFalseSuspicion ==
  faults = 0 =>
    \A a \in Agents :
      agent[a].pc \in {"heartbeat", "sleep"} =>
        /\ agent[a].loop_id \in DOMAIN nodes
        /\ nodes[agent[a].loop_id].status = "Healthy"

\* An agent that loses a heartbeat always tries to register again before it
\* gives up: the counter of failed attempts starts anew with each success.
NeverGivesUpOnHeartbeat ==
  [][\A a \in Agents :
       agent[a].pc = "heartbeat" => agent'[a].pc # "gave_up"]_vars

InLoop(a) == agent[a].pc \in {"register", "heartbeat", "sleep"}

Heartbeaten(n) == \E a \in Agents : InLoop(a) /\ agent[a].loop_id = n

\* Failure detection: an entry nobody sends heartbeats for (its agent died,
\* gave up, never got the reply, or kept its older id) leaves the registry.
SilentNodesLeave ==
  \A n \in 1..(2 * MaxFaults + 2) :
    (n \in DOMAIN nodes /\ ~Heartbeaten(n))
      ~> (n \notin DOMAIN nodes \/ Heartbeaten(n))

Listed(a) == {agent[a].loop_id, agent[a].node_id} \cap DOMAIN nodes # {}

\* "Automatic reconnection in node agent": an agent that is running its loop
\* and is not in the registry gets back into it, unless it stops.
AutomaticReconnection ==
  \A a \in Agents :
    (InLoop(a) /\ ~Listed(a)) ~> (Listed(a) \/ ~InLoop(a))

=============================================================================
