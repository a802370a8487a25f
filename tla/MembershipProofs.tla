-------------------------- MODULE MembershipProofs --------------------------
(***************************************************************************)
(* Proofs about Membership for every number of agents, every threshold and *)
(* every number of faults.                                                 *)
(***************************************************************************)
EXTENDS Membership, FiniteSets, FiniteSetTheorems, TLAPS

\* What the agent awaits is what its program counter says, and a clock that
\* a registration has read is no older than the call.
CallsMatch ==
  \A a \in Agents :
    /\ call[a].kind = "heartbeat" => agent[a].pc = "heartbeat"
    /\ call[a].stamp <= call[a].age
    /\ call[a].stamp # 0 => call[a].stage = "stamped"
    /\ call[a].delayed => call[a].stage \in {"sent", "replied"}

\* An agent that has not given up has attempts left, and none are counted
\* while it has a client.
AttemptsBounded ==
  \A a \in Agents :
    /\ agent[a].pc # "gave_up" => agent[a].attempts < MaxAttempts
    /\ agent[a].pc = "heartbeat" => agent[a].attempts = 0
    /\ agent[a].pc = "sleep" /\ agent[a].client => agent[a].attempts = 0
    /\ agent[a].pc = "register" => ~agent[a].client

DownIsEmpty == ~up => DOMAIN nodes = {}

\* The inductive invariant.
IInv ==
  /\ TypeOK
  /\ CallsMatch
  /\ AttemptsBounded
  /\ DownIsEmpty
  /\ BoundedStaleness
  /\ SuspectOnlyWhenSilent

-----------------------------------------------------------------------------
(* Each variable's part of IInv, so that a step has to be looked at only for *)
(* the parts it can disturb.                                                 *)

RegistryInv ==
  /\ DOMAIN nodes \subseteq 1..issued
  /\ \A n \in DOMAIN nodes : nodes[n] \in NodeEntry
  /\ issued \in Nat
  /\ up \in BOOLEAN
  /\ monitor \in [pc : {"idle", "sweep"}, due : 0..MonitorPeriod]
  /\ faults \in 0..MaxFaults
  /\ DownIsEmpty /\ BoundedStaleness /\ SuspectOnlyWhenSilent

AgentInv ==
  /\ agent \in [Agents -> AgentState]
  /\ call \in [Agents -> CallState]
  /\ CallsMatch /\ AttemptsBounded

LEMMA IInvParts == IInv <=> RegistryInv /\ AgentInv
  BY DEF IInv, TypeOK, RegistryInv, AgentInv

LEMMA Numbers ==
  /\ SuspectAfter \in Nat /\ RemoveAfter \in Nat /\ MonitorPeriod \in Nat
  /\ LockDelay \in Nat /\ HeartbeatEvery \in Nat /\ Backoff \in Nat
  /\ MaxAttempts \in Nat /\ CallTime \in Nat /\ MaxFaults \in Nat
  /\ SuspectAfter < RemoveAfter /\ LockDelay < MonitorPeriod
  /\ CallTime >= 1 /\ CallTime <= SuspectAfter /\ MaxAttempts > 1
  BY MembershipAssumption

LEMMA RetryDelay ==
  ASSUME NEW n \in Nat PROVE Backoff * n \in Nat
  BY Numbers

LEMMA Zero == 0 \in 0..CallTime /\ 0 \in 0..MaxAttempts /\ NoId \in Nat
  BY Numbers DEF NoId

\* Changing one field of a call, or of an agent, keeps its type.
LEMMA CallFields ==
  ASSUME NEW r \in CallState
  PROVE  /\ \A x \in {"none", "register", "heartbeat"} :
              [r EXCEPT !.kind = x] \in CallState
         /\ \A x \in {"none", "sent", "stamped", "replied", "broken"} :
              [r EXCEPT !.stage = x] \in CallState
         /\ \A x \in Nat : [r EXCEPT !.id = x] \in CallState
         /\ \A x \in 0..CallTime : [r EXCEPT !.age = x] \in CallState
         /\ \A x \in 0..CallTime : [r EXCEPT !.stamp = x] \in CallState
         /\ \A x \in BOOLEAN : [r EXCEPT !.delayed = x] \in CallState
  BY DEF CallState

LEMMA AgentFields ==
  ASSUME NEW r \in AgentState
  PROVE  /\ \A x \in {"off", "boot", "register", "heartbeat", "sleep",
                      "gave_up"} : [r EXCEPT !.pc = x] \in AgentState
         /\ \A x \in Nat : [r EXCEPT !.node_id = x] \in AgentState
         /\ \A x \in Nat : [r EXCEPT !.loop_id = x] \in AgentState
         /\ \A x \in BOOLEAN : [r EXCEPT !.client = x] \in AgentState
         /\ \A x \in 0..MaxAttempts : [r EXCEPT !.attempts = x] \in AgentState
         /\ \A x \in Nat : [r EXCEPT !.timer = x] \in AgentState
  BY DEF AgentState

LEMMA NoCallTyped == NoCall \in CallState
  BY Zero DEF NoCall, CallState

LEMMA NewCallTyped ==
  ASSUME NEW kind \in {"register", "heartbeat"}, NEW id \in Nat
  PROVE  /\ NewCall(kind, id) \in CallState
         /\ NewCall(kind, id).kind = kind
         /\ NewCall(kind, id).stamp = 0 /\ NewCall(kind, id).age = 0
         /\ ~NewCall(kind, id).delayed
  <1>1. NewCall(kind, id).stage \in {"sent", "broken"}
    BY DEF NewCall
  <1> QED BY <1>1, Zero DEF NewCall, CallState

LEMMA AgentInitTyped ==
  /\ AgentInit \in AgentState
  /\ [AgentInit EXCEPT !.pc = "boot"] \in AgentState
  <1>1. AgentInit \in AgentState
    BY Zero DEF AgentInit, AgentState
  <1> QED BY <1>1, AgentFields

-----------------------------------------------------------------------------
(* The agents and their calls.  One agent and its call change at a time, so  *)
(* that AgentInv is a matter of the new values.                              *)

\* AgentInv for one agent in state g awaiting call c.
OneAgent(g, c) ==
  /\ g \in AgentState /\ c \in CallState
  /\ c.kind = "heartbeat" => g.pc = "heartbeat"
  /\ c.stamp <= c.age
  /\ c.stamp # 0 => c.stage = "stamped"
  /\ c.delayed => c.stage \in {"sent", "replied"}
  /\ g.pc # "gave_up" => g.attempts < MaxAttempts
  /\ g.pc = "heartbeat" => g.attempts = 0
  /\ g.pc = "sleep" /\ g.client => g.attempts = 0
  /\ g.pc = "register" => ~g.client

LEMMA UpdateOne ==
  ASSUME AgentInv, NEW a \in Agents, NEW g, NEW c, OneAgent(g, c),
         agent' = [agent EXCEPT ![a] = g], call' = [call EXCEPT ![a] = c]
  PROVE  AgentInv'
  <1>1. /\ agent' \in [Agents -> AgentState]
        /\ call' \in [Agents -> CallState]
    BY DEF AgentInv, OneAgent
  <1>2. ASSUME NEW b \in Agents
        PROVE  \/ agent'[b] = g /\ call'[b] = c
               \/ agent'[b] = agent[b] /\ call'[b] = call[b]
    BY DEF AgentInv
  <1> QED BY <1>1, <1>2 DEF AgentInv, OneAgent, CallsMatch, AttemptsBounded

LEMMA TheAgent ==
  ASSUME AgentInv, NEW a \in Agents
  PROVE  /\ OneAgent(agent[a], call[a])
         /\ agent' = agent => agent' = [agent EXCEPT ![a] = agent[a]]
         /\ call' = call => call' = [call EXCEPT ![a] = call[a]]
  BY DEF AgentInv, OneAgent, CallsMatch, AttemptsBounded

LEMMA HandlersKeepAgents ==
  ASSUME AgentInv, NEW a \in Agents, Handler(a), issued \in Nat
  PROVE  AgentInv'
  <1> DEFINE r == call[a]
  <1>0. r \in CallState /\ OneAgent(agent[a], r)
    BY TheAgent DEF AgentInv
  <1> SUFFICES ASSUME NEW c, call' = [call EXCEPT ![a] = c], agent' = agent,
                      \/ c = [r EXCEPT !.stage = "stamped", !.stamp = 0]
                           /\ Arrived(a, "register", "sent")
                      \/ c = [r EXCEPT !.stage = "replied", !.id = issued + 1,
                                       !.stamp = 0]
                           /\ Arrived(a, "register", "stamped")
                      \/ c = [r EXCEPT !.stage = "replied"]
                           /\ Arrived(a, "heartbeat", "sent")
               PROVE  OneAgent(agent[a], c)
    BY TheAgent, UpdateOne
    DEF Handler, StampRegistration, HandleRegister, HandleHeartbeat
  <1>1. CASE c = [r EXCEPT !.stage = "stamped", !.stamp = 0]
               /\ Arrived(a, "register", "sent")
    <2>1. [r EXCEPT !.stage = "stamped"] \in CallState
      BY <1>0, CallFields
    <2>2. c \in CallState
      BY <1>1, <2>1, Zero, CallFields
    <2>3. c.stage = "stamped" /\ c.stamp = 0 /\ c.kind = r.kind
          /\ c.age = r.age /\ c.delayed = FALSE
      BY <1>0, <1>1 DEF Arrived, CallState
    <2> QED BY <1>0, <2>2, <2>3 DEF OneAgent, CallState
  <1>2. CASE c = [r EXCEPT !.stage = "replied", !.id = issued + 1, !.stamp = 0]
               /\ Arrived(a, "register", "stamped")
    <2>1. [r EXCEPT !.stage = "replied"] \in CallState
      BY <1>0, CallFields
    <2>0. issued + 1 \in Nat
      OBVIOUS
    <2>2. [r EXCEPT !.stage = "replied", !.id = issued + 1] \in CallState
      BY <2>0, <2>1, CallFields
    <2>3. c \in CallState
      BY <1>2, <2>2, Zero, CallFields
    <2>4. c.stage = "replied" /\ c.stamp = 0 /\ c.kind = r.kind
          /\ c.age = r.age
      BY <1>0, <1>2 DEF CallState
    <2> QED BY <1>0, <2>3, <2>4 DEF OneAgent, CallState
  <1>3. CASE c = [r EXCEPT !.stage = "replied"]
               /\ Arrived(a, "heartbeat", "sent")
    <2>1. c \in CallState
      BY <1>0, <1>3, CallFields
    <2>2. c.stage = "replied" /\ c.stamp = r.stamp /\ c.kind = r.kind
          /\ c.age = r.age /\ r.stage = "sent"
      BY <1>0, <1>3 DEF CallState, Arrived
    <2> QED BY <1>0, <2>1, <2>2 DEF OneAgent, CallState
  <1> QED BY <1>1, <1>2, <1>3

LEMMA StepsKeepAgents ==
  ASSUME AgentInv, NEW a \in Agents, AgentStep(a) \/ StartAgent(a)
  PROVE  AgentInv'
  <1> DEFINE g == agent[a]
             r == call[a]
  <1>0. g \in AgentState /\ r \in CallState /\ OneAgent(g, r)
    BY TheAgent DEF AgentInv
  <1> USE Numbers
  <1>1. CASE Registered(a)
    <2> DEFINE target == IF g.pc = "boot" THEN r.id ELSE g.loop_id
               h == [g EXCEPT !.pc = "heartbeat", !.node_id = r.id,
                              !.loop_id = target, !.client = TRUE,
                              !.attempts = 0]
    <2>1. target \in Nat /\ r.id \in Nat
      BY <1>0 DEF AgentState, CallState
    <2>2. NewCall("heartbeat", target) \in CallState
          /\ NewCall("heartbeat", target).stamp = 0
          /\ NewCall("heartbeat", target).age = 0
          /\ ~NewCall("heartbeat", target).delayed
      BY <2>1, NewCallTyped
    <2>3. h \in AgentState
      <3> HIDE DEF target
      <3>1. [g EXCEPT !.pc = "heartbeat"] \in AgentState
        BY <1>0, AgentFields
      <3>2. [g EXCEPT !.pc = "heartbeat", !.node_id = r.id] \in AgentState
        BY <2>1, <3>1, AgentFields
      <3>3. [g EXCEPT !.pc = "heartbeat", !.node_id = r.id,
                      !.loop_id = target] \in AgentState
        BY <2>1, <3>2, AgentFields
      <3>4. [g EXCEPT !.pc = "heartbeat", !.node_id = r.id,
                      !.loop_id = target, !.client = TRUE] \in AgentState
        BY <3>3, AgentFields
      <3> QED BY <3>4, Zero, AgentFields
    <2>4. h.pc = "heartbeat" /\ h.attempts = 0
      BY <1>0 DEF AgentState
    <2>5. OneAgent(h, NewCall("heartbeat", target))
      BY <2>2, <2>3, <2>4 DEF OneAgent
    <2>6. /\ agent' = [agent EXCEPT ![a] = h]
          /\ call' = [call EXCEPT ![a] = NewCall("heartbeat", target)]
      BY <1>1 DEF Registered, AttemptsAfterRegister
    <2> QED BY <2>5, <2>6, UpdateOne
  <1>2. CASE BootFails(a)
    <2>1. OneAgent(AgentInit, NoCall)
      BY NoCallTyped, AgentInitTyped DEF OneAgent, AgentInit, NoCall
    <2> QED BY <1>2, <2>1, UpdateOne DEF BootFails
  <1>3. CASE RegisterFails(a)
    <2> DEFINE tries == g.attempts + 1
               stop == [g EXCEPT !.pc = "gave_up", !.attempts = tries]
               retry == [g EXCEPT !.pc = "sleep", !.attempts = tries,
                                  !.timer = Backoff * tries]
    <2>1. g.pc = "register" /\ tries \in 0..MaxAttempts
      BY <1>3, <1>0 DEF RegisterFails, OneAgent, AgentState
    <2>2. tries \in Nat /\ Backoff * tries \in Nat
      BY <2>1, RetryDelay
    <2>3. stop \in AgentState /\ stop.pc = "gave_up"
      <3>1. [g EXCEPT !.pc = "gave_up"] \in AgentState
        BY <1>0, AgentFields
      <3>2. stop \in AgentState
        BY <2>1, <3>1, AgentFields
      <3> QED BY <1>0, <3>2 DEF AgentState
    <2>4. ASSUME tries < MaxAttempts
          PROVE  OneAgent(retry, NoCall)
      <3>1. [g EXCEPT !.pc = "sleep"] \in AgentState
        BY <1>0, AgentFields
      <3>2. [g EXCEPT !.pc = "sleep", !.attempts = tries] \in AgentState
        BY <2>1, <3>1, AgentFields
      <3>3. retry \in AgentState
        BY <2>2, <3>2, AgentFields
      <3>4. retry.pc = "sleep" /\ retry.attempts = tries
            /\ retry.client = g.client
        BY <1>0 DEF AgentState
      <3>5. ~g.client
        BY <1>0, <2>1 DEF OneAgent
      <3> QED BY <2>4, <3>3, <3>4, <3>5, NoCallTyped DEF OneAgent, NoCall
    <2>5. OneAgent(stop, NoCall)
      BY <2>3, NoCallTyped DEF OneAgent, NoCall
    <2>6. CASE GivesUp(tries)
      BY <1>3, <2>5, <2>6, UpdateOne DEF RegisterFails
    <2>7. CASE ~GivesUp(tries)
      <3>1. tries < MaxAttempts
        BY <2>1, <2>7 DEF GivesUp
      <3> QED BY <1>3, <2>4, <2>7, <3>1, UpdateOne DEF RegisterFails
    <2> QED BY <2>6, <2>7
  <1>4. CASE HeartbeatReplied(a)
    <2> DEFINE h == [g EXCEPT !.pc = "sleep", !.attempts = 0,
                              !.timer = HeartbeatEvery]
    <2>1. [g EXCEPT !.pc = "sleep"] \in AgentState
      BY <1>0, AgentFields
    <2>2. [g EXCEPT !.pc = "sleep", !.attempts = 0] \in AgentState
      BY <2>1, Zero, AgentFields
    <2>3. h \in AgentState
      BY <2>2, AgentFields
    <2>4. h.pc = "sleep" /\ h.attempts = 0
      BY <1>0 DEF AgentState
    <2>5. OneAgent(h, NoCall)
      BY <2>3, <2>4, NoCallTyped DEF OneAgent, NoCall
    <2> QED BY <1>4, <2>5, UpdateOne DEF HeartbeatReplied
  <1>5. CASE HeartbeatFails(a)
    <2> DEFINE tries == g.attempts + 1
               h == [g EXCEPT !.pc = "sleep", !.client = FALSE,
                              !.attempts = tries, !.timer = HeartbeatEvery]
    <2>1. tries = 1 /\ tries \in 0..MaxAttempts /\ ~GivesUp(tries)
      BY <1>5, <1>0 DEF HeartbeatFails, OneAgent, GivesUp
    <2>2. [g EXCEPT !.pc = "sleep"] \in AgentState
      BY <1>0, AgentFields
    <2>3. [g EXCEPT !.pc = "sleep", !.client = FALSE] \in AgentState
      BY <2>2, AgentFields
    <2>4. [g EXCEPT !.pc = "sleep", !.client = FALSE,
                    !.attempts = tries] \in AgentState
      BY <2>1, <2>3, AgentFields
    <2>5. h \in AgentState
      BY <2>4, AgentFields
    <2>6. h.pc = "sleep" /\ h.attempts = 1 /\ h.client = FALSE
      BY <1>0, <2>1 DEF AgentState
    <2>7. OneAgent(h, NoCall)
      BY <2>5, <2>6, NoCallTyped DEF OneAgent, NoCall
    <2> QED BY <1>5, <2>1, <2>7, UpdateOne DEF HeartbeatFails
  <1>6. CASE WakeUp(a)
    <2> DEFINE kind == IF g.client THEN "heartbeat" ELSE "register"
               id == IF g.client THEN g.loop_id ELSE NoId
               h == [g EXCEPT !.pc = kind]
    <2>1. kind \in {"register", "heartbeat"} /\ id \in Nat
      BY <1>0, Zero DEF AgentState
    <2>2. h \in AgentState
      BY <1>0, <2>1, AgentFields
    <2>3. h.pc = kind /\ h.attempts = g.attempts /\ h.client = g.client
      BY <1>0 DEF AgentState
    <2>4. /\ kind = "heartbeat" => g.attempts = 0
          /\ kind = "register" => ~g.client
          /\ g.attempts < MaxAttempts
      BY <1>0, <1>6 DEF WakeUp, OneAgent
    <2>5. OneAgent(h, NewCall(kind, id))
      <3> HIDE DEF kind, id
      <3> QED BY <2>1, <2>2, <2>3, <2>4, NewCallTyped DEF OneAgent
    <2>6. /\ agent' = [agent EXCEPT ![a] = h]
          /\ call' = [call EXCEPT ![a] = NewCall(kind, id)]
      BY <1>6 DEF WakeUp
    <2> QED BY <2>5, <2>6, UpdateOne
  <1>7. CASE StartAgent(a)
    <2> DEFINE h == [AgentInit EXCEPT !.pc = "boot"]
    <2>1. h.pc = "boot" /\ h.attempts = 0
      BY DEF AgentInit
    <2>2. OneAgent(h, NewCall("register", NoId))
      BY <2>1, Zero, NewCallTyped, AgentInitTyped DEF OneAgent
    <2> QED BY <1>7, <2>2, UpdateOne DEF StartAgent
  <1> QED BY <1>1, <1>2, <1>3, <1>4, <1>5, <1>6, <1>7 DEF AgentStep

LEMMA FaultsKeepAgents ==
  ASSUME AgentInv, NEW a \in Agents, FaultStep(a)
  PROVE  AgentInv'
  <1> DEFINE g == agent[a]
             r == call[a]
  <1>0. g \in AgentState /\ r \in CallState /\ OneAgent(g, r)
    BY TheAgent DEF AgentInv
  <1>1. CASE BreakConnection(a)
    <2> DEFINE c == [r EXCEPT !.stage = "broken", !.stamp = 0,
                              !.delayed = FALSE]
    <2>1. [r EXCEPT !.stage = "broken"] \in CallState
      BY <1>0, CallFields
    <2>2. [r EXCEPT !.stage = "broken", !.stamp = 0] \in CallState
      BY <2>1, Zero, CallFields
    <2>3. c \in CallState
      BY <2>2, CallFields
    <2>4. c.kind = r.kind /\ c.stamp = 0 /\ c.delayed = FALSE /\ c.age = r.age
      BY <1>0 DEF CallState
    <2>5. OneAgent(g, c)
      BY <1>0, <2>3, <2>4 DEF OneAgent, CallState
    <2> QED BY <1>1, <2>5, TheAgent, UpdateOne DEF BreakConnection
  <1>2. CASE DelayCall(a)
    <2> DEFINE c == [r EXCEPT !.delayed = TRUE]
    <2>1. c \in CallState
      BY <1>0, CallFields
    <2>2. c.kind = r.kind /\ c.stamp = r.stamp /\ c.age = r.age
          /\ c.stage = r.stage
      BY <1>0 DEF CallState
    <2>3. OneAgent(g, c)
      BY <1>0, <1>2, <2>1, <2>2 DEF OneAgent, DelayCall
    <2> QED BY <1>2, <2>3, TheAgent, UpdateOne DEF DelayCall
  <1>3. CASE ArriveLate(a)
    <2> DEFINE c == [r EXCEPT !.delayed = FALSE, !.age = 0]
    <2>1. [r EXCEPT !.delayed = FALSE] \in CallState
      BY <1>0, CallFields
    <2>2. c \in CallState
      BY <2>1, Zero, CallFields
    <2>3. c.kind = r.kind /\ c.stamp = r.stamp /\ c.age = 0
          /\ c.stage = r.stage /\ c.delayed = FALSE
      BY <1>0 DEF CallState
    <2>4. r.stamp = 0
      BY <1>0, <1>3 DEF OneAgent, ArriveLate
    <2>5. OneAgent(g, c)
      BY <1>0, <2>2, <2>3, <2>4 DEF OneAgent
    <2> QED BY <1>3, <2>5, TheAgent, UpdateOne DEF ArriveLate
  <1>4. CASE KillAgent(a)
    <2>1. OneAgent(AgentInit, NoCall)
      BY Numbers, NoCallTyped, AgentInitTyped DEF OneAgent, AgentInit, NoCall
    <2> QED BY <1>4, <2>1, UpdateOne DEF KillAgent
  <1> QED BY <1>1, <1>2, <1>3, <1>4 DEF FaultStep

\* AgentInv from its instances, for the steps that change every agent or call.
LEMMA EachAgent ==
  ASSUME agent' \in [Agents -> AgentState], call' \in [Agents -> CallState],
         \A a \in Agents : OneAgent(agent'[a], call'[a])
  PROVE  AgentInv'
  BY DEF AgentInv, OneAgent, CallsMatch, AttemptsBounded

LEMMA CrashKeepsAgents ==
  ASSUME AgentInv, CrashCoordinator
  PROVE  AgentInv'
  <1> DEFINE cut(r) == [r EXCEPT !.stage = "broken", !.stamp = 0,
                                 !.delayed = FALSE]
  <1>1. ASSUME NEW a \in Agents
        PROVE  OneAgent(agent[a], cut(call[a])) /\ OneAgent(agent[a], call[a])
    <2> DEFINE r == call[a]
    <2>0. r \in CallState /\ OneAgent(agent[a], r)
      BY TheAgent DEF AgentInv
    <2>1. [r EXCEPT !.stage = "broken"] \in CallState
      BY <2>0, CallFields
    <2>2. [r EXCEPT !.stage = "broken", !.stamp = 0] \in CallState
      BY <2>1, Zero, CallFields
    <2>3. cut(r) \in CallState
      BY <2>2, CallFields
    <2>4. cut(r).kind = r.kind /\ cut(r).stamp = 0 /\ cut(r).delayed = FALSE
          /\ cut(r).age = r.age
      BY <2>0 DEF CallState
    <2> HIDE DEF cut
    <2> QED BY <2>0, <2>3, <2>4 DEF OneAgent, CallState
  <1>2. \A a \in Agents : call'[a] = cut(call[a]) \/ call'[a] = call[a]
    BY DEF CrashCoordinator
  <1>3. agent' = agent /\ call' = [a \in Agents |-> call'[a]]
    BY DEF CrashCoordinator
  <1> HIDE DEF cut
  <1>4. \A a \in Agents : OneAgent(agent'[a], call'[a])
    BY <1>1, <1>2, <1>3
  <1> QED BY <1>3, <1>4, EachAgent DEF OneAgent, AgentInv

LEMMA TickKeepsAgents ==
  ASSUME AgentInv, Tick
  PROVE  AgentInv'
  <1>1. ASSUME NEW a \in Agents
        PROVE  OneAgent(agent'[a], call'[a])
    <2> DEFINE g == agent[a]
               r == call[a]
               later == IF r.stage = "stamped" THEN r.stamp + 1 ELSE r.stamp
    <2>0. g \in AgentState /\ r \in CallState /\ OneAgent(g, r)
      BY TheAgent DEF AgentInv
    <2>00. OnTime(a)
      BY DEF Tick
    <2>1. /\ agent'[a] \in AgentState
          /\ agent'[a].pc = g.pc /\ agent'[a].attempts = g.attempts
          /\ agent'[a].client = g.client
      <3>1. CASE g.pc = "sleep"
        <4>0. g.timer \in Nat /\ g.timer > 0
          BY <2>0, <3>1, <2>00 DEF OnTime, AgentState
        <4>1. g.timer - 1 \in Nat
          BY <4>0
        <4>2. agent'[a] = [g EXCEPT !.timer = g.timer - 1]
          BY <3>1 DEF Tick
        <4>3. agent'[a] \in AgentState
          BY <2>0, <4>1, <4>2, AgentFields
        <4>4. /\ agent'[a].pc = g.pc /\ agent'[a].attempts = g.attempts
              /\ agent'[a].client = g.client
          BY <2>0, <4>2 DEF AgentState
        <4> QED BY <4>3, <4>4
      <3>2. CASE g.pc # "sleep"
        BY <2>0, <3>2 DEF Tick
      <3> QED BY <3>1, <3>2
    <2>2. CASE r.stage = "none" \/ r.delayed
      <3>1. call'[a] = r
        BY <2>2 DEF Tick
      <3> QED BY <2>0, <2>1, <3>1 DEF OneAgent
    <2>3. CASE ~(r.stage = "none" \/ r.delayed)
      <3>1. call'[a] = [r EXCEPT !.age = r.age + 1, !.stamp = later]
        BY <2>3 DEF Tick
      <3>2. r.age \in 0..CallTime /\ r.age + 1 \in 0..CallTime
        <4>1. r.age \in 0..CallTime /\ r.age < CallTime
          BY <2>0, <2>00, <2>3 DEF OnTime, CallState
        <4> QED BY <4>1, Numbers
      <3>3. later \in 0..CallTime /\ later <= r.age + 1
            /\ (later # 0 => r.stage = "stamped")
        BY <2>0, <3>2, Numbers DEF OneAgent, CallState
      <3> HIDE DEF later
      <3>4. [r EXCEPT !.age = r.age + 1] \in CallState
        BY <2>0, <3>2, CallFields
      <3>5. call'[a] \in CallState
        BY <3>1, <3>3, <3>4, CallFields
      <3>6. /\ call'[a].age = r.age + 1 /\ call'[a].stamp = later
            /\ call'[a].kind = r.kind /\ call'[a].stage = r.stage
            /\ call'[a].delayed = r.delayed
        BY <2>0, <3>1 DEF CallState
      <3> QED BY <2>0, <2>1, <3>3, <3>5, <3>6 DEF OneAgent
    <2> QED BY <2>2, <2>3
  <1>2. /\ agent' = [a \in Agents |-> agent'[a]]
        /\ call' = [a \in Agents |-> call'[a]]
    BY DEF Tick
  <1> QED BY <1>1, <1>2, EachAgent DEF OneAgent

-----------------------------------------------------------------------------
(* The registry, the monitor and the clock *)

Slack == IF monitor.pc = "sweep" THEN MonitorPeriod ELSE 0

\* BoundedStaleness and SuspectOnlyWhenSilent for one entry that is `late'
\* behind the monitor's clock.
EntryOk(e, late) ==
  /\ e \in NodeEntry
  /\ e.age <= RemoveAfter + late
  /\ e.status = "Healthy" => e.age <= SuspectAfter + late
  /\ e.status = "Suspect" => e.age > SuspectAfter

LEMMA EntriesOk ==
  RegistryInv <=>
    /\ DOMAIN nodes \subseteq 1..issued
    /\ issued \in Nat
    /\ up \in BOOLEAN
    /\ monitor \in [pc : {"idle", "sweep"}, due : 0..MonitorPeriod]
    /\ faults \in 0..MaxFaults
    /\ DownIsEmpty
    /\ \A n \in DOMAIN nodes : EntryOk(nodes[n], SinceTick + Slack)
  BY Numbers
  DEF RegistryInv, BoundedStaleness, SuspectOnlyWhenSilent, EntryOk, Slack,
      SinceTick, NodeEntry

LEMMA Lateness ==
  ASSUME RegistryInv
  PROVE  /\ SinceTick \in 0..MonitorPeriod
         /\ Slack \in Nat /\ SinceTick + Slack \in Nat
  BY Numbers DEF RegistryInv, SinceTick, Slack

\* RegistryInv after a step, from the new values.
LEMMA RegistryStep ==
  ASSUME NEW late, late = SinceTick' + Slack',
         \A n \in DOMAIN nodes' : EntryOk(nodes'[n], late),
         DOMAIN nodes' \subseteq 1..issued', issued' \in Nat,
         up' \in BOOLEAN, faults' \in 0..MaxFaults, DownIsEmpty',
         monitor' \in [pc : {"idle", "sweep"}, due : 0..MonitorPeriod]
  PROVE  RegistryInv'
  BY Numbers
  DEF RegistryInv, BoundedStaleness, SuspectOnlyWhenSilent, EntryOk, Slack,
      SinceTick, NodeEntry

\* A fresh entry: one whose clock reading is within the suspicion threshold.
LEMMA FreshEntryOk ==
  ASSUME NEW age \in Nat, age <= SuspectAfter, NEW late \in Nat
  PROVE  EntryOk([status |-> "Healthy", age |-> age], late)
  BY Numbers DEF EntryOk, NodeEntry

LEMMA HandleRegisterKeepsRegistry ==
  ASSUME RegistryInv, AgentInv, NEW a \in Agents, HandleRegister(a)
  PROVE  RegistryInv'
  <1> DEFINE id == issued + 1
             late == SinceTick + Slack
             new == [status |-> "Healthy", age |-> call[a].stamp]
  <1>1. call[a].stamp \in Nat /\ call[a].stamp <= SuspectAfter
    BY Numbers DEF AgentInv, CallState
  <1>2. EntryOk(new, late)
    BY <1>1, Lateness, FreshEntryOk
  <1>3. /\ nodes' = [n \in DOMAIN nodes \cup {id} |->
                       IF n = id THEN new ELSE nodes[n]]
        /\ issued' = id /\ up' = up /\ up /\ monitor' = monitor
        /\ faults' = faults
    BY DEF HandleRegister, Arrived
  <1>4. DOMAIN nodes' \subseteq 1..issued'
    BY <1>3, EntriesOk
  <1>5. SinceTick' + Slack' = late
    BY <1>3 DEF SinceTick, Slack
  <1>6. \A n \in DOMAIN nodes : EntryOk(nodes[n], late)
    BY EntriesOk
  <1>7. \A n \in DOMAIN nodes' : EntryOk(nodes'[n], late)
    <2> HIDE DEF new, late
    <2> QED BY <1>2, <1>3, <1>6
  <1>8. /\ issued' \in Nat /\ up' \in BOOLEAN /\ faults' \in 0..MaxFaults
        /\ monitor' \in [pc : {"idle", "sweep"}, due : 0..MonitorPeriod]
        /\ DownIsEmpty'
    BY <1>3 DEF RegistryInv, DownIsEmpty
  <1> HIDE DEF late
  <1> QED BY <1>4, <1>5, <1>7, <1>8, RegistryStep

LEMMA HandleHeartbeatKeepsRegistry ==
  ASSUME RegistryInv, NEW a \in Agents, HandleHeartbeat(a)
  PROVE  RegistryInv'
  <1> DEFINE late == SinceTick + Slack
             new == [status |-> "Healthy", age |-> 0]
  <1>1. EntryOk(new, late)
    BY Numbers, Lateness, FreshEntryOk
  <1>2. /\ nodes' = [n \in DOMAIN nodes |->
                       IF n = call[a].id THEN new ELSE nodes[n]]
        /\ issued' = issued /\ up' = up /\ up /\ monitor' = monitor
        /\ faults' = faults
    BY DEF HandleHeartbeat, Arrived, Refreshed
  <1>3. SinceTick' + Slack' = late
    BY <1>2 DEF SinceTick, Slack
  <1>4. \A n \in DOMAIN nodes : EntryOk(nodes[n], late)
    BY EntriesOk
  <1> HIDE DEF new, late
  <1>5. \A n \in DOMAIN nodes' : EntryOk(nodes'[n], late)
    BY <1>1, <1>2, <1>4
  <1> QED BY <1>2, <1>3, <1>5, RegistryStep DEF RegistryInv, DownIsEmpty

\* The clock the monitor has just read is a period older than the last one.
LEMMA MonitorTickKeepsRegistry ==
  ASSUME RegistryInv, MonitorTick
  PROVE  RegistryInv'
  <1> DEFINE late == SinceTick + Slack
  <1>1. late = MonitorPeriod /\ SinceTick' + Slack' = late
    BY Numbers DEF MonitorTick, SinceTick, Slack
  <1>2. \A n \in DOMAIN nodes : EntryOk(nodes[n], late)
    BY EntriesOk
  <1>3. monitor' \in [pc : {"idle", "sweep"}, due : 0..MonitorPeriod]
    BY Numbers DEF MonitorTick
  <1> HIDE DEF late
  <1> QED BY <1>1, <1>2, <1>3, RegistryStep
          DEF MonitorTick, RegistryInv, DownIsEmpty

\* After the sweep every entry is within the thresholds of the clock read.
LEMMA MonitorSweepKeepsRegistry ==
  ASSUME RegistryInv, MonitorSweep
  PROVE  RegistryInv'
  <1> DEFINE late == SinceTick
  <1>1. SinceTick' + Slack' = late /\ late \in 0..MonitorPeriod
    BY Lateness, Numbers DEF MonitorSweep, SinceTick, Slack, RegistryInv
  <1>2. ASSUME NEW n \in DOMAIN nodes, ~Expired(n)
        PROVE  EntryOk(Swept(n), late)
    <2>1. nodes[n] \in NodeEntry /\ EntryOk(nodes[n], SinceTick + Slack)
      BY EntriesOk DEF RegistryInv
    <2>2. nodes[n].age \in Nat /\ nodes[n].age <= RemoveAfter + late
      BY <1>1, <1>2, <2>1, Numbers DEF Expired, SilentFor, NodeEntry
    <2>3. CASE SilentFor(n) > SuspectAfter /\ nodes[n].status = "Healthy"
      <3>1. nodes[n].age > SuspectAfter
        BY <1>1, <2>2, <2>3, Numbers DEF SilentFor
      <3>2. Swept(n) \in NodeEntry /\ Swept(n).status = "Suspect"
            /\ Swept(n).age = nodes[n].age
        BY <2>1, <2>3 DEF Swept, NodeEntry
      <3> QED BY <2>2, <3>1, <3>2 DEF EntryOk
    <2>4. CASE ~(SilentFor(n) > SuspectAfter /\ nodes[n].status = "Healthy")
      <3>1. Swept(n) = nodes[n]
        BY <2>4 DEF Swept
      <3>2. nodes[n].status = "Healthy" => nodes[n].age <= SuspectAfter + late
        BY <1>1, <2>2, <2>4, Numbers DEF SilentFor
      <3> QED BY <2>1, <2>2, <3>1, <3>2 DEF EntryOk
    <2> QED BY <2>3, <2>4
  <1>3. \A n \in DOMAIN nodes' : EntryOk(nodes'[n], late)
    BY <1>2 DEF MonitorSweep
  <1>4. monitor' \in [pc : {"idle", "sweep"}, due : 0..MonitorPeriod]
    BY DEF MonitorSweep, RegistryInv
  <1>5. /\ DOMAIN nodes' \subseteq DOMAIN nodes
        /\ issued' = issued /\ up' = up /\ up /\ faults' = faults
    BY DEF MonitorSweep
  <1> HIDE DEF late
  <1> QED BY <1>1, <1>3, <1>4, <1>5, RegistryStep
          DEF RegistryInv, DownIsEmpty

\* Everything ages together; the monitor is never more than LockDelay late.
LEMMA TickKeepsRegistry ==
  ASSUME RegistryInv, Tick
  PROVE  RegistryInv'
  <1>1. CASE up
    <2> DEFINE late == SinceTick + Slack
    <2>1. monitor.due - 1 \in 0..MonitorPeriod
      <3>1. monitor.due \in 0..MonitorPeriod /\ monitor.pc \in {"idle", "sweep"}
        BY DEF RegistryInv
      <3>2. MonitorOnTime
        BY DEF Tick
      <3>3. monitor.due # 0
        BY <1>1, <3>1, <3>2, Numbers DEF MonitorOnTime, SinceTick
      <3> QED BY <3>1, <3>3, Numbers
    <2>2. monitor' = [monitor EXCEPT !.due = monitor.due - 1]
      BY <1>1 DEF Tick
    <2>3. /\ monitor' \in [pc : {"idle", "sweep"}, due : 0..MonitorPeriod]
          /\ monitor'.pc = monitor.pc /\ monitor'.due = monitor.due - 1
      BY <2>1, <2>2 DEF RegistryInv
    <2>4. late \in Nat /\ SinceTick' + Slack' = late + 1
      BY <2>3, Lateness, Numbers DEF SinceTick, Slack, RegistryInv
    <2>5. ASSUME NEW n \in DOMAIN nodes
          PROVE  EntryOk([nodes[n] EXCEPT !.age = nodes[n].age + 1], late + 1)
      <3>1. EntryOk(nodes[n], late)
        BY EntriesOk
      <3> HIDE DEF late
      <3> QED BY <2>4, <3>1, Numbers DEF EntryOk, NodeEntry
    <2>6. \A n \in DOMAIN nodes' : EntryOk(nodes'[n], late + 1)
      BY <2>5 DEF Tick
    <2>7. /\ DOMAIN nodes' = DOMAIN nodes
          /\ issued' = issued /\ up' = up /\ faults' = faults
      BY DEF Tick
    <2> HIDE DEF late
    <2> QED BY <1>1, <2>3, <2>4, <2>6, <2>7, RegistryStep
            DEF RegistryInv, DownIsEmpty
  <1>2. CASE ~up
    <2>1. DOMAIN nodes = {} /\ DOMAIN nodes' = {}
      BY <1>2 DEF Tick, RegistryInv, DownIsEmpty
    <2> QED BY <1>2, <2>1, RegistryStep DEF Tick, RegistryInv, DownIsEmpty
  <1> QED BY <1>1, <1>2

LEMMA CrashKeepsRegistry ==
  ASSUME RegistryInv, CrashCoordinator
  PROVE  RegistryInv'
  <1>1. /\ DOMAIN nodes' = {} /\ monitor' = MonitorInit /\ up' = FALSE
        /\ Fault /\ issued' = issued
    BY DEF CrashCoordinator
  <1>2. monitor' \in [pc : {"idle", "sweep"}, due : 0..MonitorPeriod]
    BY <1>1, Numbers DEF MonitorInit
  <1>3. faults' \in 0..MaxFaults
    BY <1>1, Numbers DEF Fault, RegistryInv
  <1> QED BY <1>1, <1>2, <1>3, RegistryStep DEF RegistryInv, DownIsEmpty

\* The steps that touch neither the registry nor the monitor.
LEMMA OthersKeepRegistry ==
  ASSUME RegistryInv, UNCHANGED <<nodes, issued, monitor>>,
         up' = up \/ (up' = TRUE /\ ~up), faults' = faults \/ Fault
  PROVE  RegistryInv'
  <1> DEFINE late == SinceTick + Slack
  <1>1. SinceTick' + Slack' = late
    BY DEF SinceTick, Slack
  <1>2. \A n \in DOMAIN nodes' : EntryOk(nodes'[n], late)
    BY EntriesOk
  <1>3. faults' \in 0..MaxFaults
    BY Numbers DEF Fault, RegistryInv
  <1> HIDE DEF late
  <1> QED BY <1>1, <1>2, <1>3, RegistryStep DEF RegistryInv, DownIsEmpty

-----------------------------------------------------------------------------
(* The theorems *)

LEMMA InitIInv == Init => IInv
  <1> SUFFICES ASSUME Init PROVE RegistryInv /\ AgentInv
    BY IInvParts
  <1>1. \A a \in Agents : OneAgent(agent[a], call[a])
    <2>1. OneAgent(AgentInit, NoCall)
      BY Numbers, NoCallTyped, AgentInitTyped DEF OneAgent, AgentInit, NoCall
    <2> QED BY <2>1 DEF Init
  <1>2. AgentInv
    BY <1>1, NoCallTyped, AgentInitTyped
    DEF Init, AgentInv, OneAgent, CallsMatch, AttemptsBounded
  <1>3. RegistryInv
    BY Numbers DEF Init, RegistryInv, DownIsEmpty, BoundedStaleness,
       SuspectOnlyWhenSilent, MonitorInit
  <1> QED BY <1>2, <1>3

LEMMA NextIInv == IInv /\ [Next]_vars => IInv'
  <1> SUFFICES ASSUME RegistryInv, AgentInv, [Next]_vars
               PROVE  RegistryInv' /\ AgentInv'
    BY IInvParts DEF IInv, TypeOK, RegistryInv, AgentInv
  <1>0. issued \in Nat
    BY DEF RegistryInv
  <1>1. ASSUME NEW a \in Agents, Handler(a)
        PROVE  RegistryInv' /\ AgentInv'
    <2>1. CASE StampRegistration(a)
      BY <1>0, <1>1, <2>1, HandlersKeepAgents, OthersKeepRegistry
      DEF StampRegistration
    <2>2. CASE HandleRegister(a)
      BY <1>0, <1>1, <2>2, HandlersKeepAgents, HandleRegisterKeepsRegistry
    <2>3. CASE HandleHeartbeat(a)
      BY <1>0, <1>1, <2>3, HandlersKeepAgents, HandleHeartbeatKeepsRegistry
    <2> QED BY <1>1, <2>1, <2>2, <2>3 DEF Handler
  <1>2. ASSUME NEW a \in Agents, AgentStep(a) \/ StartAgent(a)
        PROVE  RegistryInv' /\ AgentInv'
    <2>1. UNCHANGED <<nodes, issued, up, monitor, faults>>
      BY <1>2 DEF AgentStep, StartAgent, Registered, BootFails, RegisterFails,
         HeartbeatReplied, HeartbeatFails, WakeUp
    <2> QED BY <1>2, <2>1, StepsKeepAgents, OthersKeepRegistry
  <1>3. ASSUME NEW a \in Agents, FaultStep(a)
        PROVE  RegistryInv' /\ AgentInv'
    <2>1. UNCHANGED <<nodes, issued, up, monitor>>
          /\ (faults' = faults \/ Fault)
      BY <1>3 DEF FaultStep, BreakConnection, DelayCall, ArriveLate, KillAgent
    <2> QED BY <1>3, <2>1, FaultsKeepAgents, OthersKeepRegistry
  <1>4. CASE MonitorTick
    <2>1. AgentInv'
      BY <1>4 DEF MonitorTick, AgentInv, CallsMatch, AttemptsBounded
    <2> QED BY <1>4, <2>1, MonitorTickKeepsRegistry
  <1>5. CASE MonitorSweep
    <2>1. AgentInv'
      BY <1>5 DEF MonitorSweep, AgentInv, CallsMatch, AttemptsBounded
    <2> QED BY <1>5, <2>1, MonitorSweepKeepsRegistry
  <1>6. CASE CrashCoordinator
    BY <1>6, CrashKeepsAgents, CrashKeepsRegistry
  <1>7. CASE RestartCoordinator
    <2>1. AgentInv'
      BY <1>7 DEF RestartCoordinator, AgentInv, CallsMatch, AttemptsBounded
    <2> QED BY <1>7, <2>1, OthersKeepRegistry DEF RestartCoordinator
  <1>8. CASE Tick
    BY <1>8, TickKeepsAgents, TickKeepsRegistry
  <1>9. CASE UNCHANGED vars
    <2>1. AgentInv'
      BY <1>9 DEF vars, AgentInv, CallsMatch, AttemptsBounded
    <2> QED BY <1>9, <2>1, OthersKeepRegistry DEF vars
  <1> QED BY <1>1, <1>2, <1>3, <1>4, <1>5, <1>6, <1>7, <1>8, <1>9 DEF Next

THEOREM InductiveInvariant == Spec => []IInv
  BY InitIInv, NextIInv, PTL DEF Spec

\* Every variable keeps its type, whatever the order of the steps.
THEOREM TypeCorrect == Spec => []TypeOK
  BY InductiveInvariant, PTL DEF IInv

\* What the registry shows is never staler than the thresholds plus one
\* monitor period and the lock's delay, even though the sweep compares with a
\* clock it read before it had the lock.
THEOREM StalenessIsBounded == Spec => []BoundedStaleness
  BY InductiveInvariant, PTL DEF IInv

\* No interleaving shows a node Suspect that has sent a heartbeat within the
\* threshold.
THEOREM SuspicionIsJustified == Spec => []SuspectOnlyWhenSilent
  BY InductiveInvariant, PTL DEF IInv

\* Only a node silent for longer than RemoveAfter is removed.
THEOREM RemovalIsJustified == Spec => RemovedOnlyWhenSilent
  <1>1. IInv /\ [Next]_vars =>
          [\A n \in DOMAIN nodes :
             up' /\ n \notin DOMAIN nodes' => nodes[n].age > RemoveAfter]_vars
    <2> SUFFICES ASSUME IInv, Next, NEW n \in DOMAIN nodes,
                        up', n \notin DOMAIN nodes'
                 PROVE  nodes[n].age > RemoveAfter
      BY DEF vars
    <2>1. MonitorSweep
      BY DEF Next, Handler, AgentStep, FaultStep, StampRegistration,
         HandleRegister, HandleHeartbeat, StartAgent, Registered, BootFails,
         RegisterFails, HeartbeatReplied, HeartbeatFails, WakeUp,
         BreakConnection, DelayCall, ArriveLate, KillAgent, MonitorTick,
         CrashCoordinator, RestartCoordinator, Tick
    <2>2. nodes[n].age - SinceTick > RemoveAfter
      BY <2>1 DEF MonitorSweep, Expired, SilentFor
    <2>3. SinceTick \in 0..MonitorPeriod /\ nodes[n].age \in Nat
      BY IInvParts, Lateness DEF IInv, TypeOK, NodeEntry
    <2> QED BY <2>2, <2>3, Numbers
  <1> QED BY <1>1, InductiveInvariant, PTL DEF Spec, RemovedOnlyWhenSilent

\* An agent never gives up on a failed heartbeat: it has just registered or
\* been answered, so its counter of attempts is at zero.
THEOREM HeartbeatFailureIsRetried == Spec => NeverGivesUpOnHeartbeat
  <1>1. IInv /\ [Next]_vars =>
          [\A a \in Agents :
             agent[a].pc = "heartbeat" => agent'[a].pc # "gave_up"]_vars
    <2> SUFFICES ASSUME IInv, Next, NEW a \in Agents,
                        agent[a].pc = "heartbeat", agent'[a].pc = "gave_up"
                 PROVE  FALSE
      BY DEF vars
    <2>1. agent[a] \in AgentState /\ agent[a].attempts = 0
      BY DEF IInv, TypeOK, AttemptsBounded
    <2>2. CASE HeartbeatFails(a)
      <3>1. ~GivesUp(agent[a].attempts + 1)
        BY <2>1, Numbers DEF GivesUp
      <3>2. agent'[a] = [agent[a] EXCEPT !.pc = "sleep", !.client = FALSE,
                           !.attempts = agent[a].attempts + 1,
                           !.timer = HeartbeatEvery]
        BY <2>2, <3>1 DEF HeartbeatFails, IInv, TypeOK
      <3> QED BY <2>1, <3>2 DEF AgentState
    <2>3. agent'[a] = agent[a] \/ agent'[a].pc \in {"off", "sleep", "boot",
            "heartbeat"} \/ HeartbeatFails(a)
      <3>1. CASE \E b \in Agents : Handler(b) \/ FaultStep(b)
        <4>1. agent' = agent \/ (\E b \in Agents : KillAgent(b))
          BY <3>1 DEF Handler, FaultStep, StampRegistration, HandleRegister,
             HandleHeartbeat, BreakConnection, DelayCall, ArriveLate
        <4>2. ASSUME NEW b \in Agents, KillAgent(b)
              PROVE  agent'[a] = agent[a] \/ agent'[a].pc = "off"
          BY <4>2 DEF KillAgent, AgentInit, IInv, TypeOK
        <4> QED BY <4>1, <4>2
      <3>2. CASE \E b \in Agents : AgentStep(b) \/ StartAgent(b)
        <4>1. PICK b \in Agents : AgentStep(b) \/ StartAgent(b)
          BY <3>2
        <4>2. CASE b # a
          BY <4>1, <4>2 DEF AgentStep, StartAgent, Registered, BootFails,
             RegisterFails, HeartbeatReplied, HeartbeatFails, WakeUp, IInv,
             TypeOK
        <4>3. CASE b = a
          <5>1. HeartbeatFails(a) \/ HeartbeatReplied(a) \/ Registered(a)
            BY <2>1, <4>1, <4>3 DEF AgentStep, StartAgent, BootFails,
               RegisterFails, WakeUp
          <5>2. HeartbeatReplied(a) => agent'[a].pc = "sleep"
            BY <2>1 DEF HeartbeatReplied, IInv, TypeOK, AgentState
          <5>3. Registered(a) => agent'[a].pc = "heartbeat"
            BY <2>1 DEF Registered, IInv, TypeOK, AgentState
          <5> QED BY <5>1, <5>2, <5>3
        <4> QED BY <4>2, <4>3
      <3>3. CASE MonitorTick \/ MonitorSweep \/ CrashCoordinator
                 \/ RestartCoordinator
        BY <3>3 DEF MonitorTick, MonitorSweep, CrashCoordinator,
           RestartCoordinator
      <3>4. CASE Tick
        <4>1. agent' = [b \in Agents |->
                          IF agent[b].pc = "sleep"
                          THEN [agent[b] EXCEPT !.timer = @ - 1] ELSE agent[b]]
          BY <3>4 DEF Tick
        <4> QED BY <4>1
      <3> QED BY <3>1, <3>2, <3>3, <3>4 DEF Next
    <2> QED BY <2>2, <2>3
  <1> QED BY <1>1, InductiveInvariant, PTL DEF Spec, NeverGivesUpOnHeartbeat

-----------------------------------------------------------------------------
(* Timing without faults                                                     *)

\* A node's entry is refreshed at the latest two calls and one interval after
\* its last heartbeat was handled: the reply, the wait, and the next request.
CallsFit == 2 * CallTime + HeartbeatEvery <= SuspectAfter

\* In registry reg, node n is Healthy and was refreshed `limit' ago or later.
Fresh(reg, n, limit) ==
  n \in DOMAIN reg /\ reg[n].status = "Healthy" /\ reg[n].age <= limit

\* How old the entry of an agent can be, from where the agent and its call are.
InTime(reg, g, c) ==
  /\ ~c.delayed
  /\ \/ g.pc = "off" /\ c = NoCall
     \/ g.pc = "boot" /\ c.kind = "register" /\ c.stage \in {"sent", "stamped"}
     \/ /\ g.pc = "boot" /\ c.kind = "register" /\ c.stage = "replied"
        /\ Fresh(reg, c.id, c.age)
     \/ /\ g.pc = "heartbeat" /\ c.kind = "heartbeat" /\ c.stage = "sent"
        /\ g.client /\ c.id = g.loop_id
        /\ Fresh(reg, g.loop_id, CallTime + HeartbeatEvery + c.age)
     \/ /\ g.pc = "heartbeat" /\ c.kind = "heartbeat" /\ c.stage = "replied"
        /\ g.client /\ Fresh(reg, g.loop_id, c.age)
     \/ /\ g.pc = "sleep" /\ c = NoCall /\ g.client /\ g.timer <= HeartbeatEvery
        /\ Fresh(reg, g.loop_id, CallTime + HeartbeatEvery - g.timer)

AllInTime == up /\ \A a \in Agents : InTime(nodes, agent[a], call[a])

WellTimed == faults = 0 => AllInTime

\* The registry `new' has every node that was heard from in time in `reg', at
\* least as fresh.
KeepsFresh(reg, new) ==
  \A n \in DOMAIN reg :
    reg[n].status = "Healthy" /\ reg[n].age <= SuspectAfter =>
      /\ n \in DOMAIN new
      /\ new[n].status = "Healthy" /\ new[n].age <= reg[n].age

Entries(reg) == \A n \in DOMAIN reg : reg[n] \in NodeEntry

LEMMA FreshKept ==
  ASSUME NEW reg, NEW new, Entries(reg), Entries(new), KeepsFresh(reg, new),
         NEW n, NEW limit \in Int, limit <= SuspectAfter, Fresh(reg, n, limit)
  PROVE  Fresh(new, n, limit)
  BY Numbers DEF Entries, KeepsFresh, Fresh, NodeEntry

LEMMA InTimeKept ==
  ASSUME CallsFit, NEW reg, NEW new, Entries(reg), Entries(new),
         KeepsFresh(reg, new), NEW g \in AgentState, NEW c \in CallState,
         InTime(reg, g, c)
  PROVE  InTime(new, g, c)
  <1>1. /\ c.age \in Nat /\ c.age <= CallTime
        /\ g.timer \in Nat
    BY Numbers DEF CallState, AgentState
  <1>2. /\ c.age \in Int /\ c.age <= SuspectAfter
        /\ CallTime + HeartbeatEvery + c.age \in Int
        /\ CallTime + HeartbeatEvery + c.age <= SuspectAfter
        /\ CallTime + HeartbeatEvery - g.timer \in Int
        /\ CallTime + HeartbeatEvery - g.timer <= SuspectAfter
    BY <1>1, Numbers DEF CallsFit
  <1> QED BY <1>2, FreshKept DEF InTime

\* One agent and its call change, and the registry keeps the others' entries.
LEMMA OneInTime ==
  ASSUME CallsFit, IInv, Entries(nodes'), KeepsFresh(nodes, nodes'), AllInTime,
         NEW a \in Agents, NEW g, NEW c, InTime(nodes', g, c), up' = up,
         agent' = [agent EXCEPT ![a] = g], call' = [call EXCEPT ![a] = c]
  PROVE  AllInTime'
  <1>1. /\ agent \in [Agents -> AgentState] /\ call \in [Agents -> CallState]
        /\ Entries(nodes)
    BY DEF IInv, TypeOK, Entries
  <1>2. ASSUME NEW b \in Agents PROVE InTime(nodes', agent'[b], call'[b])
    <2>1. CASE b = a
      BY <1>1, <2>1
    <2>2. CASE b # a
      <3>1. /\ agent'[b] = agent[b] /\ call'[b] = call[b]
            /\ agent[b] \in AgentState /\ call[b] \in CallState
            /\ InTime(nodes, agent[b], call[b])
        BY <1>1, <2>2 DEF AllInTime
      <3>2. InTime(nodes', agent[b], call[b])
        BY <1>1, <3>1, InTimeKept
      <3> QED BY <3>1, <3>2
    <2> QED BY <2>1, <2>2
  <1> QED BY <1>2 DEF AllInTime

LEMMA UnchangedKeepsFresh ==
  ASSUME IInv, nodes' = nodes
  PROVE  Entries(nodes') /\ KeepsFresh(nodes, nodes')
  BY DEF IInv, TypeOK, Entries, KeepsFresh, NodeEntry

-----------------------------------------------------------------------------
LEMMA HandlersInTime ==
  ASSUME CallsFit, IInv, IInv', AllInTime, NEW a \in Agents, Handler(a)
  PROVE  AllInTime'
  <1> DEFINE g == agent[a]
             r == call[a]
  <1>0. /\ g \in AgentState /\ r \in CallState /\ InTime(nodes, g, r)
        /\ agent \in [Agents -> AgentState] /\ call \in [Agents -> CallState]
        /\ Entries(nodes')
    BY DEF IInv, TypeOK, AllInTime, Entries
  <1>00. agent' = agent /\ up' = up /\ agent' = [agent EXCEPT ![a] = g]
    BY <1>0 DEF Handler, StampRegistration, HandleRegister, HandleHeartbeat
  <1>1. CASE StampRegistration(a)
    <2> DEFINE c == [r EXCEPT !.stage = "stamped", !.stamp = 0]
    <2>1. /\ c.kind = "register" /\ c.stage = "stamped" /\ ~c.delayed
          /\ r.kind = "register" /\ r.stage = "sent"
      BY <1>0, <1>1 DEF StampRegistration, Arrived, CallState
    <2>2. g.pc = "boot"
      BY <1>0, <2>1 DEF InTime, NoCall
    <2>3. InTime(nodes', g, c)
      BY <2>1, <2>2 DEF InTime
    <2>4. nodes' = nodes /\ call' = [call EXCEPT ![a] = c]
      BY <1>1 DEF StampRegistration
    <2> HIDE DEF c
    <2> QED BY <1>00, <2>3, <2>4, UnchangedKeepsFresh, OneInTime
  <1>2. CASE HandleRegister(a)
    <2> DEFINE id == issued + 1
               c == [r EXCEPT !.stage = "replied", !.id = id, !.stamp = 0]
    <2>1. /\ c.kind = "register" /\ c.stage = "replied" /\ ~c.delayed
          /\ c.id = id /\ c.age = r.age
          /\ r.kind = "register" /\ r.stage = "stamped"
      BY <1>0, <1>2 DEF HandleRegister, Arrived, CallState
    <2>2. g.pc = "boot"
      BY <1>0, <2>1 DEF InTime, NoCall
    <2>3. /\ id \in DOMAIN nodes'
          /\ nodes'[id] = [status |-> "Healthy", age |-> r.stamp]
          /\ \A n \in DOMAIN nodes : n # id => n \in DOMAIN nodes' /\ nodes'[n] = nodes[n]
      BY <1>2 DEF HandleRegister
    <2>4. r.stamp <= r.age
      BY DEF IInv, CallsMatch
    <2>5. Fresh(nodes', c.id, c.age)
      BY <2>1, <2>3, <2>4 DEF Fresh
    <2>6. InTime(nodes', g, c)
      BY <2>1, <2>2, <2>5 DEF InTime
    <2>7. \A n \in DOMAIN nodes : n # id /\ nodes[n].age \in Nat
      BY DEF IInv, TypeOK, NodeEntry
    <2>8. KeepsFresh(nodes, nodes')
      BY <2>3, <2>7 DEF KeepsFresh
    <2>9. call' = [call EXCEPT ![a] = c]
      BY <1>2 DEF HandleRegister
    <2> HIDE DEF c
    <2> QED BY <1>0, <1>00, <2>6, <2>8, <2>9, OneInTime
  <1>3. CASE HandleHeartbeat(a)
    <2> DEFINE c == [r EXCEPT !.stage = "replied"]
    <2>1. /\ c.kind = "heartbeat" /\ c.stage = "replied" /\ ~c.delayed
          /\ c.age = r.age /\ r.age \in Nat
          /\ r.kind = "heartbeat" /\ r.stage = "sent"
      BY <1>0, <1>3, Numbers DEF HandleHeartbeat, Arrived, CallState
    <2>2. g.pc = "heartbeat" /\ g.client /\ r.id = g.loop_id
          /\ g.loop_id \in DOMAIN nodes
      BY <1>0, <2>1 DEF InTime, NoCall, Fresh
    <2>3. /\ DOMAIN nodes' = DOMAIN nodes
          /\ nodes'[r.id] = [status |-> "Healthy", age |-> 0]
          /\ \A n \in DOMAIN nodes :
               \/ nodes'[n] = nodes[n]
               \/ nodes'[n] = [status |-> "Healthy", age |-> 0]
      BY <1>3, <2>2 DEF HandleHeartbeat, Refreshed
    <2>4. Fresh(nodes', g.loop_id, c.age)
      BY <2>1, <2>2, <2>3 DEF Fresh
    <2>5. InTime(nodes', g, c)
      BY <2>1, <2>2, <2>4 DEF InTime
    <2>6. \A n \in DOMAIN nodes : nodes[n].age \in Nat
      BY DEF IInv, TypeOK, NodeEntry
    <2>7. KeepsFresh(nodes, nodes')
      BY <2>3, <2>6 DEF KeepsFresh
    <2>8. call' = [call EXCEPT ![a] = c]
      BY <1>0, <1>3 DEF HandleHeartbeat
    <2> HIDE DEF c
    <2> QED BY <1>0, <1>00, <2>5, <2>7, <2>8, OneInTime
  <1> QED BY <1>1, <1>2, <1>3 DEF Handler

\* What an agent that was in time gets is never an error.
LEMMA AgentsInTime ==
  ASSUME CallsFit, IInv, AllInTime, NEW a \in Agents, AgentStep(a) \/ StartAgent(a)
  PROVE  AllInTime'
  <1> DEFINE g == agent[a]
             r == call[a]
  <1>0. /\ g \in AgentState /\ r \in CallState /\ InTime(nodes, g, r) /\ up
        /\ agent \in [Agents -> AgentState] /\ call \in [Agents -> CallState]
        /\ r.age \in Nat /\ r.age <= CallTime /\ Entries(nodes)
    BY Numbers DEF IInv, TypeOK, AllInTime, CallState, Entries
  <1>00. /\ nodes' = nodes /\ up' = up
         /\ Entries(nodes') /\ KeepsFresh(nodes, nodes')
    <2>1. nodes' = nodes /\ up' = up
      BY DEF AgentStep, StartAgent, Registered, BootFails, RegisterFails,
             HeartbeatReplied, HeartbeatFails, WakeUp
    <2> QED BY <2>1, UnchangedKeepsFresh
  <1>1. ~BootFails(a) /\ ~RegisterFails(a) /\ ~HeartbeatFails(a)
    <2>1. r = NoCall \/ r.stage \in {"sent", "stamped", "replied"}
      BY <1>0 DEF InTime
    <2>2. r.stage # "broken"
      BY <2>1 DEF NoCall
    <2> QED BY <2>2 DEF BootFails, RegisterFails, HeartbeatFails
  <1>2. CASE Registered(a)
    <2>1. g.pc = "boot" /\ Fresh(nodes, r.id, r.age)
      BY <1>0, <1>2 DEF Registered, InTime, NoCall
    <2> DEFINE h == [g EXCEPT !.pc = "heartbeat", !.node_id = r.id,
                              !.loop_id = r.id, !.client = TRUE, !.attempts = 0]
               c == NewCall("heartbeat", r.id)
    <2>2. /\ agent' = [agent EXCEPT ![a] = h] /\ call' = [call EXCEPT ![a] = c]
      BY <1>2, <2>1 DEF Registered, AttemptsAfterRegister
    <2>3. h.pc = "heartbeat" /\ h.loop_id = r.id /\ h.client
      BY <1>0 DEF AgentState
    <2>4. /\ c.kind = "heartbeat" /\ c.stage = "sent" /\ c.id = r.id
          /\ c.age = 0 /\ ~c.delayed
      BY <1>0 DEF NewCall
    <2>5. r.id \in DOMAIN nodes => nodes[r.id].age \in Nat
      BY <1>0 DEF Entries, NodeEntry
    <2>6. Fresh(nodes, h.loop_id, CallTime + HeartbeatEvery + c.age)
      <3> HIDE DEF h, c
      <3> QED BY <1>0, <2>1, <2>3, <2>4, <2>5, Numbers DEF Fresh
    <2>7. InTime(nodes', h, c)
      <3> HIDE DEF h, c
      <3> QED BY <1>00, <2>3, <2>4, <2>6 DEF InTime
    <2> HIDE DEF h, c
    <2> QED BY <1>00, <2>2, <2>7, OneInTime
  <1>3. CASE HeartbeatReplied(a)
    <2>1. g.pc = "heartbeat" /\ g.client /\ Fresh(nodes, g.loop_id, r.age)
      BY <1>0, <1>3 DEF HeartbeatReplied, InTime, NoCall
    <2> DEFINE h == [g EXCEPT !.pc = "sleep", !.attempts = 0,
                              !.timer = HeartbeatEvery]
    <2>2. /\ agent' = [agent EXCEPT ![a] = h] /\ call' = [call EXCEPT ![a] = NoCall]
      BY <1>3 DEF HeartbeatReplied
    <2>3. /\ h.pc = "sleep" /\ h.loop_id = g.loop_id /\ h.client
          /\ h.timer = HeartbeatEvery
      BY <1>0, <2>1 DEF AgentState
    <2>4. g.loop_id \in DOMAIN nodes => nodes[g.loop_id].age \in Nat
      BY <1>0 DEF Entries, NodeEntry
    <2>5. Fresh(nodes, h.loop_id, CallTime + HeartbeatEvery - h.timer)
      <3> HIDE DEF h
      <3> QED BY <1>0, <2>1, <2>3, <2>4, Numbers DEF Fresh
    <2>6. InTime(nodes', h, NoCall)
      <3>1. ~NoCall.delayed
        BY DEF NoCall
      <3> HIDE DEF h
      <3> QED BY <1>00, <2>3, <2>5, <3>1, Numbers DEF InTime
    <2> HIDE DEF h
    <2> QED BY <1>00, <2>2, <2>6, OneInTime
  <1>4. CASE WakeUp(a)
    <2>1. /\ g.pc = "sleep" /\ g.timer = 0 /\ g.client
          /\ Fresh(nodes, g.loop_id, CallTime + HeartbeatEvery - g.timer)
      BY <1>0, <1>4 DEF WakeUp, InTime
    <2> DEFINE h == [g EXCEPT !.pc = "heartbeat"]
               c == NewCall("heartbeat", g.loop_id)
    <2>2. /\ agent' = [agent EXCEPT ![a] = h] /\ call' = [call EXCEPT ![a] = c]
      BY <1>4, <2>1 DEF WakeUp
    <2>3. h.pc = "heartbeat" /\ h.loop_id = g.loop_id /\ h.client
      BY <1>0, <2>1 DEF AgentState
    <2>4. /\ c.kind = "heartbeat" /\ c.stage = "sent" /\ c.id = g.loop_id
          /\ c.age = 0 /\ ~c.delayed
      BY <1>0 DEF NewCall
    <2>5. Fresh(nodes, h.loop_id, CallTime + HeartbeatEvery + c.age)
      <3> HIDE DEF h, c
      <3> QED BY <2>1, <2>3, <2>4, Numbers DEF Fresh
    <2>6. InTime(nodes', h, c)
      <3> HIDE DEF h, c
      <3> QED BY <1>00, <2>3, <2>4, <2>5 DEF InTime
    <2> HIDE DEF h, c
    <2> QED BY <1>00, <2>2, <2>6, OneInTime
  <1>5. CASE StartAgent(a)
    <2> DEFINE h == [AgentInit EXCEPT !.pc = "boot"]
               c == NewCall("register", NoId)
    <2>1. /\ agent' = [agent EXCEPT ![a] = h] /\ call' = [call EXCEPT ![a] = c]
      BY <1>5 DEF StartAgent
    <2>2. InTime(nodes', h, c)
      BY <1>0 DEF InTime, NewCall, AgentInit
    <2> HIDE DEF h, c
    <2> QED BY <1>00, <2>1, <2>2, OneInTime
  <1> QED BY <1>1, <1>2, <1>3, <1>4, <1>5 DEF AgentStep

\* The sweep spares whoever was heard from in time.
LEMMA SweepInTime ==
  ASSUME CallsFit, IInv, IInv', AllInTime, MonitorSweep
  PROVE  AllInTime'
  <1>1. SinceTick \in Nat
    BY IInvParts, Lateness, Numbers
  <1>2. ASSUME NEW n \in DOMAIN nodes, nodes[n].age <= SuspectAfter
        PROVE  ~Expired(n) /\ Swept(n) = nodes[n]
    <2>1. nodes[n].age \in Nat
      BY DEF IInv, TypeOK, NodeEntry
    <2>2. ~(SilentFor(n) > SuspectAfter) /\ ~(SilentFor(n) > RemoveAfter)
      BY <1>1, <1>2, <2>1, Numbers DEF SilentFor
    <2> QED BY <2>2 DEF Expired, Swept
  <1>3. KeepsFresh(nodes, nodes')
    <2> SUFFICES ASSUME NEW n \in DOMAIN nodes, nodes[n].status = "Healthy",
                        nodes[n].age <= SuspectAfter
                 PROVE  n \in DOMAIN nodes' /\ nodes'[n] = nodes[n]
                        /\ nodes[n].age <= nodes[n].age
      BY DEF KeepsFresh
    <2>1. nodes[n].age \in Nat
      BY DEF IInv, TypeOK, NodeEntry
    <2> QED BY <1>2, <2>1 DEF MonitorSweep
  <1>4. Entries(nodes) /\ Entries(nodes')
    BY DEF IInv, TypeOK, Entries
  <1>5. \A a \in Agents : agent[a] \in AgentState /\ call[a] \in CallState
    BY DEF IInv, TypeOK
  <1>6. \A a \in Agents : InTime(nodes', agent[a], call[a])
    BY <1>3, <1>4, <1>5, InTimeKept DEF AllInTime
  <1> QED BY <1>6 DEF AllInTime, MonitorSweep

LEMMA TickInTime ==
  ASSUME IInv, AllInTime, Tick
  PROVE  AllInTime'
  <1>1. ASSUME NEW n, NEW limit \in Int, Fresh(nodes, n, limit)
        PROVE  Fresh(nodes', n, limit + 1)
    <2>1. nodes[n] \in NodeEntry
      BY <1>1 DEF Fresh, IInv, TypeOK
    <2>2. n \in DOMAIN nodes' /\ nodes'[n] = [nodes[n] EXCEPT !.age = nodes[n].age + 1]
      BY <1>1 DEF Fresh, Tick
    <2> QED BY <1>1, <2>1, <2>2 DEF Fresh, NodeEntry
  <1>2. ASSUME NEW a \in Agents PROVE InTime(nodes', agent'[a], call'[a])
    <2> DEFINE g == agent[a]
               r == call[a]
    <2>0. /\ g \in AgentState /\ r \in CallState /\ InTime(nodes, g, r)
          /\ r.age \in Nat /\ g.timer \in Nat /\ ~r.delayed
      BY Numbers DEF IInv, TypeOK, AllInTime, CallState, AgentState, InTime
    <2>1. ASSUME r = NoCall PROVE call'[a] = NoCall
      <3>1. r.stage = "none"
        BY <2>1 DEF NoCall
      <3>2. call'[a] = r
        BY <3>1 DEF Tick
      <3> QED BY <2>1, <3>2
    <2>2. ASSUME g.pc # "sleep" PROVE agent'[a] = g
      BY <2>2 DEF Tick
    <2>3. ASSUME r.stage # "none"
          PROVE  /\ call'[a].kind = r.kind /\ call'[a].stage = r.stage
                 /\ call'[a].id = r.id /\ call'[a].age = r.age + 1
                 /\ ~call'[a].delayed
      <3> DEFINE later == IF r.stage = "stamped" THEN r.stamp + 1 ELSE r.stamp
      <3>1. call'[a] = [r EXCEPT !.age = r.age + 1, !.stamp = later]
        BY <2>0, <2>3 DEF Tick
      <3> HIDE DEF later
      <3> QED BY <2>0, <3>1 DEF CallState
    <2>4. CASE g.pc = "off" /\ r = NoCall
      BY <2>1, <2>2, <2>4 DEF InTime, NoCall
    <2>5. CASE g.pc = "boot" /\ r.kind = "register" /\ r.stage \in {"sent", "stamped"}
      BY <2>2, <2>3, <2>5 DEF InTime
    <2>6. CASE g.pc = "boot" /\ r.kind = "register" /\ r.stage = "replied"
               /\ Fresh(nodes, r.id, r.age)
      <3>1. Fresh(nodes', r.id, r.age + 1)
        BY <1>1, <2>0, <2>6
      <3> QED BY <2>2, <2>3, <2>6, <3>1 DEF InTime
    <2>7. CASE /\ g.pc = "heartbeat" /\ r.kind = "heartbeat" /\ r.stage = "sent"
               /\ g.client /\ r.id = g.loop_id
               /\ Fresh(nodes, g.loop_id, CallTime + HeartbeatEvery + r.age)
      <3>1. /\ CallTime + HeartbeatEvery + r.age \in Int
            /\ (CallTime + HeartbeatEvery + r.age) + 1
                 = CallTime + HeartbeatEvery + (r.age + 1)
        BY <2>0, Numbers
      <3>2. Fresh(nodes', g.loop_id, CallTime + HeartbeatEvery + (r.age + 1))
        BY <1>1, <2>7, <3>1
      <3> QED BY <2>2, <2>3, <2>7, <3>2 DEF InTime
    <2>8. CASE /\ g.pc = "heartbeat" /\ r.kind = "heartbeat" /\ r.stage = "replied"
               /\ g.client /\ Fresh(nodes, g.loop_id, r.age)
      <3>1. Fresh(nodes', g.loop_id, r.age + 1)
        BY <1>1, <2>0, <2>8
      <3> QED BY <2>2, <2>3, <2>8, <3>1 DEF InTime
    <2>9. CASE /\ g.pc = "sleep" /\ r = NoCall /\ g.client
               /\ g.timer <= HeartbeatEvery
               /\ Fresh(nodes, g.loop_id, CallTime + HeartbeatEvery - g.timer)
      <3> DEFINE h == agent'[a]
      <3>1. h = [g EXCEPT !.timer = g.timer - 1]
        BY <2>9 DEF Tick
      <3>2. /\ h.pc = "sleep" /\ h.client /\ h.loop_id = g.loop_id
            /\ h.timer = g.timer - 1
        BY <2>0, <2>9, <3>1 DEF AgentState
      <3>3. /\ CallTime + HeartbeatEvery - g.timer \in Int
            /\ (CallTime + HeartbeatEvery - g.timer) + 1
                 = CallTime + HeartbeatEvery - h.timer
            /\ h.timer <= HeartbeatEvery
        BY <2>0, <2>9, <3>2, Numbers
      <3>4. Fresh(nodes', g.loop_id, CallTime + HeartbeatEvery - h.timer)
        BY <1>1, <2>9, <3>3
      <3>5. ~NoCall.delayed
        BY DEF NoCall
      <3> QED BY <2>1, <2>9, <3>2, <3>3, <3>4, <3>5 DEF InTime
    <2> QED BY <2>0, <2>4, <2>5, <2>6, <2>7, <2>8, <2>9 DEF InTime
  <1> QED BY <1>2 DEF AllInTime, Tick

LEMMA NextWellTimed ==
  ASSUME CallsFit, IInv, IInv', WellTimed, [Next]_vars
  PROVE  WellTimed'
  <1> SUFFICES ASSUME faults' = 0 PROVE AllInTime'
    BY DEF WellTimed
  <1>0. faults \in Nat
    BY Numbers DEF IInv, TypeOK
  <1>1. ~Fault
    BY <1>0 DEF Fault
  <1>2. CASE UNCHANGED vars
    BY <1>2 DEF vars, WellTimed, AllInTime
  <1>3. CASE Next
    <2>1. faults = 0 /\ AllInTime
      <3>1. faults' = faults
        BY <1>1, <1>3 DEF Next, Handler, AgentStep, FaultStep, StampRegistration,
           HandleRegister, HandleHeartbeat, StartAgent, Registered, BootFails,
           RegisterFails, HeartbeatReplied, HeartbeatFails, WakeUp,
           BreakConnection, DelayCall, ArriveLate, KillAgent, MonitorTick,
           MonitorSweep, CrashCoordinator, RestartCoordinator, Tick
      <3> QED BY <3>1 DEF WellTimed
    <2>2. ASSUME NEW a \in Agents PROVE ~FaultStep(a)
      BY <1>1, <2>1 DEF FaultStep, BreakConnection, DelayCall, ArriveLate, KillAgent,
                        AllInTime, InTime
    <2>3. ~CrashCoordinator /\ ~RestartCoordinator
      BY <1>1, <2>1 DEF CrashCoordinator, RestartCoordinator, AllInTime
    <2>4. CASE MonitorTick
      BY <2>1, <2>4 DEF MonitorTick, AllInTime
    <2> QED BY <1>3, <2>1, <2>2, <2>3, <2>4, HandlersInTime, AgentsInTime,
               SweepInTime, TickInTime DEF Next
  <1> QED BY <1>2, <1>3

(* NoFalseSuspicion: as long as nothing breaks, is delayed or crashes, and two
   calls and a heartbeat interval fit into the suspicion threshold, no
   interleaving of calls, sweeps and clocks shows a running agent Suspect or
   loses it.  With the code's 2 s and 10 s, calls may take up to 4 s each. *)
THEOREM NoSuspicionWithoutFaults ==
  ASSUME 2 * CallTime + HeartbeatEvery <= SuspectAfter
  PROVE  Spec => []NoFalseSuspicion
  <1>0. CallsFit
    BY DEF CallsFit
  <1>1. Init => WellTimed
    BY DEF Init, WellTimed, AllInTime, InTime, AgentInit, NoCall
  <1>2. IInv /\ WellTimed /\ [Next]_vars /\ IInv' => WellTimed'
    BY <1>0, NextWellTimed
  <1>3. IInv /\ WellTimed => NoFalseSuspicion
    <2> SUFFICES ASSUME IInv, AllInTime, NEW a \in Agents,
                        agent[a].pc \in {"heartbeat", "sleep"}
                 PROVE  \E limit : Fresh(nodes, agent[a].loop_id, limit)
      BY DEF WellTimed, NoFalseSuspicion, Fresh
    <2> QED BY DEF AllInTime, InTime
  <1> QED BY <1>1, <1>2, <1>3, InductiveInvariant, PTL DEF Spec

-----------------------------------------------------------------------------
(* The registry of leases                                                    *)

LeaseVars == <<nodes, issued, up>>

IsRegistry == nodes \in [DOMAIN nodes -> NodeEntry]

LEMMA RegistryFromEntries ==
  ASSUME IInv', nodes' = [n \in DOMAIN nodes' |-> nodes'[n]]
  PROVE  IsRegistry'
  BY DEF IInv, TypeOK, IsRegistry

LEMMA GrantStep ==
  ASSUME IInv, NEW a \in Agents, HandleRegister(a)
  PROVE  Leases!Grant
  <1>1. call[a].stamp \in 0..CallTime
    BY DEF IInv, TypeOK, CallState
  <1> QED BY <1>1 DEF HandleRegister, Arrived, Leases!Grant

LEMMA RenewStep ==
  ASSUME IInv, IsRegistry, NEW a \in Agents, HandleHeartbeat(a)
  PROVE  Leases!Next \/ UNCHANGED LeaseVars
  <1> DEFINE n == call[a].id
  <1>1. /\ nodes' = [m \in DOMAIN nodes |->
                       IF m = n THEN [status |-> "Healthy", age |-> 0] ELSE nodes[m]]
        /\ up /\ UNCHANGED <<issued, up>>
    BY DEF HandleHeartbeat, Arrived, Refreshed
  <1> HIDE DEF n
  <1>2. CASE n \in DOMAIN nodes
    <2>1. nodes' = [nodes EXCEPT ![n] = [status |-> "Healthy", age |-> 0]]
      BY <1>1, <1>2 DEF IsRegistry
    <2> QED BY <1>1, <1>2, <2>1 DEF Leases!Renew, Leases!Next
  <1>3. CASE n \notin DOMAIN nodes
    BY <1>1, <1>3 DEF IsRegistry, LeaseVars
  <1> QED BY <1>2, <1>3

\* Whoever the sweep marks or removes has been silent at least as long as the
\* monitor's clock, which is older than its entry's, says.
LEMMA SweepStep ==
  ASSUME IInv, MonitorSweep
  PROVE  Leases!Sweep
  <1> DEFINE removed == {n \in DOMAIN nodes : Expired(n)}
             suspected == {n \in DOMAIN nodes :
                             SilentFor(n) > SuspectAfter /\ nodes[n].status = "Healthy"}
  <1>1. SinceTick \in Nat
    BY IInvParts, Lateness, Numbers
  <1>2. \A n \in DOMAIN nodes : nodes[n].age \in Nat
    BY DEF IInv, TypeOK, NodeEntry
  <1>3. removed \in SUBSET Leases!Silent(RemoveAfter)
    BY <1>1, <1>2, Numbers DEF Leases!Silent, Expired, SilentFor
  <1>4. suspected \in SUBSET Leases!Silent(SuspectAfter)
    BY <1>1, <1>2, Numbers DEF Leases!Silent, SilentFor
  <1>5. nodes' = [n \in DOMAIN nodes \ removed |->
                    IF n \in suspected
                    THEN [nodes[n] EXCEPT !.status = "Suspect"] ELSE nodes[n]]
    <2>1. \A n \in DOMAIN nodes :
            Swept(n) = IF n \in suspected
                       THEN [nodes[n] EXCEPT !.status = "Suspect"] ELSE nodes[n]
      BY DEF Swept
    <2>2. {m \in DOMAIN nodes : ~Expired(m)} = DOMAIN nodes \ removed
      OBVIOUS
    <2>3. nodes' = [n \in DOMAIN nodes \ removed |-> Swept(n)]
      BY <2>2 DEF MonitorSweep
    <2> HIDE DEF removed, suspected
    <2> QED BY <2>1, <2>3
  <1>6. up /\ UNCHANGED <<issued, up>>
    BY DEF MonitorSweep
  <1> HIDE DEF removed, suspected
  <1> QED BY <1>3, <1>4, <1>5, <1>6 DEF Leases!Sweep

\* Time does not pass an entry by that is due by the grace: the next sweep is
\* less than a period away, or waits for the lock at most LockDelay.
LEMMA PassStep ==
  ASSUME IInv, IInv', Tick
  PROVE  Leases!Pass
  <1>1. ASSUME NEW n \in DOMAIN nodes
        PROVE  /\ nodes[n].age < RemoveAfter + (MonitorPeriod + LockDelay)
               /\ nodes[n].status = "Healthy" =>
                    nodes[n].age < SuspectAfter + (MonitorPeriod + LockDelay)
    <2>1. up
      BY DEF IInv, DownIsEmpty
    <2>2. /\ nodes[n] \in NodeEntry
          /\ n \in DOMAIN nodes' /\ nodes'[n] = [nodes[n] EXCEPT !.age = nodes[n].age + 1]
      BY DEF IInv, TypeOK, Tick
    <2>3. /\ nodes[n].age \in Nat /\ nodes'[n].age = nodes[n].age + 1
          /\ nodes'[n].status = nodes[n].status
      BY <2>2 DEF NodeEntry
    <2>4. /\ monitor.pc \in {"idle", "sweep"} /\ monitor.due \in 0..MonitorPeriod
          /\ monitor'.pc = monitor.pc /\ monitor'.due = monitor.due - 1
      BY <2>1, Numbers DEF IInv, TypeOK, Tick
    <2>5. monitor'.due \in 0..MonitorPeriod
      BY DEF IInv, TypeOK
    <2>6. SinceTick' \in Int
          /\ SinceTick' + Slack' <= MonitorPeriod + LockDelay /\ Slack' \in Nat
      <3>1. CASE monitor.pc = "sweep"
        <4>1. SinceTick < LockDelay
          BY <2>1, <3>1 DEF Tick, MonitorOnTime
        <4> QED BY <2>4, <2>5, <3>1, <4>1, Numbers DEF SinceTick, Slack
      <3>2. CASE monitor.pc = "idle"
        BY <2>4, <2>5, <3>2, Numbers DEF SinceTick, Slack
      <3> QED BY <2>4, <3>1, <3>2
    <2>7. /\ nodes'[n].age <= RemoveAfter + SinceTick' + Slack'
          /\ nodes'[n].status = "Healthy" =>
               nodes'[n].age <= SuspectAfter + SinceTick' + Slack'
      BY <2>2 DEF IInv, BoundedStaleness, Slack
    <2>8. PICK since \in Int, slack \in Nat :
            /\ since + slack <= MonitorPeriod + LockDelay
            /\ nodes'[n].age <= RemoveAfter + since + slack
            /\ nodes'[n].status = "Healthy" =>
                 nodes'[n].age <= SuspectAfter + since + slack
      BY <2>6, <2>7
    <2> QED BY <2>3, <2>8, Numbers
  <1> QED BY <1>1 DEF Leases!Pass, Tick

LEMMA CrashStep ==
  ASSUME CrashCoordinator PROVE Leases!Stop
  BY DEF CrashCoordinator, Leases!Stop

LEMMA RestartStep ==
  ASSUME RestartCoordinator PROVE Leases!Start
  BY DEF RestartCoordinator, Leases!Start

\* Every step keeps a registry of entries, and is a step of the leases or
\* leaves them alone.
LEMMA NextIsLeaseStep ==
  ASSUME IInv, IInv', IsRegistry, [Next]_vars
  PROVE  IsRegistry' /\ (Leases!Next \/ UNCHANGED LeaseVars)
  <1>1. ASSUME UNCHANGED LeaseVars PROVE IsRegistry'
    BY <1>1 DEF LeaseVars, IsRegistry
  <1>2. CASE \E a \in Agents : StampRegistration(a) \/ AgentStep(a)
                                 \/ FaultStep(a) \/ StartAgent(a)
    <2>1. UNCHANGED LeaseVars
      BY <1>2 DEF LeaseVars, StampRegistration, AgentStep, FaultStep, StartAgent,
         Registered, BootFails, RegisterFails, HeartbeatReplied, HeartbeatFails,
         WakeUp, BreakConnection, DelayCall, ArriveLate, KillAgent
    <2> QED BY <1>1, <2>1
  <1>3. CASE \E a \in Agents : HandleRegister(a)
    <2>0. nodes' = [n \in DOMAIN nodes' |-> nodes'[n]]
      BY <1>3 DEF HandleRegister
    <2>1. IsRegistry'
      BY <2>0, RegistryFromEntries
    <2> QED BY <1>3, <2>1, GrantStep DEF Leases!Next
  <1>4. CASE \E a \in Agents : HandleHeartbeat(a)
    <2>0. nodes' = [n \in DOMAIN nodes' |-> nodes'[n]]
      BY <1>4 DEF HandleHeartbeat
    <2>1. IsRegistry'
      BY <2>0, RegistryFromEntries
    <2> QED BY <1>4, <2>1, RenewStep
  <1>5. CASE MonitorTick
    BY <1>1, <1>5 DEF MonitorTick, LeaseVars
  <1>6. CASE MonitorSweep
    <2>0. nodes' = [n \in DOMAIN nodes' |-> nodes'[n]]
      BY <1>6 DEF MonitorSweep
    <2>1. IsRegistry'
      BY <2>0, RegistryFromEntries
    <2> QED BY <1>6, <2>1, SweepStep DEF Leases!Next
  <1>7. CASE CrashCoordinator
    <2>0. nodes' = [n \in DOMAIN nodes' |-> nodes'[n]]
      BY <1>7 DEF CrashCoordinator
    <2>1. IsRegistry'
      BY <2>0, RegistryFromEntries
    <2> QED BY <1>7, <2>1, CrashStep DEF Leases!Next
  <1>8. CASE RestartCoordinator
    <2>1. IsRegistry'
      BY <1>8 DEF RestartCoordinator, IsRegistry
    <2> QED BY <1>8, <2>1, RestartStep DEF Leases!Next
  <1>9. CASE Tick
    <2>0. nodes' = [n \in DOMAIN nodes' |-> nodes'[n]]
      BY <1>9 DEF Tick
    <2>1. IsRegistry'
      BY <2>0, RegistryFromEntries
    <2> QED BY <1>9, <2>1, PassStep DEF Leases!Next
  <1>10. CASE UNCHANGED vars
    BY <1>1, <1>10 DEF vars, LeaseVars
  <1> QED BY <1>2, <1>3, <1>4, <1>5, <1>6, <1>7, <1>8, <1>9, <1>10 DEF Next, Handler

(* RegistryOfLeases: a registration that is handled is a grant, a heartbeat of
   a known node a renewal, the sweep takes back what is silent, a crash loses
   all; time passes only while every entry is within its threshold and the
   grace of a monitor period and the wait for the lock. *)
THEOREM ImplementsLeases == Spec => RegistryOfLeases
  <1>1. Init => Leases!Init /\ IsRegistry
    BY DEF Init, Leases!Init, IsRegistry
  <1>2. IInv /\ IInv' /\ IsRegistry /\ [Next]_vars =>
          IsRegistry' /\ [Leases!Next]_(Leases!vars)
    BY NextIsLeaseStep DEF LeaseVars, Leases!vars
  <1> QED BY <1>1, <1>2, InductiveInvariant, PTL
          DEF Spec, RegistryOfLeases, Leases!Spec

-----------------------------------------------------------------------------
(* Why an agent stays out (AutomaticReconnection): the id its loop sends     *)
(* heartbeats for never changes, and an id that has left the registry never  *)
(* comes back, whether or not the agent registers again under another one.   *)

\* Ids come from the coordinator: an agent in its loop has one, and so has an
\* agent whose registration is answered.
IdsIssued ==
  \A a \in Agents :
    /\ call[a].kind = "register" => agent[a].pc \in {"boot", "register"}
    /\ call[a].kind = "register" /\ call[a].stage = "replied" => call[a].id \in 1..issued
    /\ InLoop(a) => agent[a].loop_id \in 1..issued

LostForGood ==
  \A a \in Agents : InLoop(a) /\ InLoop(a)' =>
    /\ agent'[a].loop_id = agent[a].loop_id
    /\ agent[a].loop_id \notin DOMAIN nodes => agent'[a].loop_id \notin DOMAIN nodes'

\* The registry grows by ids that were never issued before.
LEMMA OnlyNewIdsEnter ==
  ASSUME TypeOK, [Next]_vars
  PROVE  /\ issued' \in Nat /\ issued <= issued'
         /\ \A n \in 1..issued : n \notin DOMAIN nodes => n \notin DOMAIN nodes'
  <1>1. CASE \E a \in Agents : HandleRegister(a)
    BY <1>1 DEF HandleRegister, TypeOK
  <1>2. CASE \E a \in Agents : HandleHeartbeat(a)
    BY <1>2 DEF HandleHeartbeat, TypeOK
  <1>3. CASE MonitorSweep \/ CrashCoordinator \/ Tick
    <2>1. DOMAIN nodes' \subseteq DOMAIN nodes /\ issued' = issued
      BY <1>3 DEF MonitorSweep, CrashCoordinator, Tick
    <2> QED BY <2>1 DEF TypeOK
  <1>4. CASE nodes' = nodes /\ issued' = issued
    BY <1>4 DEF TypeOK
  <1> QED
    BY <1>1, <1>2, <1>3, <1>4 DEF Next, Handler, AgentStep, FaultStep,
       StampRegistration, StartAgent, Registered, BootFails, RegisterFails,
       HeartbeatReplied, HeartbeatFails, WakeUp, BreakConnection, DelayCall,
       ArriveLate, KillAgent, MonitorTick, RestartCoordinator, vars

\* What IdsIssued and LostForGood ask of one agent that goes from g to h and
\* whose call becomes c.
OneKeepsId(g, h, c) ==
  LET loop == {"register", "heartbeat", "sleep"}
  IN /\ c.kind = "register" => h.pc \in {"boot", "register"}
     /\ c.kind = "register" /\ c.stage = "replied" => c.id \in 1..issued'
     /\ h.pc \in loop => h.loop_id \in 1..issued'
     /\ g.pc \in loop /\ h.pc \in loop => h.loop_id = g.loop_id

LEMMA OwnStepKeepsId ==
  ASSUME AgentInv, IdsIssued, issued \in Nat, issued' \in Nat, issued <= issued',
         NEW a \in Agents,
         Handler(a) \/ AgentStep(a) \/ FaultStep(a) \/ StartAgent(a)
  PROVE  OneKeepsId(agent[a], agent'[a], call'[a])
  <1> DEFINE g == agent[a]
             r == call[a]
  <1>0. /\ g \in AgentState /\ r \in CallState
        /\ agent \in [Agents -> AgentState] /\ call \in [Agents -> CallState]
        /\ r.kind = "heartbeat" => g.pc = "heartbeat"
        /\ r.kind = "register" => g.pc \in {"boot", "register"}
        /\ r.kind = "register" /\ r.stage = "replied" => r.id \in 1..issued
        /\ g.pc \in {"register", "heartbeat", "sleep"} => g.loop_id \in 1..issued
        /\ \A n \in 1..issued : n \in 1..issued'
    BY DEF AgentInv, CallsMatch, IdsIssued, InLoop
  <1>1. CASE StampRegistration(a) \/ HandleHeartbeat(a)
    <2>1. agent'[a] = g
      BY <1>1 DEF StampRegistration, HandleHeartbeat
    <2>2. CASE StampRegistration(a)
      <3>1. call'[a].kind = r.kind /\ call'[a].stage = "stamped"
        BY <1>0, <2>2 DEF StampRegistration, CallState
      <3> QED BY <1>0, <2>1, <3>1 DEF OneKeepsId
    <2>3. CASE HandleHeartbeat(a)
      <3>1. call'[a].kind = "heartbeat"
        BY <1>0, <2>3 DEF HandleHeartbeat, Arrived, CallState
      <3> QED BY <1>0, <2>1, <3>1 DEF OneKeepsId
    <2> QED BY <1>1, <2>2, <2>3
  <1>2. CASE HandleRegister(a)
    <2>1. agent'[a] = g /\ r.kind = "register" /\ issued' = issued + 1
      BY <1>2 DEF HandleRegister, Arrived
    <2>2. call'[a].kind = r.kind /\ call'[a].id = issued'
      BY <1>0, <1>2, <2>1 DEF HandleRegister, CallState
    <2>3. issued' \in 1..issued'
      BY <2>1
    <2> QED BY <1>0, <2>1, <2>2, <2>3 DEF OneKeepsId
  <1>3. CASE Registered(a)
    <2>1. /\ call'[a] = NewCall("heartbeat",
                          IF g.pc = "boot" THEN r.id ELSE g.loop_id)
          /\ agent'[a].pc = "heartbeat"
          /\ agent'[a].loop_id = IF g.pc = "boot" THEN r.id ELSE g.loop_id
          /\ r.kind = "register" /\ r.stage = "replied"
      BY <1>0, <1>3 DEF Registered, AgentState
    <2>2. call'[a].kind = "heartbeat"
      BY <2>1 DEF NewCall
    <2> QED BY <1>0, <2>1, <2>2 DEF OneKeepsId
  <1>4. CASE BootFails(a) \/ KillAgent(a)
    BY <1>0, <1>4 DEF BootFails, KillAgent, OneKeepsId, AgentInit, NoCall
  <1>5. CASE RegisterFails(a) \/ HeartbeatReplied(a) \/ HeartbeatFails(a)
    <2>1. call'[a] = NoCall /\ g.pc \in {"register", "heartbeat"}
      BY <1>0, <1>5 DEF RegisterFails, HeartbeatReplied, HeartbeatFails
    <2>2. agent'[a].loop_id = g.loop_id
      <3>1. CASE RegisterFails(a)
        BY <1>0, <3>1 DEF RegisterFails, AgentState
      <3>2. CASE HeartbeatReplied(a)
        BY <1>0, <3>2 DEF HeartbeatReplied, AgentState
      <3>3. CASE HeartbeatFails(a)
        BY <1>0, <3>3 DEF HeartbeatFails, AgentState
      <3> QED BY <1>5, <3>1, <3>2, <3>3
    <2> QED BY <1>0, <2>1, <2>2 DEF OneKeepsId, NoCall
  <1>6. CASE WakeUp(a)
    <2>1. /\ g.pc = "sleep" /\ agent'[a].loop_id = g.loop_id
          /\ \E id : call'[a] = NewCall(agent'[a].pc, id)
      BY <1>0, <1>6 DEF WakeUp, AgentState
    <2>2. call'[a].kind = agent'[a].pc /\ call'[a].stage # "replied"
      BY <2>1 DEF NewCall
    <2> QED BY <1>0, <2>1, <2>2 DEF OneKeepsId
  <1>7. CASE StartAgent(a)
    BY <1>0, <1>7 DEF StartAgent, OneKeepsId, AgentInit, NewCall
  <1>8. CASE BreakConnection(a) \/ DelayCall(a) \/ ArriveLate(a)
    <2>1. /\ agent' = agent
          /\ call'[a].kind = r.kind /\ call'[a].id = r.id
          /\ call'[a].stage \in {r.stage, "broken"}
      <3>1. CASE BreakConnection(a)
        BY <1>0, <3>1 DEF BreakConnection, CallState
      <3>2. CASE DelayCall(a)
        BY <1>0, <3>2 DEF DelayCall, CallState
      <3>3. CASE ArriveLate(a)
        BY <1>0, <3>3 DEF ArriveLate, CallState
      <3> QED BY <1>8, <3>1, <3>2, <3>3
    <2> QED BY <1>0, <2>1 DEF OneKeepsId
  <1> QED
    BY <1>1, <1>2, <1>3, <1>4, <1>5, <1>6, <1>7, <1>8 DEF Handler, AgentStep, FaultStep

\* A step of one agent, or of a handler for it, is nothing to the others.
LEMMA OthersStay ==
  ASSUME AgentInv, NEW a \in Agents, NEW b \in Agents, b # a,
         Handler(b) \/ AgentStep(b) \/ FaultStep(b) \/ StartAgent(b)
  PROVE  agent'[a] = agent[a] /\ call'[a] = call[a]
  BY DEF AgentInv, Handler, AgentStep, FaultStep, StampRegistration,
     HandleRegister, HandleHeartbeat, StartAgent, Registered, BootFails,
     RegisterFails, HeartbeatReplied, HeartbeatFails, WakeUp, BreakConnection,
     DelayCall, ArriveLate, KillAgent

LEMMA EachKeepsId ==
  ASSUME IInv, IdsIssued, [Next]_vars, NEW a \in Agents
  PROVE  OneKeepsId(agent[a], agent'[a], call'[a])
  <1>0. /\ AgentInv /\ issued \in Nat /\ issued' \in Nat /\ issued <= issued'
    BY IInvParts, OnlyNewIdsEnter DEF IInv, TypeOK
  <1>1. CASE Handler(a) \/ AgentStep(a) \/ FaultStep(a) \/ StartAgent(a)
    BY <1>0, <1>1, OwnStepKeepsId
  <1>2. CASE /\ agent'[a].pc = agent[a].pc /\ agent'[a].loop_id = agent[a].loop_id
             /\ call'[a].kind = call[a].kind /\ call'[a].id = call[a].id
             /\ call'[a].stage \in {call[a].stage, "broken"}
    BY <1>0, <1>2 DEF OneKeepsId, IdsIssued, InLoop
  <1>3. ASSUME NEW b \in Agents, b # a,
               Handler(b) \/ AgentStep(b) \/ FaultStep(b) \/ StartAgent(b)
        PROVE  agent'[a] = agent[a] /\ call'[a] = call[a]
    BY <1>0, <1>3, OthersStay
  <1>4. CASE MonitorTick \/ MonitorSweep \/ RestartCoordinator \/ UNCHANGED vars
    BY <1>2, <1>4 DEF MonitorTick, MonitorSweep, RestartCoordinator, vars
  <1>5. CASE CrashCoordinator
    BY <1>0, <1>2, <1>5 DEF CrashCoordinator, AgentInv, CallState
  <1>6. CASE Tick
    <2>1. /\ agent'[a].pc = agent[a].pc /\ agent'[a].loop_id = agent[a].loop_id
      BY <1>0, <1>6 DEF Tick, AgentInv, AgentState
    <2>2. /\ call'[a].kind = call[a].kind /\ call'[a].id = call[a].id
          /\ call'[a].stage = call[a].stage
      <3>1. CASE call[a].stage = "none" \/ call[a].delayed
        BY <1>6, <3>1 DEF Tick
      <3>2. CASE ~(call[a].stage = "none" \/ call[a].delayed)
        BY <1>0, <1>6, <3>2 DEF Tick, AgentInv, CallState
      <3> QED BY <3>1, <3>2
    <2> QED BY <1>2, <2>1, <2>2
  <1> QED BY <1>1, <1>2, <1>3, <1>4, <1>5, <1>6 DEF Next

LEMMA IdsAreIssued == Spec => []IdsIssued
  <1>1. Init => IdsIssued
    <2> SUFFICES ASSUME Init, NEW a \in Agents
                 PROVE  agent[a].pc = "off" /\ call[a].kind = "none"
      BY DEF IdsIssued, InLoop
    <2> QED BY DEF Init, NoCall, AgentInit
  <1>2. IInv /\ IdsIssued /\ [Next]_vars => IdsIssued'
    BY EachKeepsId DEF IdsIssued, InLoop, OneKeepsId
  <1> QED BY <1>1, <1>2, InductiveInvariant, PTL DEF Spec

(* LostForGood: an agent in its loop keeps the id it was given when it started,
   and once the registry has lost that id (a restart of the coordinator, a
   removal) it never shows it again: every heartbeat the loop still sends is
   for an unknown node.  This is how finding 1 comes about. *)
THEOREM LostIdsStayLost == Spec => [][LostForGood]_vars
  <1>1. IInv /\ IdsIssued /\ [Next]_vars => LostForGood
    <2> SUFFICES ASSUME IInv, IdsIssued, [Next]_vars, NEW a \in Agents,
                        InLoop(a), InLoop(a)'
                 PROVE  /\ agent'[a].loop_id = agent[a].loop_id
                        /\ agent[a].loop_id \notin DOMAIN nodes =>
                             agent'[a].loop_id \notin DOMAIN nodes'
      BY DEF LostForGood
    <2>1. agent'[a].loop_id = agent[a].loop_id
      BY EachKeepsId DEF InLoop, OneKeepsId
    <2>2. agent[a].loop_id \in 1..issued
      BY DEF IdsIssued
    <2> QED BY <2>1, <2>2, OnlyNewIdsEnter DEF IInv
  <1> QED BY <1>1, InductiveInvariant, IdsAreIssued, PTL DEF Spec

-----------------------------------------------------------------------------
(* Ghosts.  An agent that registers again gets a second entry while the      *)
(* first is still listed, and get_cluster counts the resources of both.      *)
(* Every such entry is paid for by a fault: an agent that is going to        *)
(* register, unless something stops it, is an entry the registry has yet to  *)
(* get, and only a fault makes an agent with an entry register again.        *)

Registers(g, c) ==
  \/ /\ g.pc \in {"off", "boot", "register"}
     /\ ~(c.kind = "register" /\ c.stage = "replied")
  \/ g.pc = "sleep" /\ ~g.client
  \/ g.pc = "heartbeat" /\ c.stage = "broken"

ToRegister == {a \in Agents : Registers(agent[a], call[a])}

\* The registry never holds more than one entry too many per fault.
FewGhosts ==
  /\ IsFiniteSet(DOMAIN nodes)
  /\ Cardinality(DOMAIN nodes) <= Cardinality(Agents) + faults

\* Its strengthening.
GhostsPaid ==
  /\ IsFiniteSet(DOMAIN nodes)
  /\ Cardinality(DOMAIN nodes) + Cardinality(ToRegister)
       <= Cardinality(Agents) + faults

ClientToHeartbeat ==
  \A a \in Agents : agent[a].pc = "heartbeat" => agent[a].client

LEMMA OwnStepKeepsClient ==
  ASSUME AgentInv, ClientToHeartbeat, NEW a \in Agents,
         Handler(a) \/ AgentStep(a) \/ FaultStep(a) \/ StartAgent(a)
  PROVE  agent'[a].pc = "heartbeat" => agent'[a].client
  <1>0. agent \in [Agents -> AgentState]
    BY DEF AgentInv
  <1>1. CASE agent' = agent
    BY <1>1 DEF ClientToHeartbeat
  <1>2. CASE Registered(a)
    BY <1>0, <1>2 DEF Registered, AgentState
  <1>3. CASE WakeUp(a)
    <2>1. /\ agent'[a].pc = IF agent[a].client THEN "heartbeat" ELSE "register"
          /\ agent'[a].client = agent[a].client
      BY <1>0, <1>3 DEF WakeUp, AgentState
    <2> QED BY <2>1
  <1>4. CASE BootFails(a) \/ StartAgent(a) \/ KillAgent(a)
    <2>1. agent'[a] \in {AgentInit, [AgentInit EXCEPT !.pc = "boot"]}
      BY <1>0, <1>4 DEF BootFails, StartAgent, KillAgent
    <2> QED BY <2>1 DEF AgentInit
  <1>5. CASE RegisterFails(a) \/ HeartbeatReplied(a) \/ HeartbeatFails(a)
    <2>1. agent'[a].pc \in {"gave_up", "sleep"}
      <3>1. CASE RegisterFails(a)
        BY <1>0, <3>1 DEF RegisterFails, AgentState
      <3>2. CASE HeartbeatReplied(a)
        BY <1>0, <3>2 DEF HeartbeatReplied, AgentState
      <3>3. CASE HeartbeatFails(a)
        BY <1>0, <3>3 DEF HeartbeatFails, AgentState
      <3> QED BY <1>5, <3>1, <3>2, <3>3
    <2> QED BY <2>1
  <1>6. CASE Handler(a) \/ BreakConnection(a) \/ DelayCall(a) \/ ArriveLate(a)
    BY <1>1, <1>6 DEF Handler, StampRegistration, HandleRegister, HandleHeartbeat,
       BreakConnection, DelayCall, ArriveLate
  <1> QED BY <1>2, <1>3, <1>4, <1>5, <1>6 DEF AgentStep, FaultStep

LEMMA NextKeepsClient ==
  ASSUME IInv, ClientToHeartbeat, [Next]_vars
  PROVE  ClientToHeartbeat'
  <1> SUFFICES ASSUME NEW a \in Agents
               PROVE  agent'[a].pc = "heartbeat" => agent'[a].client
    BY DEF ClientToHeartbeat
  <1>0. AgentInv
    BY IInvParts
  <1>1. ASSUME NEW b \in Agents,
               Handler(b) \/ AgentStep(b) \/ FaultStep(b) \/ StartAgent(b)
        PROVE  agent'[a].pc = "heartbeat" => agent'[a].client
    <2>1. CASE b = a
      BY <1>0, <1>1, <2>1, OwnStepKeepsClient
    <2>2. CASE b # a
      BY <1>0, <1>1, <2>2, OthersStay DEF ClientToHeartbeat
    <2> QED BY <2>1, <2>2
  <1>2. CASE agent' = agent
    BY <1>2 DEF ClientToHeartbeat
  <1>3. CASE Tick
    <2>1. agent'[a].pc = agent[a].pc /\ agent'[a].client = agent[a].client
      BY <1>0, <1>3 DEF Tick, AgentInv, AgentState
    <2> QED BY <2>1 DEF ClientToHeartbeat
  <1> QED BY <1>1, <1>2, <1>3 DEF Next, MonitorTick, MonitorSweep,
             CrashCoordinator, RestartCoordinator, vars

\* A step of one agent while the coordinator runs: it turns the registration
\* it owes into an entry, or owes no more than before, or pays with a fault.
LEMMA OwnStepPays ==
  ASSUME AgentInv, IdsIssued, ClientToHeartbeat, up, NEW a \in Agents,
         Handler(a) \/ AgentStep(a) \/ FaultStep(a) \/ StartAgent(a)
  PROVE  LET owed == Registers(agent[a], call[a])
             owes == Registers(agent'[a], call'[a])
         IN \/ /\ HandleRegister(a) /\ owed /\ ~owes
            \/ /\ DOMAIN nodes' = DOMAIN nodes
               /\ \/ faults' = faults + 1
                  \/ faults' = faults /\ (owes => owed)
  <1> DEFINE g == agent[a]
             r == call[a]
             owed == Registers(g, r)
             owes == Registers(agent'[a], call'[a])
  <1>0. /\ agent \in [Agents -> AgentState] /\ call \in [Agents -> CallState]
        /\ g \in AgentState /\ r \in CallState
    BY DEF AgentInv
  <1>1. /\ r.kind = "heartbeat" => g.pc = "heartbeat"
        /\ r.kind = "register" => g.pc \in {"boot", "register"}
        /\ g.pc = "heartbeat" => g.client
    BY DEF AgentInv, CallsMatch, IdsIssued, ClientToHeartbeat
  <1>2. CASE HandleRegister(a)
    <2>1. r.kind = "register" /\ r.stage = "stamped"
      BY <1>2 DEF HandleRegister, Arrived
    <2>2. agent' = agent /\ call'[a].kind = r.kind /\ call'[a].stage = "replied"
      BY <1>0, <1>2 DEF HandleRegister, CallState
    <2> QED BY <1>1, <1>2, <2>1, <2>2 DEF Registers
  <1>3. CASE StampRegistration(a) \/ HandleHeartbeat(a)
    <2>1. /\ DOMAIN nodes' = DOMAIN nodes /\ faults' = faults /\ agent' = agent
          /\ r.stage = "sent"
      BY <1>3 DEF StampRegistration, HandleHeartbeat, Arrived
    <2>2. call'[a].kind = r.kind /\ call'[a].stage \in {"stamped", "replied"}
      <3>1. CASE StampRegistration(a)
        BY <1>0, <3>1 DEF StampRegistration, CallState
      <3>2. CASE HandleHeartbeat(a)
        BY <1>0, <3>2 DEF HandleHeartbeat, CallState
      <3> QED BY <1>3, <3>1, <3>2
    <2> QED BY <2>1, <2>2 DEF Registers
  <1>4. CASE FaultStep(a)
    <2>1. DOMAIN nodes' = DOMAIN nodes
      BY <1>4 DEF FaultStep, BreakConnection, DelayCall, ArriveLate, KillAgent
    <2>2. CASE ArriveLate(a)
      <3>1. faults' = faults /\ agent' = agent
        BY <2>2 DEF ArriveLate
      <3>2. call'[a].kind = r.kind /\ call'[a].stage = r.stage
        BY <1>0, <2>2 DEF ArriveLate, CallState
      <3> QED BY <2>1, <3>1, <3>2 DEF Registers
    <2>3. CASE ~ArriveLate(a)
      <3>1. faults' = faults + 1
        BY <1>4, <2>3 DEF FaultStep, BreakConnection, DelayCall, KillAgent, Fault
      <3> QED BY <2>1, <3>1
    <2> QED BY <2>2, <2>3
  <1>5. CASE AgentStep(a) \/ StartAgent(a)
    <2>1. DOMAIN nodes' = DOMAIN nodes /\ faults' = faults
      BY <1>5 DEF AgentStep, StartAgent, Registered, BootFails, RegisterFails,
         HeartbeatReplied, HeartbeatFails, WakeUp
    <2>2. CASE Registered(a)
      <3>1. agent'[a].pc = "heartbeat"
        BY <1>0, <2>2 DEF Registered, AgentState
      <3>2. call'[a].stage = "sent"
        BY <1>0, <2>2 DEF Registered, NewCall
      <3> QED BY <2>1, <3>1, <3>2 DEF Registers
    <2>3. CASE BootFails(a) \/ RegisterFails(a) \/ HeartbeatFails(a)
      <3>1. owed
        BY <1>1, <2>3 DEF BootFails, RegisterFails, HeartbeatFails, Registers
      <3> QED BY <2>1, <3>1
    <2>4. CASE HeartbeatReplied(a)
      <3>1. agent'[a].pc = "sleep" /\ agent'[a].client = g.client
        BY <1>0, <2>4 DEF HeartbeatReplied, AgentState
      <3>2. g.client
        BY <1>1, <2>4 DEF HeartbeatReplied
      <3> QED BY <2>1, <3>1, <3>2 DEF Registers
    <2>5. CASE WakeUp(a)
      <3>1. g.pc = "sleep"
        BY <2>5 DEF WakeUp
      <3>2. CASE g.client
        <4>1. agent'[a].pc = "heartbeat" /\ call'[a].stage = "sent"
          BY <1>0, <2>5, <3>2 DEF WakeUp, AgentState, NewCall
        <4> QED BY <2>1, <4>1 DEF Registers
      <3>3. CASE ~g.client
        BY <2>1, <3>1, <3>3 DEF Registers
      <3> QED BY <3>2, <3>3
    <2>6. CASE StartAgent(a)
      <3>1. g.pc = "off"
        BY <2>6 DEF StartAgent
      <3>2. r.kind # "register"
        BY <1>1, <3>1
      <3> QED BY <2>1, <3>1, <3>2 DEF Registers
    <2> QED BY <1>5, <2>2, <2>3, <2>4, <2>5, <2>6 DEF AgentStep
  <1> QED BY <1>2, <1>3, <1>4, <1>5 DEF Handler

LEMMA OthersOweTheSame ==
  ASSUME AgentInv, NEW b \in Agents,
         Handler(b) \/ AgentStep(b) \/ FaultStep(b) \/ StartAgent(b)
  PROVE  /\ ToRegister' \subseteq ToRegister \cup {b}
         /\ (Registers(agent'[b], call'[b]) => Registers(agent[b], call[b]))
              => ToRegister' \subseteq ToRegister
         /\ ~Registers(agent'[b], call'[b])
              => ToRegister' \subseteq ToRegister \ {b}
  <1>1. \A a \in Agents : a # b => (a \in ToRegister' <=> a \in ToRegister)
    BY OthersStay DEF ToRegister
  <1>2. b \in ToRegister' <=> Registers(agent'[b], call'[b])
    BY DEF ToRegister
  <1>3. b \in ToRegister <=> Registers(agent[b], call[b])
    BY DEF ToRegister
  <1>4. ToRegister' \subseteq Agents
    BY DEF ToRegister
  <1> HIDE DEF ToRegister
  <1> QED BY <1>1, <1>2, <1>3, <1>4

\* Nobody owes anything new in the steps no agent takes.
LEMMA NobodyOwesMore ==
  ASSUME AgentInv,
         \/ UNCHANGED <<agent, call>>
         \/ Tick
  PROVE  ToRegister' = ToRegister
  <1>1. CASE UNCHANGED <<agent, call>>
    BY <1>1 DEF ToRegister
  <1>2. CASE Tick
    <2>1. ASSUME NEW a \in Agents
          PROVE  /\ agent'[a].pc = agent[a].pc
                 /\ agent'[a].client = agent[a].client
      BY <1>2, <2>1 DEF Tick, AgentInv, AgentState
    <2>2. ASSUME NEW a \in Agents
          PROVE  /\ call'[a].kind = call[a].kind
                 /\ call'[a].stage = call[a].stage
      <3>1. CASE call[a].stage = "none" \/ call[a].delayed
        BY <1>2, <3>1 DEF Tick
      <3>2. CASE ~(call[a].stage = "none" \/ call[a].delayed)
        BY <1>2, <3>2 DEF Tick, AgentInv, CallState
      <3> QED BY <3>1, <3>2
    <2> QED BY <2>1, <2>2 DEF ToRegister, Registers
  <1> QED BY <1>1, <1>2

LEMMA NextKeepsGhostsPaid ==
  ASSUME IsFiniteSet(Agents), IInv, IInv', IdsIssued, ClientToHeartbeat,
         GhostsPaid, [Next]_vars
  PROVE  GhostsPaid'
  <1> DEFINE size == Cardinality(DOMAIN nodes)
             owed == Cardinality(ToRegister)
             all == Cardinality(Agents)
  <1>0. /\ AgentInv /\ faults \in Nat /\ faults' \in Nat /\ issued \in Nat
        /\ DOMAIN nodes \subseteq 1..issued
        /\ (~up => DOMAIN nodes = {}) /\ (~up' => DOMAIN nodes' = {})
    BY IInvParts DEF IInv, TypeOK, DownIsEmpty
  <1>1. /\ IsFiniteSet(DOMAIN nodes) /\ size + owed <= all + faults
    BY DEF GhostsPaid
  <1>2. /\ IsFiniteSet(ToRegister) /\ IsFiniteSet(ToRegister')
        /\ size \in Nat /\ owed \in Nat /\ all \in Nat
        /\ Cardinality(ToRegister') \in Nat
        /\ Cardinality(ToRegister') <= all
    <2>1. ToRegister \in SUBSET Agents /\ ToRegister' \in SUBSET Agents
      BY DEF ToRegister
    <2> QED BY <1>1, <2>1, FS_Subset, FS_CardinalityType
  <1>3. ASSUME ToRegister' \subseteq ToRegister, faults <= faults',
               DOMAIN nodes' \subseteq DOMAIN nodes
        PROVE  GhostsPaid'
    <2>1. /\ IsFiniteSet(DOMAIN nodes') /\ Cardinality(DOMAIN nodes') \in Nat
          /\ Cardinality(DOMAIN nodes') <= size
      BY <1>1, <1>3, FS_Subset, FS_CardinalityType
    <2>2. Cardinality(ToRegister') <= owed
      BY <1>2, <1>3, FS_Subset
    <2> QED BY <1>0, <1>1, <1>2, <1>3, <2>1, <2>2 DEF GhostsPaid
  <1>4. CASE DOMAIN nodes' = {}
    <2>1. IsFiniteSet(DOMAIN nodes') /\ Cardinality(DOMAIN nodes') = 0
      BY <1>4, FS_EmptySet
    <2> QED BY <1>0, <1>2, <2>1 DEF GhostsPaid
  <1>5. ASSUME up, NEW b \in Agents,
               Handler(b) \/ AgentStep(b) \/ FaultStep(b) \/ StartAgent(b)
        PROVE  GhostsPaid'
    <2> DEFINE before == Registers(agent[b], call[b])
               after == Registers(agent'[b], call'[b])
    <2>1. CASE HandleRegister(b) /\ before /\ ~after
      <3>1. DOMAIN nodes' = DOMAIN nodes \cup {issued + 1} /\ faults' = faults
        BY <2>1 DEF HandleRegister
      <3>2. issued + 1 \notin DOMAIN nodes
        BY <1>0
      <3>3. /\ IsFiniteSet(DOMAIN nodes')
            /\ Cardinality(DOMAIN nodes') = size + 1
        BY <1>1, <3>1, <3>2, FS_AddElement
      <3>4. b \in ToRegister
        BY <2>1 DEF ToRegister
      <3>5. /\ IsFiniteSet(ToRegister \ {b})
            /\ Cardinality(ToRegister \ {b}) = owed - 1
        BY <1>2, <3>4, FS_RemoveElement
      <3>6. ToRegister' \in SUBSET (ToRegister \ {b})
        BY <1>0, <1>5, <2>1, OthersOweTheSame
      <3>7. Cardinality(ToRegister') <= owed - 1
        BY <3>5, <3>6, FS_Subset
      <3> QED BY <1>0, <1>1, <1>2, <3>1, <3>3, <3>7 DEF GhostsPaid
    <2>2. CASE DOMAIN nodes' = DOMAIN nodes /\ faults' = faults + 1
      <3>1. /\ IsFiniteSet(ToRegister \cup {b})
            /\ Cardinality(ToRegister \cup {b}) \in {owed, owed + 1}
        BY <1>2, FS_AddElement
      <3>2. ToRegister' \in SUBSET (ToRegister \cup {b})
        BY <1>0, <1>5, OthersOweTheSame
      <3>3. Cardinality(ToRegister') <= owed + 1
        BY <1>2, <3>1, <3>2, FS_Subset
      <3> QED BY <1>0, <1>1, <1>2, <2>2, <3>3 DEF GhostsPaid
    <2>3. CASE DOMAIN nodes' = DOMAIN nodes /\ faults' = faults
                 /\ (after => before)
      <3>1. ToRegister' \subseteq ToRegister
        BY <1>0, <1>5, <2>3, OthersOweTheSame
      <3> QED BY <1>0, <1>3, <2>3, <3>1
    <2> QED BY <1>0, <1>5, <2>1, <2>2, <2>3, OwnStepPays
  <1>6. CASE MonitorTick \/ MonitorSweep \/ UNCHANGED vars
    <2>1. UNCHANGED <<agent, call, faults>> /\ DOMAIN nodes' \subseteq DOMAIN nodes
      BY <1>6 DEF MonitorTick, MonitorSweep, vars
    <2> QED BY <1>0, <1>3, <2>1, NobodyOwesMore
  <1>7. CASE Tick
    <2>1. faults' = faults /\ DOMAIN nodes' = DOMAIN nodes
      BY <1>7 DEF Tick
    <2> QED BY <1>0, <1>3, <1>7, <2>1, NobodyOwesMore
  <1>8. CASE CrashCoordinator
    BY <1>4, <1>8 DEF CrashCoordinator
  <1>9. CASE RestartCoordinator
    BY <1>0, <1>4, <1>9 DEF RestartCoordinator
  <1>10. ASSUME ~up, NEW b \in Agents,
                Handler(b) \/ AgentStep(b) \/ FaultStep(b) \/ StartAgent(b)
         PROVE  GhostsPaid'
    <2>1. up' = up
      BY <1>10 DEF Handler, AgentStep, FaultStep, StampRegistration,
         HandleRegister, HandleHeartbeat, StartAgent, Registered, BootFails,
         RegisterFails, HeartbeatReplied, HeartbeatFails, WakeUp,
         BreakConnection, DelayCall, ArriveLate, KillAgent
    <2> QED BY <1>0, <1>4, <1>10, <2>1
  <1> QED BY <1>5, <1>6, <1>7, <1>8, <1>9, <1>10 DEF Next

(* FewGhosts: register_node makes a new entry whatever the node is, so a node
   that registers again is in the registry twice until the old entry expires,
   and get_cluster counts its resources twice.  The registry is never further
   off than that: it holds at most one entry more than there are agents for
   each fault (a lost reply, a broken or a delayed call, a restarted agent,
   a coordinator that crashed), and with no faults it has no more than agents. *)
THEOREM GhostsAreBounded ==
  ASSUME IsFiniteSet(Agents)
  PROVE  Spec => []FewGhosts
  <1>1. Init => GhostsPaid /\ ClientToHeartbeat
    <2> SUFFICES ASSUME Init PROVE GhostsPaid /\ ClientToHeartbeat
      OBVIOUS
    <2>1. DOMAIN nodes = {} /\ faults = 0
      BY DEF Init
    <2>2. ToRegister \in SUBSET Agents
      BY DEF ToRegister
    <2>3. /\ IsFiniteSet(DOMAIN nodes) /\ Cardinality(DOMAIN nodes) = 0
          /\ Cardinality(ToRegister) \in Nat /\ Cardinality(Agents) \in Nat
          /\ Cardinality(ToRegister) <= Cardinality(Agents)
      BY <2>1, <2>2, FS_EmptySet, FS_Subset, FS_CardinalityType
    <2>4. \A a \in Agents : agent[a].pc = "off"
      BY DEF Init, AgentInit
    <2> QED BY <2>1, <2>3, <2>4 DEF GhostsPaid, ClientToHeartbeat
  <1>2. IInv /\ IInv' /\ IdsIssued /\ GhostsPaid /\ ClientToHeartbeat
          /\ [Next]_vars => GhostsPaid' /\ ClientToHeartbeat'
    BY NextKeepsGhostsPaid, NextKeepsClient
  <1>3. IInv /\ GhostsPaid => FewGhosts
    <2> SUFFICES ASSUME IInv, GhostsPaid PROVE FewGhosts
      OBVIOUS
    <2>1. ToRegister \in SUBSET Agents
      BY DEF ToRegister
    <2>2. /\ Cardinality(ToRegister) \in Nat /\ Cardinality(Agents) \in Nat
          /\ Cardinality(DOMAIN nodes) \in Nat /\ faults \in Nat
      BY <2>1, FS_Subset, FS_CardinalityType DEF GhostsPaid, IInv, TypeOK
    <2> QED BY <2>2 DEF GhostsPaid, FewGhosts
  <1> QED BY <1>1, <1>2, <1>3, InductiveInvariant, IdsAreIssued, PTL DEF Spec
=============================================================================
