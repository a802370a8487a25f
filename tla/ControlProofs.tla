---------------------------- MODULE ControlProofs ---------------------------
(***************************************************************************)
(* Proofs about NodeControl and SecurePairing for every number of nodes,   *)
(* plans and faults, every key and every threshold.                        *)
(***************************************************************************)
EXTENDS NodeControl, TLAPS

\* The pairing manager's part: it depends on the ids that were generated and
\* on nothing else.
PairingInv ==
  /\ issued \in Nat
  /\ PairingTypeOK(1..issued)
  /\ OneCertificateEach

\* The monitor's clock, and what it is for: a node shown Healthy was heard of
\* at most as long ago as its entry says, and not too long ago; nobody has
\* told it to drain since.
ClockOK ==
  /\ up \in BOOLEAN
  /\ monitor \in [pc : {"idle", "sweep"}, due : 0..MonitorPeriod]
  /\ ~up => DOMAIN nodes = {}

EntryOK(n) ==
  /\ nodes[n] \in [status : {"Healthy", "Suspect", "Draining"}, age : Nat]
  /\ heard[n] \in [age : 0..LongAgo, drained : BOOLEAN]
  /\ heard[n].age <= nodes[n].age
  /\ nodes[n].status = "Healthy" =>
       heard[n].age <= SuspectAfter + SinceTick + Slack /\ ~heard[n].drained

RegistryInv ==
  /\ ClockOK
  /\ DOMAIN nodes \subseteq 1..issued
  /\ DOMAIN heard = DOMAIN nodes
  /\ \A n \in DOMAIN nodes : EntryOK(n)
  /\ registering \in [id : 0..issued, stamp : 0..LockDelay]
  /\ registering.id = NoId \/ ~up => PairingFree
  /\ prepared \subseteq 1..issued

IInv == PairingInv /\ RegistryInv

LEMMA Numbers ==
  /\ SuspectAfter \in Nat /\ RemoveAfter \in Nat /\ MonitorPeriod \in Nat
  /\ LockDelay \in Nat /\ MaxFaults \in Nat /\ ChallengeExpiry \in Nat
  /\ LockDelay < MonitorPeriod /\ LongAgo \in Nat
  BY MembershipAssumption, PairingAssumption DEF LongAgo

LEMMA InitIInv == ControlInit => IInv
  <1> SUFFICES ASSUME ControlInit PROVE IInv
    OBVIOUS
  <1>1. PairingInv
    BY DEF ControlInit, Init, PairingInit, PairingInv, PairingTypeOK, OneCertificateEach
  <1>2. RegistryInv
    BY Numbers DEF ControlInit, Init, MonitorInit, NobodyRegisters, NoId, PairingFree,
                   RegistryInv, ClockOK
  <1> QED BY <1>1, <1>2 DEF IInv

-----------------------------------------------------------------------------
(* The pairing manager *)

LEMMA ChallengeStep ==
  ASSUME PairingInv, issued' = issued + 1, GenerateChallenge(issued')
  PROVE  PairingInv'
  <1>1. /\ issued' \in Nat /\ 1..issued \subseteq 1..issued'
        /\ issued' \in 1..issued' /\ issued' \notin 1..issued
    BY DEF PairingInv
  <1>2. /\ UNCHANGED <<node_keys, certificates>>
        /\ DOMAIN pending_challenges' = DOMAIN pending_challenges \cup {issued'}
        /\ \A i \in DOMAIN pending_challenges' :
             pending_challenges'[i] = IF i = issued' THEN 0 ELSE pending_challenges[i]
    BY DEF GenerateChallenge
  <1>3. PairingTypeOK(1..issued)'
    BY <1>1, <1>2, Numbers DEF PairingInv, PairingTypeOK
  <1>4. OneCertificateEach'
    BY <1>1, <1>2 DEF PairingInv, PairingTypeOK, OneCertificateEach
  <1> QED BY <1>1, <1>3, <1>4 DEF PairingInv

LEMMA NewManagerStep ==
  ASSUME PairingInv, NewManager, issued' = issued
  PROVE  PairingInv'
  BY DEF PairingInv, NewManager, PairingTypeOK, OneCertificateEach

LEMMA AnswerStep ==
  ASSUME PairingInv, NEW id \in 1..issued, NEW key \in PublicKeys, NEW signed \in BOOLEAN,
         VerifyResponse(id, key, signed), issued' = issued
  PROVE  PairingInv'
  <1> DEFINE age == pending_challenges[id]
  <1>1. /\ id \in DOMAIN pending_challenges
        /\ DOMAIN pending_challenges' = DOMAIN pending_challenges \ {id}
        /\ \A i \in DOMAIN pending_challenges' :
             pending_challenges'[i] = pending_challenges[i]
    BY DEF VerifyResponse, Without
  <1>2. CASE ChallengeExpired(age) \/ ~signed
    <2>1. UNCHANGED <<node_keys, certificates>>
      BY <1>2 DEF VerifyResponse
    <2> QED BY <1>1, <2>1 DEF PairingInv, PairingTypeOK, OneCertificateEach
  <1>3. CASE ~(ChallengeExpired(age) \/ ~signed)
    <2> DEFINE new == [id |-> id, key |-> key, late |-> FALSE]
    <2>0. (age > ChallengeExpiry) = FALSE
      BY <1>3 DEF ChallengeExpired
    <2>1. /\ DOMAIN node_keys' = DOMAIN node_keys \cup {id}
          /\ \A i \in DOMAIN node_keys' :
               node_keys'[i] = IF i = id THEN key ELSE node_keys[i]
          /\ certificates' = certificates \cup {new}
      BY <1>3, <2>0 DEF VerifyResponse
    <2>2. /\ new \in [id : 1..issued, key : PublicKeys, late : BOOLEAN]
          /\ new.id = id /\ new.key = key /\ ~new.late
      OBVIOUS
    <2> HIDE DEF new
    <2>3. PairingTypeOK(1..issued)'
      <3>1. 1..issued' = 1..issued
        OBVIOUS
      <3>2. /\ certificates' \subseteq [id : 1..issued, key : PublicKeys, late : BOOLEAN]
        BY <2>1, <2>2 DEF PairingInv, PairingTypeOK
      <3>3. /\ DOMAIN node_keys' \subseteq 1..issued
            /\ \A i \in DOMAIN node_keys' : node_keys'[i] \in PublicKeys
        BY <2>1 DEF PairingInv, PairingTypeOK
      <3> QED BY <1>1, <3>1, <3>2, <3>3 DEF PairingInv, PairingTypeOK
    <2>4. \A c \in certificates : c.id # id
      BY <1>1 DEF PairingInv, OneCertificateEach
    <2>5. OneCertificateEach'
      BY <1>1, <2>1, <2>2, <2>4 DEF PairingInv, OneCertificateEach
    <2> QED BY <2>3, <2>5 DEF PairingInv
  <1> QED BY <1>2, <1>3

LEMMA PairStep ==
  ASSUME PairingInv, Pair
  PROVE  PairingInv'
  <1>1. issued' = issued
    BY DEF Pair, vars
  <1>2. CASE \E id \in 1..issued : RevokeNode(id)
    BY <1>1, <1>2 DEF RevokeNode, Without, PairingInv, PairingTypeOK, OneCertificateEach
  <1>3. CASE \E id \in 1..issued, key \in PublicKeys, signed \in BOOLEAN :
               VerifyResponse(id, key, signed)
    BY <1>1, <1>3, AnswerStep
  <1>4. CASE CleanupExpiredChallenges
    BY <1>1, <1>4
       DEF CleanupExpiredChallenges, PairingInv, PairingTypeOK, OneCertificateEach
  <1> QED BY <1>2, <1>3, <1>4 DEF Pair

LEMMA PairingTickStep ==
  ASSUME PairingInv, PairingTick, issued' = issued
  PROVE  PairingInv'
  BY Numbers DEF PairingTick, Older, PairingInv, PairingTypeOK, OneCertificateEach

LEMMA PairingSame ==
  ASSUME PairingInv, UNCHANGED pairingVars, issued' = issued
  PROVE  PairingInv'
  BY DEF pairingVars, PairingInv, PairingTypeOK, OneCertificateEach

-----------------------------------------------------------------------------
(* The registry *)

\* A handler replaces the entry of one node; the rest is as it was.
LEMMA EntryStep ==
  ASSUME RegistryInv, issued \in Nat, NEW n \in 1..issued, issued' = issued,
         UNCHANGED <<up, monitor, prepared>>, up,
         DOMAIN nodes' = DOMAIN nodes \cup {n}, DOMAIN heard' = DOMAIN nodes',
         \A m \in DOMAIN nodes \ {n} : nodes'[m] = nodes[m] /\ heard'[m] = heard[m],
         EntryOK(n)',
         registering' \in {registering, NobodyRegisters}
  PROVE  RegistryInv'
  <1>1. /\ registering' \in [id : 0..issued, stamp : 0..LockDelay]
        /\ registering'.id = NoId => registering' = NobodyRegisters
    BY Numbers DEF RegistryInv, NobodyRegisters, NoId, PairingFree
  <1>2. ASSUME NEW m \in DOMAIN nodes, m # n PROVE EntryOK(m)'
    BY <1>2 DEF RegistryInv, EntryOK, SinceTick, Slack
  <1> QED BY <1>1, <1>2 DEF RegistryInv, ClockOK, PairingFree

LEMMA BeginRegisterStep ==
  ASSUME IInv, BeginRegister
  PROVE  IInv'
  <1>1. PairingInv'
    BY ChallengeStep DEF BeginRegister, IInv
  <1>2. /\ issued \in Nat /\ issued' = issued + 1 /\ issued' # 0
        /\ registering' = [id |-> issued', stamp |-> 0]
        /\ up /\ UNCHANGED <<nodes, up, monitor, prepared, heard>>
    BY DEF BeginRegister, IInv, PairingInv
  <1>3. RegistryInv'
    BY <1>2, Numbers
       DEF IInv, RegistryInv, ClockOK, EntryOK, SinceTick, Slack, NoId, PairingFree
  <1> QED BY <1>1, <1>3 DEF IInv

LEMMA FinishRegisterStep ==
  ASSUME IInv, FinishRegister
  PROVE  IInv'
  <1>1. PairingInv'
    BY PairingSame DEF FinishRegister, IInv
  <1>2. PICK id \in 1..issued : id = registering.id
    BY DEF FinishRegister, IInv, PairingInv, RegistryInv, NoId
  <1>3. /\ registering.stamp \in 0..LockDelay
        /\ issued' = issued /\ UNCHANGED <<up, monitor, prepared>>
        /\ registering' = NobodyRegisters
        /\ DOMAIN nodes' = DOMAIN nodes \cup {id}
        /\ DOMAIN heard' = DOMAIN nodes'
        /\ nodes'[id] = [status |-> "Suspect", age |-> registering.stamp]
        /\ heard'[id] = [age |-> registering.stamp, drained |-> FALSE]
        /\ \A m \in DOMAIN nodes \ {id} : nodes'[m] = nodes[m] /\ heard'[m] = heard[m]
    BY <1>2 DEF FinishRegister, Hear, IInv, RegistryInv
  <1>6. up
    BY DEF FinishRegister, IInv, RegistryInv
  <1>4. LockDelay <= LongAgo
    BY Numbers DEF LongAgo
  <1>5. EntryOK(id)'
    BY <1>3, <1>4, Numbers DEF EntryOK
  <1> QED BY <1>1, <1>6, <1>3, <1>5, EntryStep DEF IInv, PairingInv

LEMMA HandleStep ==
  ASSUME IInv, NEW n \in 1..issued, Handle(n)
  PROVE  IInv'
  <1>1. issued \in Nat /\ RegistryInv /\ PairingInv
    BY DEF IInv, PairingInv
  <1>2. UNCHANGED pairingVars /\ issued' = issued
    BY DEF Handle, Heartbeat, Probe, Drain, PreparePlan, EndPlan, vars
  <1>3. PairingInv'
    BY <1>1, <1>2, PairingSame
  <1>4. CASE Heartbeat(n) \/ Probe(n) \/ Drain(n)
    <2>1. /\ up /\ n \in DOMAIN nodes /\ UNCHANGED <<up, monitor, prepared, registering>>
          /\ DOMAIN nodes' = DOMAIN nodes /\ DOMAIN heard' = DOMAIN nodes
          /\ \A m \in DOMAIN nodes \ {n} : nodes'[m] = nodes[m] /\ heard'[m] = heard[m]
      BY <1>1, <1>4 DEF Heartbeat, Probe, Drain, Hear, RegistryInv
    <2>2. EntryOK(n)
      BY <1>1, <2>1 DEF RegistryInv
    <2>3. 0 \in 0..LongAgo /\ SinceTick \in Nat /\ Slack \in Nat
          /\ SinceTick' = SinceTick /\ Slack' = Slack
      BY <1>1, <2>1, Numbers DEF RegistryInv, ClockOK, SinceTick, Slack
    <2>4. CASE Heartbeat(n)
      <3>1. /\ nodes'[n] = [status |-> "Healthy", age |-> 0]
            /\ heard'[n] = [age |-> 0, drained |-> FALSE]
        BY <2>1, <2>4 DEF Heartbeat, Hear, Refreshed
      <3>2. EntryOK(n)'
        BY <2>3, <3>1, Numbers DEF EntryOK
      <3> QED BY <1>1, <1>2, <1>3, <2>1, <3>2, EntryStep DEF IInv
    <2>5. CASE Probe(n)
      <3>1. /\ nodes'[n] = [nodes[n] EXCEPT !.status = "Healthy"]
            /\ heard'[n] = [age |-> 0, drained |-> FALSE]
        BY <2>1, <2>5 DEF Probe, Hear
      <3>2. EntryOK(n)'
        BY <2>2, <2>3, <3>1, Numbers DEF EntryOK
      <3> QED BY <1>1, <1>2, <1>3, <2>1, <3>2, EntryStep DEF IInv
    <2>6. CASE Drain(n)
      <3>1. /\ nodes'[n] = [nodes[n] EXCEPT !.status = "Draining"]
            /\ heard'[n] = [heard[n] EXCEPT !.drained = TRUE]
        BY <1>1, <2>1, <2>6 DEF Drain, RegistryInv
      <3>2. EntryOK(n)'
        BY <2>2, <3>1 DEF EntryOK
      <3> QED BY <1>1, <1>2, <1>3, <2>1, <3>2, EntryStep DEF IInv
    <2> QED BY <1>4, <2>4, <2>5, <2>6
  <1>5. CASE PreparePlan(n) \/ EndPlan(n)
    BY <1>1, <1>3, <1>5
       DEF PreparePlan, EndPlan, vars, IInv, RegistryInv, ClockOK, EntryOK, SinceTick,
           Slack, PairingFree
  <1> QED BY <1>3, <1>4, <1>5 DEF Handle, IInv

\* The monitor's sweep: what stays Healthy was not silent for too long when
\* the clock was read.
LEMMA SweepStep ==
  ASSUME IInv, MonitorSweeps
  PROVE  IInv'
  <1>1. issued \in Nat /\ RegistryInv /\ PairingInv
    BY DEF IInv, PairingInv
  <1>2. /\ UNCHANGED <<pairingVars, issued, up, registering, prepared>>
        /\ up /\ monitor.pc = "sweep" /\ monitor' = [monitor EXCEPT !.pc = "idle"]
        /\ DOMAIN nodes' \subseteq DOMAIN nodes /\ DOMAIN heard' = DOMAIN nodes'
        /\ \A n \in DOMAIN nodes' : nodes'[n] = Swept(n) /\ heard'[n] = heard[n]
    BY DEF MonitorSweeps, MonitorSweep, HearNobody
  <1>3. PairingInv'
    BY <1>1, <1>2, PairingSame
  <1>4. /\ SinceTick \in Nat /\ SinceTick' = SinceTick /\ Slack' = 0 /\ ClockOK'
    BY <1>1, <1>2, Numbers DEF RegistryInv, ClockOK, SinceTick, Slack
  <1>5. ASSUME NEW n \in DOMAIN nodes' PROVE EntryOK(n)'
    <2>1. EntryOK(n) /\ nodes'[n] = Swept(n) /\ heard'[n] = heard[n]
      BY <1>1, <1>2, <1>5 DEF RegistryInv
    <2>2. CASE SilentFor(n) > SuspectAfter
      BY <2>1, <2>2 DEF EntryOK, Swept
    <2>3. CASE ~(SilentFor(n) > SuspectAfter)
      <3>1. nodes[n].age <= SuspectAfter + SinceTick
        BY <1>4, <2>1, <2>3, Numbers DEF EntryOK, SilentFor
      <3>2. nodes'[n] = nodes[n]
        BY <2>1, <2>3 DEF Swept
      <3>3. nodes[n].age \in Nat /\ heard[n].age \in Nat
        BY <2>1 DEF EntryOK
      <3>4. heard[n].age <= SuspectAfter + SinceTick + 0
        BY <1>4, <2>1, <3>1, <3>3, Numbers DEF EntryOK
      <3> QED BY <1>4, <2>1, <3>2, <3>4 DEF EntryOK
    <2> QED BY <2>2, <2>3
  <1>6. RegistryInv'
    BY <1>1, <1>2, <1>4, <1>5 DEF RegistryInv, PairingFree
  <1> QED BY <1>3, <1>6 DEF IInv

LEMMA TickStep ==
  ASSUME IInv, ControlTick
  PROVE  IInv'
  <1>1. issued \in Nat /\ RegistryInv /\ PairingInv
    BY DEF IInv, PairingInv
  <1>2. /\ PairingTick /\ issued' = issued /\ prepared' = prepared /\ up' = up
        /\ MonitorOnTime
        /\ monitor' = IF up THEN [monitor EXCEPT !.due = @ - 1] ELSE monitor
        /\ nodes' = [n \in DOMAIN nodes |-> [nodes[n] EXCEPT !.age = @ + 1]]
        /\ heard' = [n \in DOMAIN heard |->
                      [heard[n] EXCEPT !.age = IF @ = LongAgo THEN @ ELSE @ + 1]]
    BY DEF ControlTick, Tick
  <1>3. PairingInv'
    BY <1>1, <1>2, PairingTickStep
  <1>4. /\ ClockOK' /\ SinceTick \in Nat /\ Slack \in Nat /\ Slack' = Slack
        /\ up => SinceTick' = SinceTick + 1
    <2>1. ClockOK /\ monitor.due \in 0..MonitorPeriod /\ monitor.pc \in {"idle", "sweep"}
      BY <1>1 DEF RegistryInv, ClockOK
    <2>2. SinceTick \in Nat /\ Slack \in Nat
      BY <2>1, Numbers DEF SinceTick, Slack
    <2>3. CASE up
      <3>1. monitor.due > 0
        BY <1>2, <2>1, <2>3, Numbers DEF MonitorOnTime, SinceTick
      <3>2. monitor' = [monitor EXCEPT !.due = monitor.due - 1]
        BY <1>2, <2>3
      <3>3. monitor'.pc = monitor.pc /\ monitor'.due = monitor.due - 1
            /\ monitor' \in [pc : {"idle", "sweep"}, due : 0..MonitorPeriod]
        BY <2>1, <3>1, <3>2, Numbers DEF ClockOK
      <3>4. SinceTick' = SinceTick + 1 /\ Slack' = Slack
        BY <2>1, <3>3, Numbers DEF SinceTick, Slack
      <3> QED BY <1>2, <2>1, <2>2, <2>3, <3>3, <3>4 DEF ClockOK
    <2>4. CASE ~up
      BY <1>2, <2>1, <2>2, <2>4 DEF ClockOK, SinceTick, Slack
    <2> QED BY <2>1, <2>3, <2>4 DEF ClockOK
  <1>5. ASSUME NEW n \in DOMAIN nodes PROVE EntryOK(n)'
    <2>1. EntryOK(n) /\ up
      BY <1>1 DEF RegistryInv, ClockOK
    <2>2. /\ nodes'[n] = [nodes[n] EXCEPT !.age = @ + 1]
          /\ heard'[n] = [heard[n] EXCEPT !.age = IF @ = LongAgo THEN @ ELSE @ + 1]
      BY <1>1, <1>2 DEF RegistryInv
    <2>3. /\ nodes'[n].age = nodes[n].age + 1 /\ nodes'[n].status = nodes[n].status
          /\ heard'[n].drained = heard[n].drained
          /\ heard'[n].age \in 0..LongAgo /\ heard'[n].age <= heard[n].age + 1
          /\ nodes[n].age \in Nat /\ heard[n].age \in Nat
      BY <2>1, <2>2, Numbers DEF EntryOK
    <2>4. /\ nodes'[n] \in [status : {"Healthy", "Suspect", "Draining"}, age : Nat]
          /\ heard'[n] \in [age : 0..LongAgo, drained : BOOLEAN]
      BY <2>1, <2>2, <2>3 DEF EntryOK
    <2>5. heard'[n].age <= nodes'[n].age
      BY <2>1, <2>3, <2>4 DEF EntryOK
    <2>6. heard[n].age <= SuspectAfter + SinceTick + Slack =>
            heard'[n].age <= SuspectAfter + SinceTick' + Slack'
      BY <1>4, <2>1, <2>3, <2>4, Numbers
    <2> QED BY <2>1, <2>3, <2>4, <2>5, <2>6 DEF EntryOK
  <1>6. /\ registering' \in [id : 0..issued, stamp : 0..LockDelay]
        /\ registering'.id = NoId \/ ~up => registering' = NobodyRegisters
    <2>1. CASE PairingFree
      BY <1>1, <2>1 DEF ControlTick, RegistryInv, PairingFree
    <2>2. CASE ~PairingFree
      BY <1>1, <2>2, Numbers DEF ControlTick, RegistryInv
    <2> QED BY <2>1, <2>2
  <1>7. RegistryInv'
    BY <1>1, <1>2, <1>4, <1>5, <1>6 DEF RegistryInv, PairingFree
  <1> QED BY <1>3, <1>7 DEF IInv

-----------------------------------------------------------------------------
LEMMA NextIInv == IInv /\ [ControlNext]_controlVars => IInv'
  <1> SUFFICES ASSUME IInv, [ControlNext]_controlVars PROVE IInv'
    OBVIOUS
  <1> USE DEF IInv
  <1>1. CASE DropRegister
    <2>1. PairingInv'
      BY <1>1, PairingSame DEF DropRegister, vars
    <2>2. RegistryInv'
      BY <1>1, Numbers
         DEF DropRegister, vars, RegistryInv, ClockOK, EntryOK, SinceTick, Slack,
             NobodyRegisters, NoId, PairingFree, PairingInv
    <2> QED BY <2>1, <2>2
  <1>2. CASE Pair
    <2>1. RegistryInv'
      BY <1>2
         DEF Pair, vars, grpcVars, RegistryInv, ClockOK, EntryOK, SinceTick, Slack, PairingFree
    <2> QED BY <1>2, <2>1, PairStep
  <1>3. CASE MonitorWakes
    <2>1. PairingInv'
      BY <1>3, PairingSame DEF MonitorWakes, MonitorTick
    <2>2. /\ UNCHANGED <<nodes, issued, up, registering, prepared, heard>> /\ up
          /\ monitor.pc = "idle" /\ monitor.due = 0
          /\ monitor' = [pc |-> "sweep", due |-> MonitorPeriod]
      BY <1>3 DEF MonitorWakes, MonitorTick, grpcVars
    <2>3. /\ SinceTick = MonitorPeriod /\ Slack = 0 /\ SinceTick' = 0
          /\ Slack' = MonitorPeriod /\ ClockOK'
      BY <2>2, Numbers DEF SinceTick, Slack, ClockOK, RegistryInv
    <2>4. SuspectAfter + SinceTick + Slack = SuspectAfter + SinceTick' + Slack'
      <3>1. SuspectAfter + MonitorPeriod + 0 = SuspectAfter + 0 + MonitorPeriod
        BY Numbers
      <3> QED BY <2>3, <3>1
    <2>5. RegistryInv'
      BY <2>2, <2>3, <2>4 DEF RegistryInv, EntryOK, PairingFree
    <2> QED BY <2>1, <2>5
  <1>4. CASE Crash
    <2>1. PairingInv'
      BY <1>4, NewManagerStep DEF Crash, CrashCoordinator
    <2>2. /\ DOMAIN nodes' = {} /\ DOMAIN heard' = {} /\ prepared' = {} /\ ~up' /\ up' \in BOOLEAN
          /\ monitor' = [pc |-> "idle", due |-> 0] /\ issued' = issued
          /\ registering' = NobodyRegisters
      BY <1>4 DEF Crash, CrashCoordinator, HearNobody, MonitorInit
    <2>3. RegistryInv'
      BY <2>2, Numbers
         DEF RegistryInv, ClockOK, PairingFree, NobodyRegisters, NoId, PairingInv
    <2> QED BY <2>1, <2>3
  <1>5. CASE Restart
    <2>1. PairingInv'
      BY <1>5, PairingSame DEF Restart, RestartCoordinator
    <2>2. RegistryInv'
      BY <1>5
         DEF Restart, RestartCoordinator, grpcVars, RegistryInv, ClockOK, EntryOK,
             SinceTick, Slack, PairingFree
    <2> QED BY <2>1, <2>2
  <1>6. CASE UNCHANGED controlVars
    <2>1. PairingInv'
      BY <1>6, PairingSame DEF controlVars, vars
    <2>2. RegistryInv'
      BY <1>6
         DEF controlVars, vars, grpcVars, RegistryInv, ClockOK, EntryOK, SinceTick,
             Slack, PairingFree
    <2> QED BY <2>1, <2>2
  <1> QED
    BY <1>1, <1>2, <1>3, <1>4, <1>5, <1>6, BeginRegisterStep, FinishRegisterStep,
       HandleStep, SweepStep, TickStep
    DEF ControlNext, Working

(* ControlTypeOK: the types of the registry and of the pairing maps, and that
   the histories are about the nodes that are there. *)
THEOREM TypeCorrect == ControlSpec => []ControlTypeOK
  <1>1. ControlInit => IInv
    BY InitIInv
  <1>2. IInv /\ [ControlNext]_controlVars => IInv'
    BY NextIInv
  <1>3. IInv => ControlTypeOK
    BY DEF IInv, PairingInv, RegistryInv, EntryOK, ControlTypeOK
  <1> QED BY <1>1, <1>2, <1>3, PTL DEF ControlSpec

(* OneCertificateEach: a challenge is answered once and in time, in whatever
   order answers, cleanups, revocations and restarts come. *)
THEOREM CertificatesAreUnique == ControlSpec => []OneCertificateEach
  <1>1. ControlInit => IInv
    BY InitIInv
  <1>2. IInv /\ [ControlNext]_controlVars => IInv'
    BY NextIInv
  <1>3. IInv => OneCertificateEach
    BY DEF IInv, PairingInv
  <1> QED BY <1>1, <1>2, <1>3, PTL DEF ControlSpec

(* PlansOnServingNodes: a plan is accepted only for a node that was heard of
   recently and not told to drain since. *)
THEOREM PlansAreServed == ControlSpec => PlansOnServingNodes
  <1> DEFINE Safe ==
        \A n \in prepared' \ prepared :
          /\ heard[n].age <= SuspectAfter + SinceTick + Slack
          /\ ~heard[n].drained
  <1>1. ControlInit => IInv
    BY InitIInv
  <1>2. IInv /\ [ControlNext]_controlVars => IInv'
    BY NextIInv
  <1>3. IInv /\ [ControlNext]_controlVars => [Safe]_controlVars
    <2> SUFFICES ASSUME IInv, ControlNext, NEW n \in prepared' \ prepared
                 PROVE  heard[n].age <= SuspectAfter + SinceTick + Slack /\ ~heard[n].drained
      OBVIOUS
    <2>1. PreparePlan(n)
      BY DEF ControlNext, BeginRegister, FinishRegister, DropRegister, Pair, Handle,
             Heartbeat, Probe, Drain, PreparePlan, EndPlan, Working, MonitorWakes,
             MonitorSweeps, Crash, Restart, ControlTick, grpcVars
    <2> QED BY <2>1 DEF PreparePlan, Accepts, IInv, RegistryInv, EntryOK
  <1> HIDE DEF Safe
  <1>4. ControlSpec => [][Safe]_controlVars
    BY <1>1, <1>2, <1>3, PTL DEF ControlSpec
  <1> QED BY <1>4 DEF Safe, PlansOnServingNodes

-----------------------------------------------------------------------------
(* How long a drain lasts, DrainedNodesGetNoPlan being false: nothing but    *)
(* news of the node itself ends one or keeps its entry young, and no entry   *)
(* gets old in the registry.                                                 *)

LongestSilence == RemoveAfter + MonitorPeriod + LockDelay

\* The sweep is not late, and has left nothing that it had to remove.
SweptInTime ==
  /\ monitor.pc = "sweep" => SinceTick <= LockDelay
  /\ \A n \in DOMAIN nodes : nodes[n].age <= RemoveAfter + SinceTick + Slack

NobodyOverstays == \A n \in DOMAIN nodes : nodes[n].age <= LongestSilence

\* A node that is heard of, by a heartbeat or a probe, is no longer marked as
\* drained; without that, it stays drained, and with every unit of time its
\* entry gets older.
DrainsGoOn ==
  \A n \in DOMAIN nodes \cap DOMAIN nodes' : nodes[n].status = "Draining" =>
    \/ ~heard'[n].drained
    \/ /\ nodes'[n].status = "Draining"
       /\ nodes'[n].age = IF ControlTick THEN nodes[n].age + 1 ELSE nodes[n].age

LEMMA ClockValues ==
  ASSUME ClockOK
  PROVE  /\ SinceTick \in 0..MonitorPeriod
         /\ Slack \in {0, MonitorPeriod}
         /\ monitor.pc = "idle" => Slack = 0
         /\ monitor.pc = "sweep" => Slack = MonitorPeriod
         /\ monitor.pc \in {"idle", "sweep"}
  BY Numbers DEF ClockOK, SinceTick, Slack

LEMMA InTimeIsNotLong == IInv /\ SweptInTime => NobodyOverstays
  <1> SUFFICES ASSUME IInv, SweptInTime, NEW n \in DOMAIN nodes
               PROVE  nodes[n].age <= LongestSilence
    BY DEF NobodyOverstays
  <1>1. /\ nodes[n].age \in Nat /\ nodes[n].age <= RemoveAfter + SinceTick + Slack
        /\ ClockOK
    BY DEF IInv, RegistryInv, EntryOK, SweptInTime
  <1>2. SinceTick + Slack <= MonitorPeriod + LockDelay /\ SinceTick + Slack \in Nat
    BY <1>1, ClockValues, Numbers DEF SweptInTime
  <1> QED BY <1>1, <1>2, ClockValues, Numbers DEF LongestSilence

LEMMA NextSweptInTime ==
  ASSUME LockDelay <= RemoveAfter, IInv, SweptInTime, [ControlNext]_controlVars
  PROVE  SweptInTime'
  <1>0. /\ RegistryInv /\ ClockOK
        /\ \A n \in DOMAIN nodes : nodes[n].age \in Nat
        /\ SinceTick \in Nat /\ Slack \in Nat
    BY ClockValues, Numbers DEF IInv, RegistryInv, EntryOK
  <1>1. CASE /\ monitor' = monitor
             /\ \A n \in DOMAIN nodes' :
                  \/ n \in DOMAIN nodes /\ nodes'[n].age \in {0, nodes[n].age}
                  \/ nodes'[n].age \in 0..LockDelay
    <2>1. SinceTick' = SinceTick /\ Slack' = Slack
      BY <1>1 DEF SinceTick, Slack
    <2>2. \A n \in DOMAIN nodes' : nodes'[n].age <= RemoveAfter + SinceTick + Slack
      BY <1>0, <1>1, Numbers DEF SweptInTime
    <2> QED BY <1>1, <2>1, <2>2 DEF SweptInTime
  <1>2. CASE nodes' = nodes /\ monitor' = monitor
    BY <1>0, <1>1, <1>2
  <1>3. CASE FinishRegister
    BY <1>0, <1>1, <1>3 DEF FinishRegister, RegistryInv
  <1>4. ASSUME NEW n \in 1..issued, Handle(n) PROVE SweptInTime'
    <2>1. CASE Heartbeat(n) \/ Probe(n) \/ Drain(n)
      <3>1. monitor' = monitor /\ DOMAIN nodes' = DOMAIN nodes
        BY <2>1 DEF Heartbeat, Probe, Drain
      <3>2. ASSUME NEW m \in DOMAIN nodes PROVE nodes'[m].age \in {0, nodes[m].age}
        BY <1>0, <2>1 DEF Heartbeat, Probe, Drain, Refreshed, RegistryInv, EntryOK
      <3> QED BY <1>1, <3>1, <3>2
    <2>2. CASE PreparePlan(n) \/ EndPlan(n)
      BY <1>2, <2>2 DEF PreparePlan, EndPlan, vars
    <2> QED BY <1>4, <2>1, <2>2 DEF Handle
  <1>5. CASE MonitorWakes
    <2>1. /\ nodes' = nodes /\ monitor.pc = "idle" /\ monitor.due = 0
          /\ monitor' = [pc |-> "sweep", due |-> MonitorPeriod]
      BY <1>5 DEF MonitorWakes, MonitorTick
    <2>2. SinceTick = MonitorPeriod /\ Slack = 0 /\ SinceTick' = 0 /\ Slack' = MonitorPeriod
      BY <2>1, Numbers DEF SinceTick, Slack
    <2> QED BY <2>1, <2>2, Numbers DEF SweptInTime
  <1>6. CASE MonitorSweeps
    <2>1. /\ DOMAIN nodes' = {m \in DOMAIN nodes : ~Expired(m)}
          /\ \A m \in DOMAIN nodes' : nodes'[m] = Swept(m)
          /\ monitor.pc = "sweep" /\ monitor' = [monitor EXCEPT !.pc = "idle"]
      BY <1>6 DEF MonitorSweeps, MonitorSweep
    <2>2. SinceTick' = SinceTick /\ Slack' = 0 /\ monitor'.pc = "idle"
      BY <1>0, <2>1 DEF ClockOK, SinceTick, Slack
    <2>3. ASSUME NEW m \in DOMAIN nodes' PROVE nodes'[m].age <= RemoveAfter + SinceTick
      <3>1. m \in DOMAIN nodes /\ nodes[m].age - SinceTick <= RemoveAfter /\ nodes[m].age \in Nat
        BY <1>0, <2>1, Numbers DEF Expired, SilentFor
      <3>2. nodes'[m].age = nodes[m].age
        BY <1>0, <2>1, <3>1 DEF Swept, RegistryInv, EntryOK
      <3> QED BY <1>0, <3>1, <3>2, Numbers
    <2>4. RemoveAfter + SinceTick + 0 = RemoveAfter + SinceTick
      BY <1>0, Numbers
    <2> QED BY <2>2, <2>3, <2>4 DEF SweptInTime
  <1>7. CASE Crash
    <2>1. DOMAIN nodes' = {} /\ monitor'.pc = "idle"
      BY <1>7 DEF Crash, CrashCoordinator, MonitorInit
    <2> QED BY <2>1 DEF SweptInTime
  <1>8. CASE ControlTick
    <2>1. /\ MonitorOnTime /\ up' = up
          /\ monitor' = IF up THEN [monitor EXCEPT !.due = @ - 1] ELSE monitor
          /\ nodes' = [n \in DOMAIN nodes |-> [nodes[n] EXCEPT !.age = @ + 1]]
      BY <1>8 DEF ControlTick, Tick
    <2>2. \A n \in DOMAIN nodes : nodes'[n].age = nodes[n].age + 1
      BY <1>0, <2>1 DEF RegistryInv, EntryOK
    <2>3. CASE up
      <3>1. monitor' = [monitor EXCEPT !.due = monitor.due - 1]
        BY <2>1, <2>3
      <3>2. /\ monitor'.pc = monitor.pc /\ SinceTick' = SinceTick + 1 /\ Slack' = Slack
        BY <1>0, <3>1, Numbers DEF ClockOK, SinceTick, Slack
      <3>3. monitor'.pc = "sweep" => SinceTick' <= LockDelay
        BY <1>0, <2>1, <2>3, <3>2, Numbers DEF MonitorOnTime
      <3>4. \A n \in DOMAIN nodes' : nodes'[n].age <= RemoveAfter + SinceTick' + Slack'
        BY <1>0, <2>1, <2>2, <3>2, Numbers DEF SweptInTime
      <3> QED BY <3>3, <3>4 DEF SweptInTime
    <2>4. CASE ~up
      BY <1>0, <2>1, <2>4 DEF ClockOK, SweptInTime, SinceTick
    <2> QED BY <2>3, <2>4
  <1> QED
    BY <1>2, <1>3, <1>4, <1>5, <1>6, <1>7, <1>8
    DEF ControlNext, Working, BeginRegister, DropRegister, Pair, Restart,
        RestartCoordinator, controlVars, vars

LEMMA StepDrainsGoOn ==
  ASSUME IInv, [ControlNext]_controlVars
  PROVE  DrainsGoOn
  <1> SUFFICES ASSUME NEW n \in DOMAIN nodes \cap DOMAIN nodes',
                      nodes[n].status = "Draining", heard'[n].drained # FALSE
               PROVE  /\ nodes'[n].status = "Draining"
                      /\ nodes'[n].age = IF ControlTick THEN nodes[n].age + 1
                                                        ELSE nodes[n].age
    BY DEF DrainsGoOn
  <1>0. /\ nodes[n] \in [status : {"Healthy", "Suspect", "Draining"}, age : Nat]
        /\ DOMAIN heard = DOMAIN nodes
    BY DEF IInv, RegistryInv, EntryOK
  <1>1. CASE ControlTick
    <2>1. nodes'[n] = [nodes[n] EXCEPT !.age = @ + 1]
      BY <1>1 DEF ControlTick, Tick
    <2> QED BY <1>0, <1>1, <2>1
  <1>2. CASE nodes'[n] = nodes[n] /\ ~ControlTick
    BY <1>2
  <1>3. CASE FinishRegister /\ ~ControlTick
    <2>1. CASE n = registering.id
      BY <1>3, <2>1 DEF FinishRegister, Hear
    <2>2. CASE n # registering.id
      BY <1>2, <1>3, <2>2 DEF FinishRegister
    <2> QED BY <2>1, <2>2
  <1>4. ASSUME NEW m \in 1..issued, Handle(m), ~ControlTick
        PROVE  nodes'[n].status = "Draining" /\ nodes'[n].age = nodes[n].age
    <2>1. CASE Heartbeat(m) \/ Probe(m)
      <3>1. CASE n = m
        <4>1. Hear(n, 0)
          BY <2>1, <3>1 DEF Heartbeat, Probe
        <4>2. heard'[n] = [age |-> 0, drained |-> FALSE]
          BY <4>1 DEF Hear
        <4> QED BY <4>2
      <3>2. CASE n # m
        BY <2>1, <3>2 DEF Heartbeat, Probe
      <3> QED BY <3>1, <3>2
    <2>2. CASE Drain(m)
      BY <1>0, <2>2 DEF Drain
    <2>3. CASE PreparePlan(m) \/ EndPlan(m)
      BY <2>3 DEF PreparePlan, EndPlan, vars
    <2> QED BY <1>4, <2>1, <2>2, <2>3 DEF Handle
  <1>5. CASE MonitorSweeps /\ ~ControlTick
    <2>1. nodes'[n] = Swept(n)
      BY <1>5 DEF MonitorSweeps, MonitorSweep
    <2> QED BY <1>2, <1>5, <2>1 DEF Swept
  <1>6. CASE Crash
    BY <1>6 DEF Crash, CrashCoordinator
  <1> QED
    BY <1>1, <1>2, <1>3, <1>4, <1>5, <1>6
    DEF ControlNext, Working, BeginRegister, DropRegister, Pair, MonitorWakes, MonitorTick,
        Restart, RestartCoordinator, controlVars, vars

(* NobodyOverstays: no node, drained or not, stays in the registry for longer
   than the removal threshold, a monitor period and the wait for the lock
   after its last heartbeat, or its registration; a probe gains it nothing.
   The lock is had within the removal threshold. *)
THEOREM SilentNodesAreGone ==
  LockDelay <= RemoveAfter => (ControlSpec => []NobodyOverstays)
  <1> SUFFICES ASSUME LockDelay <= RemoveAfter PROVE ControlSpec => []NobodyOverstays
    OBVIOUS
  <1>1. ControlInit => IInv /\ SweptInTime
    BY InitIInv DEF ControlInit, Init, MonitorInit, SweptInTime
  <1>2. IInv /\ SweptInTime /\ [ControlNext]_controlVars => (IInv /\ SweptInTime)'
    BY NextIInv, NextSweptInTime
  <1>3. IInv /\ SweptInTime => NobodyOverstays
    BY InTimeIsNotLong
  <1> QED BY <1>1, <1>2, <1>3, PTL DEF ControlSpec

(* DrainsGoOn: only news of the node itself ends a drain: no sweep, no plan, no
   registration and no other node's heartbeat; and nothing else keeps the entry
   of a drained node from growing older. *)
THEOREM DrainsHold == ControlSpec => [][DrainsGoOn]_controlVars
  <1>1. ControlInit => IInv
    BY InitIInv
  <1>2. IInv /\ [ControlNext]_controlVars => IInv'
    BY NextIInv
  <1>3. IInv /\ [ControlNext]_controlVars => DrainsGoOn
    BY StepDrainsGoOn
  <1> QED BY <1>1, <1>2, <1>3, PTL DEF ControlSpec
=============================================================================
