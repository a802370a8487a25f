--------------------------- MODULE RegistryProofs ---------------------------
(***************************************************************************)
(* Proofs about ModelRegistry for every number of clients, models, nodes,  *)
(* calls and faults.                                                       *)
(***************************************************************************)
EXTENDS ModelRegistry, TLAPS

\* Whoever is in a call names a model, and whoever marks one, a node; the entry
\* of one whose file is being removed is gone, and stays away, since inserting
\* takes the same lock.
CallsNameModels ==
  \A c \in Clients :
    /\ call[c].pc # "none" => call[c].model \in Models
    /\ At(c, "unlink") => call[c].model \notin DOMAIN models
    /\ At(c, "mark") => call[c].node \in Nodes

Unwanted(m) ==
  /\ m \notin DOMAIN models
  /\ \A c \in Clients :
       call[c].model = m => call[c].pc \notin {"copying", "insert"}

\* Why a file can be relied on: it is whole, or the last copy to truncate it is
\* still writing it, or it is absent and nobody counts on it; or else a failed
\* copy, a crash or a removal has come in between.
Settled(m) ==
  \/ m \in disturbed
  \/ files[m] = "whole"
  \/ files[m] = "partial" /\ \E c \in Copiers(m) : call[c].clean
  \/ files[m] = "absent" /\ Unwanted(m)

IInv == TypeOK /\ CallsNameModels /\ \A m \in Models : Settled(m)

-----------------------------------------------------------------------------
LEMMA NoneIsNothing == None \notin Clients /\ None \notin Models /\ None \notin Nodes
  BY RegistryAssumption

LEMMA NoCallType == NoCall \in CallState
  BY DEF NoCall, CallState

LEMMA InitIInv == Init => IInv
  <1> SUFFICES ASSUME Init PROVE IInv
    OBVIOUS
  <1>1. TypeOK
    <2>1. \A c \in Clients : call[c].pc = "none"
      BY DEF Init, NoCall
    <2>2. /\ call \in [Clients -> CallState] /\ files \in [Models -> {"absent"}]
          /\ calls \in 0..MaxCalls /\ faults \in 0..MaxFaults
      BY RegistryAssumption, NoCallType DEF Init
    <2> QED BY <2>1, <2>2, NoneIsNothing DEF Init, TypeOK, At
  <1>2. CallsNameModels
    BY DEF Init, CallsNameModels, At, NoCall
  <1>3. ASSUME NEW m \in Models PROVE Settled(m)
    BY DEF Init, Settled, Unwanted, NoCall
  <1> QED BY <1>1, <1>2, <1>3 DEF IInv

\* A call that begins is in none of the states the invariant speaks of.
LEMMA CallStep ==
  ASSUME IInv, NEW c \in Clients, NEW m \in Models, NEW n \in Nodes \cup {None},
         NEW kind \in {"register", "unregister", "mark", "unmark"},
         NEW pc \in {"look", "remove", "mark", "unmark"},
         pc = "mark" => n \in Nodes, Call(c, kind, pc, m, n)
  PROVE  IInv'
  <1> DEFINE new == [NoCall EXCEPT !.kind = kind, !.pc = pc,
                                   !.model = m, !.node = n]
  <1> USE DEF IInv
  <1>1. /\ new \in CallState /\ new.pc = pc /\ new.model = m /\ new.node = n
    BY DEF NoCall, CallState
  <1>2. call' = [call EXCEPT ![c] = new]
    BY DEF Call
  <1> HIDE DEF new
  <1>3. UNCHANGED <<models, files, dirs, lock, faults, disturbed, abandoned>>
        /\ calls' \in 0..MaxCalls /\ call[c].pc = "none" /\ ~call[c].linked
    BY RegistryAssumption DEF Call, TypeOK, NoCall
  <1>4. TypeOK'
    BY <1>1, <1>2, <1>3 DEF TypeOK, At
  <1>5. CallsNameModels'
    BY <1>1, <1>2, <1>3 DEF TypeOK, CallsNameModels, At
  <1>6. ASSUME NEW k \in Models PROVE Settled(k)'
    BY <1>1, <1>2, <1>3 DEF TypeOK, Settled, Unwanted, Copiers, At
  <1> QED BY <1>4, <1>5, <1>6

-----------------------------------------------------------------------------
(* register_model *)

\* What a step of client c amounts to that leaves the calls of others alone and
\* the lock, the registry's entries and the files as they are.
LEMMA LookStep ==
  ASSUME IInv, NEW c \in Clients, LookForFile(c)
  PROVE  IInv'
  <1> USE DEF IInv
  <1> DEFINE m == call[c].model
  <1>1. /\ UNCHANGED <<models, files, dirs, lock, calls, faults, disturbed, abandoned>>
        /\ call' = [call EXCEPT ![c] = [@ EXCEPT !.pc = AfterLook(m)]]
        /\ call[c].pc = "look" /\ m \in Models /\ call[c] \in CallState
    BY DEF LookForFile, Goto, TypeOK, At, CallsNameModels
  <1>2. AfterLook(m) \in {"open", "insert"} /\ (files[m] = "absent" => AfterLook(m) = "open")
    BY DEF AfterLook
  <1>3. TypeOK'
    BY <1>1, <1>2 DEF TypeOK, CallState, At
  <1>4. CallsNameModels'
    BY <1>1, <1>2 DEF TypeOK, CallState, CallsNameModels, At
  <1>5. ASSUME NEW k \in Models PROVE Settled(k)'
    BY <1>1, <1>2 DEF TypeOK, CallState, Settled, Unwanted, Copiers, At
  <1> QED BY <1>3, <1>4, <1>5

LEMMA OpenStep ==
  ASSUME IInv, NEW c \in Clients, OpenCopy(c)
  PROVE  IInv'
  <1> USE DEF IInv
  <1>0. call[c].pc = "open" /\ call[c].model \in Models /\ call[c] \in CallState
    BY DEF OpenCopy, TypeOK, At, CallsNameModels
  <1> PICK m \in Models : m = call[c].model
    BY <1>0
  <1>1. /\ UNCHANGED <<models, dirs, lock, calls, faults, disturbed, abandoned>>
        /\ call[c].pc = "open" /\ call[c] \in CallState
    BY <1>0 DEF OpenCopy
  <1>2. CASE m \in dirs
    <2>1. /\ files' = [files EXCEPT ![m] = "partial"]
          /\ call' = [d \in Clients |->
                 IF d = c THEN [call[c] EXCEPT !.pc = "copying", !.linked = TRUE,
                                               !.clean = TRUE]
                 ELSE IF d \in Copiers(m) THEN [call[d] EXCEPT !.clean = FALSE]
                 ELSE call[d]]
      BY <1>2 DEF OpenCopy
    <2>2. /\ call'[c] = [call[c] EXCEPT !.pc = "copying", !.linked = TRUE, !.clean = TRUE]
          /\ \A d \in Copiers(m) : d # c => call'[d] = [call[d] EXCEPT !.clean = FALSE]
          /\ \A d \in Clients \ Copiers(m) : d # c => call'[d] = call[d]
      BY <2>1 DEF Copiers
    <2>3. \A d \in Clients :
            /\ call'[d] \in CallState
            /\ call'[d].model = call[d].model /\ call'[d].node = call[d].node
            /\ d # c => call'[d].pc = call[d].pc /\ call'[d].linked = call[d].linked
            /\ call[d].model # m => call'[d] = call[d]
            /\ d = c => call'[d].pc = "copying" /\ call'[d].linked /\ call'[d].clean
      <3> SUFFICES ASSUME NEW d \in Clients
                   PROVE  /\ call'[d] \in CallState
                          /\ call'[d].model = call[d].model
                          /\ call'[d].node = call[d].node
                          /\ d # c => call'[d].pc = call[d].pc
                                      /\ call'[d].linked = call[d].linked
                          /\ call[d].model # m => call'[d] = call[d]
                          /\ d = c => call'[d].pc = "copying" /\ call'[d].linked
                                      /\ call'[d].clean
        OBVIOUS
      <3>1. call[d] \in CallState
        BY DEF TypeOK
      <3>2. CASE d = c
        BY <1>1, <2>2, <3>2 DEF CallState
      <3>3. CASE d # c /\ d \in Copiers(m)
        <4>1. call'[d] = [call[d] EXCEPT !.clean = FALSE] /\ call[d].model = m
          BY <2>2, <3>3 DEF Copiers
        <4> QED BY <4>1, <3>1, <3>3 DEF CallState
      <3>4. CASE d # c /\ d \notin Copiers(m)
        BY <2>2, <3>1, <3>4
      <3> QED BY <3>2, <3>3, <3>4
    <2>4. TypeOK'
      <3>1. files' \in [Models -> {"absent", "partial", "whole"}]
        BY <2>1 DEF TypeOK
      <3>2. call' \in [Clients -> CallState]
        BY <2>1, <2>3
      <3>3. \A d \in Clients : call'[d].pc = "unlink" <=> call[d].pc = "unlink"
        BY <1>1, <2>3
      <3> QED BY <1>1, <3>1, <3>2, <3>3 DEF TypeOK, At
    <2>5. CallsNameModels'
      BY <1>1, <2>3 DEF CallsNameModels, At
    <2>6. Settled(m)'
      <3>1. files'[m] = "partial"
        BY <1>1, <2>1 DEF TypeOK
      <3>2. c \in Copiers(m)' /\ call'[c].clean
        BY <2>3 DEF Copiers, At
      <3> QED BY <3>1, <3>2 DEF Settled
    <2>7. ASSUME NEW k \in Models, k # m PROVE Settled(k)'
      <3>1. files'[k] = files[k] /\ disturbed' = disturbed /\ models' = models
        BY <1>1, <2>1, <2>7 DEF TypeOK
      <3>2. \A d \in Clients : call[d].model = k => call'[d] = call[d]
        BY <2>3, <2>7
      <3>3. \A d \in Clients : call'[d].model = call[d].model
        BY <2>3
      <3>4. \A d \in Copiers(k) : d \in Copiers(k)' /\ call'[d].clean = call[d].clean
        BY <3>2 DEF Copiers, At
      <3>5. Unwanted(k) => Unwanted(k)'
        BY <3>1, <3>2, <3>3 DEF Unwanted
      <3>6. Settled(k)
        OBVIOUS
      <3> QED BY <3>1, <3>4, <3>5, <3>6 DEF Settled
    <2> QED BY <2>4, <2>5, <2>6, <2>7
  <1>3. CASE m \notin dirs
    <2>1. call' = [call EXCEPT ![c] = NoCall] /\ files' = files
      BY <1>3 DEF OpenCopy, CannotOpen, Return
    <2>2. TypeOK'
      BY <1>1, <2>1, NoCallType, NoneIsNothing DEF TypeOK, At, NoCall
    <2>3. CallsNameModels'
      BY <1>1, <2>1 DEF TypeOK, CallsNameModels, At, NoCall
    <2>4. ASSUME NEW k \in Models PROVE Settled(k)'
      BY <1>1, <2>1, NoneIsNothing DEF TypeOK, Settled, Unwanted, Copiers, At, NoCall
    <2> QED BY <2>2, <2>3, <2>4
  <1> QED BY <1>2, <1>3

\* The last copy to truncate the file makes it whole; one that was truncated
\* may leave it as it is, and the last one is still writing it.
LEMMA FinishStep ==
  ASSUME IInv, NEW c \in Clients, FinishCopy(c)
  PROVE  IInv'
  <1> USE DEF IInv
  <1> DEFINE m == call[c].model
  <1>1. /\ UNCHANGED <<models, dirs, lock, calls, faults, abandoned>>
        /\ call' = [call EXCEPT ![c] = [@ EXCEPT !.pc = "insert"]]
        /\ call[c].pc = "copying" /\ m \in Models /\ call[c] \in CallState
    BY DEF FinishCopy, Goto, TypeOK, At, CallsNameModels
  <1>2. \/ files' = [files EXCEPT ![m] = "whole"] /\ disturbed' = disturbed \ {m}
        \/ UNCHANGED <<files, disturbed>> /\ ~(call[c].linked /\ call[c].clean)
    BY DEF FinishCopy
  <1>3. TypeOK'
    BY <1>1, <1>2 DEF TypeOK, CallState, At
  <1>4. CallsNameModels'
    BY <1>1 DEF TypeOK, CallState, CallsNameModels, At
  <1>5. ASSUME NEW k \in Models PROVE Settled(k)'
    BY <1>1, <1>2 DEF TypeOK, CallState, Settled, Unwanted, Copiers, At
  <1> QED BY <1>3, <1>4, <1>5

\* A call of client c is over, with an error or without one; nothing but its
\* own model's file is disturbed.
LEMMA ReturnStep ==
  ASSUME IInv, NEW c \in Clients, call' = [call EXCEPT ![c] = NoCall],
         call[c].pc \notin {"none", "unlink"},
         UNCHANGED <<files, dirs, lock, calls>>, faults' \in 0..MaxFaults,
         disturbed \subseteq disturbed', disturbed' \subseteq Models,
         abandoned' \subseteq Models,
         call[c].pc = "copying" => call[c].model \in disturbed',
         DOMAIN models' \subseteq Models,
         \A k \in DOMAIN models' : models'[k] \subseteq Nodes,
         \A k \in DOMAIN models' \ DOMAIN models :
           call[c].model = k /\ call[c].pc = "insert" /\ LockFree
  PROVE  IInv'
  <1> USE DEF IInv
  <1>1. TypeOK'
    BY NoCallType, NoneIsNothing DEF TypeOK, At, NoCall
  <1>2. CallsNameModels'
    BY NoneIsNothing DEF TypeOK, CallsNameModels, At, NoCall, LockFree
  <1>3. ASSUME NEW k \in Models PROVE Settled(k)'
    BY NoneIsNothing DEF TypeOK, Settled, Unwanted, Copiers, At, NoCall, CallsNameModels
  <1> QED BY <1>1, <1>2, <1>3

LEMMA InsertStep ==
  ASSUME IInv, NEW c \in Clients, InsertModel(c)
  PROVE  IInv'
  <1>1. /\ call' = [call EXCEPT ![c] = NoCall] /\ call[c].pc = "insert"
        /\ UNCHANGED <<files, dirs, lock, calls, faults, disturbed>>
        /\ models' = Insert(call[c].model) /\ LockFree
        /\ abandoned' = abandoned \ {call[c].model}
    BY DEF InsertModel, Return, At
  <1>2. call[c].model \in Models
    BY <1>1 DEF IInv, CallsNameModels
  <1>3. /\ DOMAIN models' = DOMAIN models \cup {call[c].model}
        /\ \A k \in DOMAIN models' :
             models'[k] = IF k = call[c].model THEN {} ELSE models[k]
    BY <1>1 DEF Insert
  <1>4. /\ DOMAIN models' \subseteq Models
        /\ \A k \in DOMAIN models' : models'[k] \subseteq Nodes
    BY <1>2, <1>3 DEF IInv, TypeOK
  <1>5. disturbed \subseteq Models /\ faults \in 0..MaxFaults /\ abandoned' \subseteq Models
    BY <1>1 DEF IInv, TypeOK
  <1> QED BY <1>1, <1>3, <1>4, <1>5, ReturnStep

LEMMA FailCopyStep ==
  ASSUME IInv, NEW c \in Clients, FailCopy(c)
  PROVE  IInv'
  <1>1. /\ call' = [call EXCEPT ![c] = NoCall] /\ call[c].pc = "copying"
        /\ UNCHANGED <<models, files, dirs, lock, calls>>
        /\ disturbed' = disturbed \cup {call[c].model}
        /\ Abandon(call[c].model)
        /\ faults < MaxFaults /\ faults' = faults + 1
    BY DEF FailCopy, Return, At, Fault
  <1>2. call[c].model \in Models
    BY <1>1 DEF IInv, CallsNameModels
  <1>3. /\ DOMAIN models' \subseteq Models /\ disturbed' \subseteq Models
        /\ abandoned' \subseteq Models
        /\ \A k \in DOMAIN models' : models'[k] \subseteq Nodes
    BY <1>1, <1>2 DEF IInv, TypeOK, Abandon
  <1>4. faults' \in 0..MaxFaults
    BY <1>1, RegistryAssumption DEF IInv, TypeOK
  <1>5. disturbed \subseteq disturbed' /\ call[c].model \in disturbed'
    BY <1>1
  <1> QED BY <1>1, <1>3, <1>4, <1>5, ReturnStep

-----------------------------------------------------------------------------
(* unregister_model *)

LEMMA RemoveStep ==
  ASSUME IInv, NEW c \in Clients, RemoveEntry(c)
  PROVE  IInv'
  <1> DEFINE m == call[c].model
  <1>1. /\ UNCHANGED <<files, dirs, calls, faults, disturbed, abandoned>>
        /\ call[c].pc = "remove" /\ m \in Models /\ call[c] \in CallState /\ LockFree
    BY DEF RemoveEntry, IInv, TypeOK, At, CallsNameModels
  <1>2. CASE m \in DOMAIN models
    <2> USE DEF IInv
    <2>1. /\ models' = [k \in DOMAIN models \ {m} |-> models[k]]
          /\ lock' = c /\ call' = [call EXCEPT ![c] = [@ EXCEPT !.pc = "unlink"]]
      BY <1>2 DEF RemoveEntry, Goto
    <2>2. TypeOK'
      BY <1>1, <2>1, NoneIsNothing DEF TypeOK, CallState, At, LockFree
    <2>3. CallsNameModels'
      BY <1>1, <2>1 DEF TypeOK, CallState, CallsNameModels, At
    <2>4. ASSUME NEW k \in Models PROVE Settled(k)'
      BY <1>1, <2>1 DEF TypeOK, CallState, Settled, Unwanted, Copiers, At
    <2> QED BY <2>2, <2>3, <2>4
  <1>3. CASE m \notin DOMAIN models
    <2>1. call' = [call EXCEPT ![c] = NoCall] /\ UNCHANGED <<models, lock>>
      BY <1>3 DEF RemoveEntry, Return
    <2>2. /\ DOMAIN models' \subseteq Models /\ disturbed' \subseteq Models
          /\ abandoned' \subseteq Models
          /\ \A k \in DOMAIN models' : models'[k] \subseteq Nodes
          /\ faults' \in 0..MaxFaults
      BY <1>1, <2>1 DEF IInv, TypeOK
    <2> QED BY <1>1, <2>1, <2>2, ReturnStep
  <1> QED BY <1>2, <1>3

LEMMA UnlinkStep ==
  ASSUME IInv, NEW c \in Clients, UnlinkFile(c)
  PROVE  IInv'
  <1>0. call[c].pc = "unlink" /\ call[c].model \in Models
    BY DEF UnlinkFile, IInv, At, CallsNameModels
  <1> PICK m \in Models : m = call[c].model
    BY <1>0
  <1>1. /\ call[c].pc = "unlink" /\ call[c] \in CallState
        /\ m \notin DOMAIN models
        /\ models' = models /\ dirs' = dirs /\ calls' = calls /\ faults' = faults
        /\ files' = [files EXCEPT ![m] = "absent"] /\ lock' = None
        /\ disturbed' = IF Looked(m) # {} THEN disturbed \cup {m} ELSE disturbed \ {m}
        /\ abandoned' = abandoned \ {m}
    BY DEF UnlinkFile, FileRemoved, IInv, TypeOK, At, CallsNameModels
  <1>2. call' = [d \in Clients |->
                   IF d = c THEN NoCall
                   ELSE IF d \in Copiers(m) THEN [call[d] EXCEPT !.linked = FALSE]
                   ELSE call[d]]
    BY DEF UnlinkFile
  <1>3. /\ call'[c] = NoCall
        /\ \A d \in Copiers(m) : d # c => call'[d] = [call[d] EXCEPT !.linked = FALSE]
        /\ \A d \in Clients \ Copiers(m) : d # c => call'[d] = call[d]
    BY <1>2 DEF Copiers
  <1>4. \A d \in Clients \ {c} :
          /\ call'[d] \in CallState
          /\ call'[d].model = call[d].model /\ call'[d].pc = call[d].pc
          /\ call'[d].node = call[d].node
          /\ call[d].model # m => call'[d] = call[d]
    <2> SUFFICES ASSUME NEW d \in Clients \ {c}
                 PROVE  /\ call'[d] \in CallState
                        /\ call'[d].model = call[d].model /\ call'[d].pc = call[d].pc
                        /\ call'[d].node = call[d].node
                        /\ call[d].model # m => call'[d] = call[d]
      OBVIOUS
    <2>1. call[d] \in CallState
      BY DEF IInv, TypeOK
    <2>2. CASE d \in Copiers(m)
      <3>1. /\ call'[d] = [call[d] EXCEPT !.linked = FALSE]
            /\ call[d].model = m
        BY <1>3, <2>2 DEF Copiers
      <3> QED BY <2>1, <3>1 DEF CallState
    <2>3. CASE d \notin Copiers(m)
      BY <1>3, <2>1, <2>3
    <2> QED BY <2>2, <2>3
  <1>5. TypeOK'
    BY <1>1, <1>2, <1>3, <1>4, NoCallType, NoneIsNothing DEF IInv, TypeOK, At, NoCall
  <1>6. CallsNameModels'
    BY <1>1, <1>3, <1>4 DEF IInv, CallsNameModels, At, NoCall
  <1>7. Settled(m)'
    <2>1. files'[m] = "absent"
      BY <1>1 DEF IInv, TypeOK
    <2>2. CASE Looked(m) # {}
      BY <1>1, <2>2 DEF Settled
    <2>3. CASE Looked(m) = {}
      <3>1. \A d \in Clients : call'[d].model = m => call'[d].pc \notin {"copying", "insert"}
        BY <1>3, <1>4, <2>3 DEF Looked, NoCall
      <3> QED BY <1>1, <2>1, <3>1 DEF Settled, Unwanted
    <2> QED BY <2>2, <2>3
  <1>8. ASSUME NEW k \in Models, k # m PROVE Settled(k)'
    <2>1. files'[k] = files[k] /\ (k \in disturbed' <=> k \in disturbed) /\ models' = models
      BY <1>1, <1>8 DEF IInv, TypeOK
    <2>2. \A d \in Copiers(k) : d \in Copiers(k)' /\ call'[d].clean = call[d].clean
      BY <1>1, <1>4, <1>8 DEF Copiers, At
    <2>3. Unwanted(k) => Unwanted(k)'
      BY <2>1, <1>3, <1>4, <1>8 DEF Unwanted, NoCall
    <2>4. Settled(k)
      BY DEF IInv
    <2> QED BY <2>1, <2>2, <2>3, <2>4 DEF Settled
  <1> QED BY <1>5, <1>6, <1>7, <1>8 DEF IInv

LEMMA FailUnlinkStep ==
  ASSUME IInv, NEW c \in Clients, FailUnlink(c)
  PROVE  IInv'
  <1> USE DEF IInv
  <1>1. /\ call' = [call EXCEPT ![c] = NoCall] /\ call[c].pc = "unlink" /\ lock' = None
        /\ UNCHANGED <<models, files, dirs, calls, disturbed>> /\ faults' = faults + 1
        /\ faults < MaxFaults /\ Abandon(call[c].model)
    BY DEF FailUnlink, Return, At, Fault
  <1>2. faults' \in 0..MaxFaults /\ abandoned' \subseteq Models
    BY <1>1, RegistryAssumption DEF TypeOK, Abandon, CallsNameModels
  <1>3. TypeOK'
    BY <1>1, <1>2, NoCallType, NoneIsNothing DEF TypeOK, At, NoCall
  <1>4. CallsNameModels'
    BY <1>1 DEF TypeOK, CallsNameModels, At, NoCall
  <1>5. ASSUME NEW k \in Models PROVE Settled(k)'
    BY <1>1, NoneIsNothing DEF TypeOK, Settled, Unwanted, Copiers, At, NoCall
  <1> QED BY <1>3, <1>4, <1>5

-----------------------------------------------------------------------------
(* mark_cached and unmark_cached, a restart, and the whole *)

LEMMA MarkStep ==
  ASSUME IInv, NEW c \in Clients, NEW pc \in {"mark", "unmark"}, NEW nodes \in SUBSET Nodes,
         Mark(c, pc, nodes)
  PROVE  IInv'
  <1>1. /\ call' = [call EXCEPT ![c] = NoCall] /\ call[c].pc = pc
        /\ UNCHANGED <<files, dirs, lock, calls, faults, disturbed, abandoned>>
        /\ models' = [k \in DOMAIN models |-> IF k = call[c].model THEN nodes ELSE models[k]]
    BY DEF Mark, Return, At
  <1>2. /\ DOMAIN models' = DOMAIN models
        /\ DOMAIN models' \subseteq Models /\ disturbed' \subseteq Models
        /\ abandoned' \subseteq Models
        /\ \A k \in DOMAIN models' : models'[k] \subseteq Nodes
        /\ faults' \in 0..MaxFaults
    BY <1>1 DEF IInv, TypeOK
  <1> QED BY <1>1, <1>2, ReturnStep

LEMMA DropStep ==
  ASSUME IInv, NEW c \in Clients, DropCall(c)
  PROVE  IInv'
  <1>1. /\ call' = [call EXCEPT ![c] = NoCall]
        /\ call[c].pc \in {"insert", "remove", "mark", "unmark"}
        /\ UNCHANGED <<models, files, dirs, lock, calls, faults, disturbed>>
    BY DEF DropCall, Return
  <1>2. call[c].model \in Models
    BY <1>1 DEF IInv, CallsNameModels
  <1>3. abandoned' \subseteq Models
    BY <1>2 DEF DropCall, Abandon, IInv, TypeOK
  <1>4. /\ DOMAIN models' \subseteq Models /\ disturbed' \subseteq Models
        /\ \A k \in DOMAIN models' : models'[k] \subseteq Nodes
        /\ faults' \in 0..MaxFaults
    BY <1>1 DEF IInv, TypeOK
  <1> QED BY <1>1, <1>3, <1>4, ReturnStep

LEMMA RestartStep ==
  ASSUME IInv, Restart
  PROVE  IInv'
  <1> USE DEF IInv
  <1>1. /\ models' = [m \in {} |-> {}] /\ call' = [c \in Clients |-> NoCall]
        /\ lock' = None /\ UNCHANGED <<files, dirs, calls>>
        /\ disturbed' = disturbed \cup {m \in Models : Copiers(m) # {}}
        /\ abandoned' = {m \in Models : files[m] # "absent"}
        /\ faults < MaxFaults /\ faults' = faults + 1
    BY DEF Restart, Fault
  <1>2. faults' \in 0..MaxFaults /\ abandoned' \subseteq Models
    BY <1>1, RegistryAssumption DEF TypeOK
  <1>3. TypeOK'
    BY <1>1, <1>2, NoCallType, NoneIsNothing DEF TypeOK, At, NoCall
  <1>4. CallsNameModels'
    BY <1>1 DEF CallsNameModels, At, NoCall
  <1>5. ASSUME NEW k \in Models PROVE Settled(k)'
    <2>1. DOMAIN models' = {} /\ \A c \in Clients : call'[c].pc = "none"
      BY <1>1 DEF NoCall
    <2>2. files'[k] = "absent" => Settled(k)'
      BY <2>1 DEF Settled, Unwanted
    <2> QED BY <1>1, <2>2 DEF Settled
  <1> QED BY <1>3, <1>4, <1>5

LEMMA NextIInv == IInv /\ [Next]_vars => IInv'
  <1> SUFFICES ASSUME IInv, [Next]_vars PROVE IInv'
    OBVIOUS
  <1>1. ASSUME NEW c \in Clients, NEW m \in Models,
               \/ Call(c, "register", "look", m, None)
               \/ Call(c, "unregister", "remove", m, None)
               \/ \E n \in Nodes : \/ Call(c, "mark", "mark", m, n)
                                   \/ Call(c, "unmark", "unmark", m, n)
        PROVE  IInv'
    BY <1>1, CallStep
  <1>2. ASSUME NEW c \in Clients, RegisterModel(c) PROVE IInv'
    BY <1>2, LookStep, OpenStep, FinishStep, FailCopyStep, InsertStep DEF RegisterModel
  <1>3. ASSUME NEW c \in Clients, UnregisterModel(c) PROVE IInv'
    BY <1>3, RemoveStep, UnlinkStep, FailUnlinkStep DEF UnregisterModel
  <1>4. ASSUME NEW c \in Clients, MarkCached(c) PROVE IInv'
    <2>1. call[c].node \in Nodes \cup {None} /\ CachedOn(call[c].model) \subseteq Nodes
      BY DEF IInv, TypeOK, CallState, CachedOn
    <2>2. With(call[c].model, call[c].node) \in SUBSET Nodes
      BY <1>4, <2>1 DEF MarkCached, Mark, IInv, CallsNameModels, With
    <2> QED BY <1>4, <2>2, MarkStep DEF MarkCached
  <1>5. ASSUME NEW c \in Clients, UnmarkCached(c) PROVE IInv'
    <2>1. CachedOn(call[c].model) \ {call[c].node} \in SUBSET Nodes
      BY DEF IInv, TypeOK, CachedOn
    <2> QED BY <1>5, <2>1, MarkStep DEF UnmarkCached
  <1>6. CASE Restart
    BY <1>6, RestartStep
  <1>7. ASSUME NEW c \in Clients, DropCall(c) PROVE IInv'
    BY <1>7, DropStep
  <1>8. CASE UNCHANGED vars
    BY <1>8 DEF vars, IInv, TypeOK, CallsNameModels, Settled, Unwanted, Copiers, At
  <1> QED BY <1>1, <1>2, <1>3, <1>4, <1>5, <1>6, <1>7, <1>8 DEF Next

-----------------------------------------------------------------------------
(* TypeOK: every call is in a state the code has, and whoever has taken an
   entry out of the registry holds the lock until the file is gone too. *)
THEOREM TypeCorrect == Spec => []TypeOK
  <1>1. Init => IInv
    BY InitIInv
  <1>2. IInv /\ [Next]_vars => IInv'
    BY NextIInv
  <1>3. IInv => TypeOK
    BY DEF IInv
  <1> QED BY <1>1, <1>2, <1>3, PTL DEF Spec

(* RegisteredFilesAreWhole: the file of a registered model is whole unless it
   is being written or a fault or a removal came in between, however many
   calls of register_model truncate it under each other. *)
THEOREM FilesAreWhole == Spec => []RegisteredFilesAreWhole
  <1>1. Init => IInv
    BY InitIInv
  <1>2. IInv /\ [Next]_vars => IInv'
    BY NextIInv
  <1>3. IInv => RegisteredFilesAreWhole
    BY DEF IInv, TypeOK, Settled, Unwanted, RegisteredFilesAreWhole
  <1> QED BY <1>1, <1>2, <1>3, PTL DEF Spec

-----------------------------------------------------------------------------
(* NoOrphans *)

\* Somebody answers for the file of m, the registry or an unfinished call, or
\* it was left behind; and what was left behind is there, and not registered.
Pending(m) ==
  \E c \in Clients :
    call[c].model = m /\ call[c].pc \in {"copying", "insert", "unlink"}

Accounted(m) ==
  /\ files[m] # "absent" => m \in DOMAIN models \/ m \in abandoned \/ Pending(m)
  /\ m \in abandoned => files[m] # "absent" /\ m \notin DOMAIN models

LEMMA OpenAccounted ==
  ASSUME IInv, NEW c \in Clients, OpenCopy(c), NEW m \in Models, Accounted(m)
  PROVE  Accounted(m)'
  <1> DEFINE k == call[c].model
  <1>1. models' = models /\ abandoned' = abandoned /\ call[c].pc = "open"
    BY DEF OpenCopy, At
  <1>2. \A d \in Clients : call[d] \in CallState
    BY DEF IInv, TypeOK
  <1>3. CASE k \in dirs
    <2>1. /\ files' = [files EXCEPT ![k] = "partial"]
          /\ call' = [d \in Clients |->
                 IF d = c THEN [call[c] EXCEPT !.pc = "copying", !.linked = TRUE,
                                               !.clean = TRUE]
                 ELSE IF d \in Copiers(k) THEN [call[d] EXCEPT !.clean = FALSE]
                 ELSE call[d]]
      BY <1>3 DEF OpenCopy
    <2>2. call'[c].pc = "copying" /\ call'[c].model = call[c].model
      BY <1>2, <2>1 DEF CallState
    <2>3. \A d \in Clients \ {c} : call'[d].pc = call[d].pc /\ call'[d].model = call[d].model
      BY <1>2, <2>1 DEF CallState
    <2>4. CASE k = m
      <3>1. files'[m] = "partial" /\ Pending(m)'
        BY <2>1, <2>2, <2>4 DEF IInv, TypeOK, Pending
      <3> QED BY <1>1, <3>1 DEF Accounted
    <2>5. CASE k # m
      <3>1. files'[m] = files[m]
        BY <2>1, <2>5 DEF IInv, TypeOK
      <3>2. Pending(m) => Pending(m)'
        BY <2>3, <2>5 DEF Pending
      <3> QED BY <1>1, <3>1, <3>2 DEF Accounted
    <2> QED BY <2>4, <2>5
  <1>4. CASE k \notin dirs
    <2>1. call' = [call EXCEPT ![c] = NoCall] /\ files' = files
      BY <1>4 DEF OpenCopy, CannotOpen, Return
    <2>2. Pending(m) => Pending(m)'
      BY <1>1, <2>1 DEF Pending, IInv, TypeOK
    <2> QED BY <1>1, <2>1, <2>2 DEF Accounted
  <1> QED BY <1>3, <1>4

\* A call that gives up what it had of the file of its model accounts for it.
LEMMA GiveUpAccounted ==
  ASSUME IInv, NEW c \in Clients, NEW m \in Models, Accounted(m),
         call' = [call EXCEPT ![c] = NoCall], UNCHANGED <<models, files>>,
         \/ Abandon(call[c].model)
         \/ abandoned' = abandoned /\ call[c].pc \notin {"copying", "insert", "unlink"}
  PROVE  Accounted(m)'
  <1>1. CASE call[c].model = m /\ Abandon(call[c].model)
    BY <1>1 DEF Abandon, Accounted
  <1>2. CASE call[c].model # m /\ Abandon(call[c].model)
    <2>1. m \in abandoned' <=> m \in abandoned
      BY <1>2 DEF Abandon
    <2>2. Pending(m) => Pending(m)'
      BY <1>2 DEF Pending, IInv, TypeOK
    <2> QED BY <2>1, <2>2 DEF Accounted
  <1>3. CASE abandoned' = abandoned /\ call[c].pc \notin {"copying", "insert", "unlink"}
    <2>1. Pending(m) => Pending(m)'
      BY <1>3 DEF Pending, IInv, TypeOK
    <2> QED BY <1>3, <2>1 DEF Accounted
  <1> QED BY <1>1, <1>2, <1>3

LEMMA UnlinkAccounted ==
  ASSUME IInv, NEW c \in Clients, UnlinkFile(c), NEW m \in Models, Accounted(m)
  PROVE  Accounted(m)'
  <1>1. /\ files' = [files EXCEPT ![call[c].model] = "absent"]
        /\ models' = models /\ abandoned' = abandoned \ {call[c].model}
    BY DEF UnlinkFile, FileRemoved
  <1>2. CASE call[c].model = m
    BY <1>1, <1>2 DEF Accounted, IInv, TypeOK
  <1>3. CASE call[c].model # m
    <2>1. call' = [d \in Clients |->
                 IF d = c THEN NoCall
                 ELSE IF d \in Copiers(call[c].model) THEN [call[d] EXCEPT !.linked = FALSE]
                 ELSE call[d]]
      BY DEF UnlinkFile
    <2>2. \A d \in Clients \ {c} : call'[d].pc = call[d].pc /\ call'[d].model = call[d].model
      BY <2>1 DEF IInv, TypeOK, CallState
    <2>3. Pending(m) => Pending(m)'
      BY <1>3, <2>2 DEF Pending
    <2>4. files'[m] = files[m] /\ (m \in abandoned' <=> m \in abandoned)
      BY <1>1, <1>3 DEF IInv, TypeOK
    <2> QED BY <1>1, <2>3, <2>4 DEF Accounted
  <1> QED BY <1>2, <1>3

LEMMA AccountedStep ==
  ASSUME IInv, [Next]_vars, NEW m \in Models, Accounted(m)
  PROVE  Accounted(m)'
  <1>1. ASSUME NEW c \in Clients, NEW k, NEW pc, NEW kind, NEW n, Call(c, kind, pc, k, n)
        PROVE  Accounted(m)'
    BY <1>1 DEF Call, IInv, TypeOK, NoCall, Accounted, Pending
  <1>2. ASSUME NEW c \in Clients, LookForFile(c) PROVE Accounted(m)'
    BY <1>2 DEF LookForFile, Goto, At, IInv, TypeOK, CallState, Accounted, Pending
  <1>3. ASSUME NEW c \in Clients, FinishCopy(c) PROVE Accounted(m)'
    BY <1>3 DEF FinishCopy, Goto, At, IInv, TypeOK, CallState, Accounted, Pending
  <1>4. ASSUME NEW c \in Clients, FailCopy(c) PROVE Accounted(m)'
    BY <1>4, GiveUpAccounted DEF FailCopy, Return
  <1>5. ASSUME NEW c \in Clients, InsertModel(c) PROVE Accounted(m)'
    BY <1>5 DEF InsertModel, Insert, Return, At, IInv, TypeOK, Accounted, Pending
  <1>6. ASSUME NEW c \in Clients, RemoveEntry(c) PROVE Accounted(m)'
    BY <1>6 DEF RemoveEntry, Goto, Return, At, IInv, TypeOK, CallState, Accounted, Pending
  <1>7. ASSUME NEW c \in Clients, FailUnlink(c) PROVE Accounted(m)'
    BY <1>7, GiveUpAccounted DEF FailUnlink, Return
  <1>8. ASSUME NEW c \in Clients, MarkCached(c) \/ UnmarkCached(c) PROVE Accounted(m)'
    BY <1>8 DEF MarkCached, UnmarkCached, Mark, Return, At, IInv, TypeOK, Accounted, Pending
  <1>9. ASSUME NEW c \in Clients, DropCall(c) PROVE Accounted(m)'
    BY <1>9, GiveUpAccounted DEF DropCall, Return, At
  <1>10. CASE Restart
    BY <1>10 DEF Restart, Accounted
  <1>11. CASE UNCHANGED vars
    BY <1>11 DEF vars, Accounted, Pending
  <1> QED BY <1>1, <1>2, <1>3, <1>4, <1>5, <1>6, <1>7, <1>8, <1>9, <1>10, <1>11,
             OpenAccounted, UnlinkAccounted
          DEF Next, RegisterModel, UnregisterModel

(* NoOrphans: whatever is dropped, fails or restarts, a file in the cache is
   registered, or in the hands of an unfinished call, or one of those left
   behind at such an event; and a file counts as left behind only while it is
   there and no unregister_model can find it. *)
THEOREM NoFileIsLeftBehind == Spec => []NoOrphans
  <1>1. NoOrphans <=> \A m \in Models : Accounted(m)
    BY DEF NoOrphans, Accounted, Pending
  <1>2. Init => IInv /\ \A m \in Models : Accounted(m)
    BY InitIInv DEF Init, Accounted
  <1>3. (IInv /\ \A m \in Models : Accounted(m)) /\ [Next]_vars
          => (IInv /\ \A m \in Models : Accounted(m))'
    BY NextIInv, AccountedStep
  <1> QED BY <1>1, <1>2, <1>3, PTL DEF Spec

-----------------------------------------------------------------------------
(* What is removed from the cache *)

(* A file leaves the cache only when its model is not registered: nobody
   registers it again between the removal of its entry and the removal of its
   file, since both happen under one lock, and no failed copy, restart or
   concurrent call takes the file of a registered model away. *)
THEOREM OnlyUnregisteredFilesGo ==
  Spec => [][\A m \in Models : files[m] # "absent" /\ files'[m] = "absent" =>
               m \notin DOMAIN models /\ m \notin DOMAIN models']_vars
  <1>1. Init => IInv
    BY InitIInv
  <1>2. IInv /\ [Next]_vars => IInv'
    BY NextIInv
  <1>3. IInv /\ [Next]_vars =>
          [\A m \in Models : files[m] # "absent" /\ files'[m] = "absent" =>
             m \notin DOMAIN models /\ m \notin DOMAIN models']_vars
    <2> SUFFICES ASSUME IInv, Next, NEW m \in Models,
                        files[m] # "absent", files'[m] = "absent"
                 PROVE  m \notin DOMAIN models /\ m \notin DOMAIN models'
      BY DEF vars
    <2>1. PICK c \in Clients : UnlinkFile(c)
      <3>1. ASSUME NEW c \in Clients, OpenCopy(c) \/ FinishCopy(c) PROVE FALSE
        BY <3>1 DEF OpenCopy, FinishCopy, IInv, TypeOK
      <3>2. files' # files
        OBVIOUS
      <3> QED BY <3>1, <3>2 DEF Next, Call, RegisterModel, LookForFile, FailCopy,
                 InsertModel, UnregisterModel, RemoveEntry, FailUnlink,
                 MarkCached, UnmarkCached, Mark, DropCall, Restart
    <2>2. call[c].model = m
      BY <2>1 DEF UnlinkFile, IInv, TypeOK
    <2>3. m \notin DOMAIN models
      BY <2>1, <2>2 DEF UnlinkFile, IInv, CallsNameModels
    <2> QED BY <2>1, <2>3 DEF UnlinkFile
  <1> QED BY <1>1, <1>2, <1>3, PTL DEF Spec
=============================================================================
