--------------------------- MODULE ModelRegistry ---------------------------
(***************************************************************************)
(* The model registry (services/model-registry): metadata of models in     *)
(* memory, under a tokio lock, and a content-addressed cache of their      *)
(* files on disk, under none.  register_model hashes a file, looks whether *)
(* the cache has its checksum, copies it there if not, and only then takes *)
(* the lock to insert the entry; unregister_model removes the file while   *)
(* it holds the lock.  Tasks on different threads interleave at every one  *)
(* of these steps, and a caller may drop its future while it waits for the *)
(* lock.                                                                   *)
(*                                                                         *)
(* A model stands for its checksum, hence for its path in the cache, and   *)
(* for its id, which has 16 digits of it: no two models share those.       *)
(* The files that are registered do not change, and nobody else touches    *)
(* the cache.                                                              *)
(***************************************************************************)
EXTENDS Integers, FiniteSets

CONSTANTS
  Clients,   \* tasks that call the registry
  Models,    \* model files, by their checksum
  Nodes,     \* nodes of the cluster
  None,      \* no client, no model, no node
  MaxCalls,  \* bound on the number of calls
  MaxFaults  \* bound on failed copies, failed removals and crashes

ASSUME RegistryAssumption ==
  /\ None \notin Clients \cup Models \cup Nodes
  /\ MaxCalls \in Nat /\ MaxFaults \in Nat

VARIABLES
  models,     \* the registry: model -> the nodes in its cached_nodes
  files,      \* what is at the model's path: "absent", "partial" or "whole"
  dirs,       \* models whose prefix directory is there; no code creates it
  call,       \* the call each client is in
  lock,       \* who has the lock over a step
  calls,      \* calls made so far
  faults,     \* faults so far
  disturbed,  \* history: files that a fault or a removal hit under a call
  abandoned   \* history: files that a dropped or failed call or a restart left

vars == <<models, files, dirs, call, lock, calls, faults, disturbed, abandoned>>

\* linked: the file that a copy writes is still the one at the path;
\* clean: nobody has truncated it since this copy began.
NoCall == [kind |-> "none", pc |-> "none", model |-> None, node |-> None,
           linked |-> FALSE, clean |-> FALSE]

Init ==
  /\ models = [m \in {} |-> {}]
  /\ files = [m \in Models |-> "absent"]
  /\ dirs \in SUBSET Models
  /\ call = [c \in Clients |-> NoCall]
  /\ lock = None
  /\ calls = 0 /\ faults = 0
  /\ disturbed = {} /\ abandoned = {}

-----------------------------------------------------------------------------
At(c, pc) == call[c].pc = pc
Goto(c, pc) == call' = [call EXCEPT ![c].pc = pc]
Return(c) == call' = [call EXCEPT ![c] = NoCall]
Fault == faults < MaxFaults /\ faults' = faults + 1

\* Nobody answers for the file of m any more, if there is one and it is not
\* registered.
Abandon(m) ==
  abandoned' = abandoned \cup {k \in {m} \ DOMAIN models : files[k] # "absent"}

\* The lock can be had (a bug: it is not asked for).
NotAsked == TRUE
LockFree == lock = None

Call(c, kind, pc, m, n) ==
  /\ call[c] = NoCall /\ calls < MaxCalls
  /\ call' = [call EXCEPT ![c] = [NoCall EXCEPT !.kind = kind, !.pc = pc,
                                   !.model = m, !.node = n]]
  /\ calls' = calls + 1
  /\ UNCHANGED <<models, files, dirs, lock, faults, disturbed, abandoned>>

\* Clients that write the file at the path of m.
Copiers(m) ==
  {c \in Clients : call[c].model = m /\ At(c, "copying") /\ call[c].linked}

\* Calls of register_model that have looked for the file already.
Looked(m) ==
  {c \in Clients : call[c].model = m /\ call[c].pc \in {"open", "copying", "insert"}}

-----------------------------------------------------------------------------
(* register_model *)

\* Where the call goes on once it has looked for the file.
AfterLook(m) == IF files[m] = "absent" THEN "open" ELSE "insert"

\* cached_path.exists(), after parsing and hashing.
LookForFile(c) ==
  /\ At(c, "look")
  /\ Goto(c, AfterLook(call[c].model))
  /\ UNCHANGED <<models, files, dirs, lock, calls, faults, disturbed, abandoned>>

\* Without the directory the copy fails, and with it the call (a bug: the
\* error is dropped).
GoesOn(c) == Goto(c, "insert")
CannotOpen(c) == Return(c)

\* fs::copy opens the target, which truncates it under other copies.
OpenCopy(c) ==
  LET m == call[c].model
  IN /\ At(c, "open")
     /\ IF m \in dirs
        THEN /\ files' = [files EXCEPT ![m] = "partial"]
             /\ call' = [d \in Clients |->
                  IF d = c THEN [call[c] EXCEPT !.pc = "copying", !.linked = TRUE,
                                                !.clean = TRUE]
                  ELSE IF d \in Copiers(m) THEN [call[d] EXCEPT !.clean = FALSE]
                  ELSE call[d]]
        ELSE CannotOpen(c) /\ files' = files
     /\ UNCHANGED <<models, dirs, lock, calls, faults, disturbed, abandoned>>

\* The file is whole again once a copy that nobody truncated is through; one
\* that was truncated may have written its beginning before or after that.
FinishCopy(c) ==
  LET m == call[c].model
  IN /\ At(c, "copying")
     /\ Goto(c, "insert")
     /\ \/ /\ call[c].linked
           /\ files' = [files EXCEPT ![m] = "whole"]
           /\ disturbed' = disturbed \ {m}
        \/ /\ ~(call[c].linked /\ call[c].clean)
           /\ UNCHANGED <<files, disturbed>>
     /\ UNCHANGED <<models, dirs, lock, calls, faults, abandoned>>

\* The disk is full, say: what was written stays.
FailCopy(c) ==
  /\ At(c, "copying") /\ Fault
  /\ Return(c)
  /\ disturbed' = disturbed \cup {call[c].model}
  /\ Abandon(call[c].model)
  /\ UNCHANGED <<models, files, dirs, lock, calls>>

\* The registry with the model in it, cached on no node.
Insert(m) == [k \in DOMAIN models \cup {m} |-> IF k = m THEN {} ELSE models[k]]

InsertModel(c) ==
  /\ At(c, "insert") /\ LockFree
  /\ models' = Insert(call[c].model)
  /\ Return(c)
  /\ abandoned' = abandoned \ {call[c].model}
  /\ UNCHANGED <<files, dirs, lock, calls, faults, disturbed>>

RegisterModel(c) ==
  LookForFile(c) \/ OpenCopy(c) \/ FinishCopy(c) \/ FailCopy(c) \/ InsertModel(c)

-----------------------------------------------------------------------------
(* unregister_model: both steps under the lock *)

RemoveEntry(c) ==
  LET m == call[c].model
  IN /\ At(c, "remove") /\ LockFree
     /\ IF m \in DOMAIN models
        THEN /\ models' = [k \in DOMAIN models \ {m} |-> models[k]]
             /\ lock' = c
             /\ Goto(c, "unlink")
        ELSE Return(c) /\ UNCHANGED <<models, lock>>
     /\ UNCHANGED <<files, dirs, calls, faults, disturbed, abandoned>>

\* What unregistering leaves at the path (a bug: the file).
FileKept(m) == files[m]
FileRemoved(m) == "absent"

\* Copies under way go on with a file that has no name any more.
UnlinkFile(c) ==
  LET m == call[c].model
  IN /\ At(c, "unlink")
     /\ files' = [files EXCEPT ![m] = FileRemoved(m)]
     /\ call' = [d \in Clients |->
                   IF d = c THEN NoCall
                   ELSE IF d \in Copiers(m) THEN [call[d] EXCEPT !.linked = FALSE]
                   ELSE call[d]]
     /\ lock' = None
     /\ disturbed' = IF Looked(m) # {} THEN disturbed \cup {m}
                                          ELSE disturbed \ {m}
     /\ abandoned' = abandoned \ {m}
     /\ UNCHANGED <<models, dirs, calls, faults>>

\* remove_file fails: a warning.
FailUnlink(c) ==
  /\ At(c, "unlink") /\ Fault
  /\ lock' = None
  /\ Abandon(call[c].model)
  /\ Return(c)
  /\ UNCHANGED <<models, files, dirs, calls, disturbed>>

UnregisterModel(c) == RemoveEntry(c) \/ UnlinkFile(c) \/ FailUnlink(c)

-----------------------------------------------------------------------------
(* mark_cached, unmark_cached; a model that is not there is an error *)

Mark(c, pc, nodes) ==
  LET m == call[c].model
  IN /\ At(c, pc) /\ LockFree
     /\ models' = [k \in DOMAIN models |-> IF k = m THEN nodes ELSE models[k]]
     /\ Return(c)
     /\ UNCHANGED <<files, dirs, lock, calls, faults, disturbed, abandoned>>

CachedOn(m) == IF m \in DOMAIN models THEN models[m] ELSE {}

\* cached_nodes with one more node.
With(m, n) == CachedOn(m) \cup {n}

MarkCached(c) == Mark(c, "mark", With(call[c].model, call[c].node))
UnmarkCached(c) == Mark(c, "unmark", CachedOn(call[c].model) \ {call[c].node})

-----------------------------------------------------------------------------
\* The caller drops the future of its call while that waits for the lock.  A
\* registration has its file in the cache by then, or counts on the file it
\* found there.
DropCall(c) ==
  /\ call[c].pc \in {"insert", "remove", "mark", "unmark"}
  /\ Return(c)
  /\ IF At(c, "insert") THEN Abandon(call[c].model) ELSE UNCHANGED abandoned
  /\ UNCHANGED <<models, files, dirs, lock, calls, faults, disturbed>>

\* The process ends and is started again: the registry is empty, the cache
\* is as it was.
Restart ==
  /\ Fault
  /\ models' = [m \in {} |-> {}]
  /\ call' = [c \in Clients |-> NoCall]
  /\ lock' = None
  /\ disturbed' = disturbed \cup {m \in Models : Copiers(m) # {}}
  /\ abandoned' = {m \in Models : files[m] # "absent"}
  /\ UNCHANGED <<files, dirs, calls>>

Next ==
  \/ \E c \in Clients :
       \/ \E m \in Models :
            \/ Call(c, "register", "look", m, None)
            \/ Call(c, "unregister", "remove", m, None)
            \/ \E n \in Nodes : \/ Call(c, "mark", "mark", m, n)
                                \/ Call(c, "unmark", "unmark", m, n)
       \/ RegisterModel(c) \/ UnregisterModel(c)
       \/ MarkCached(c) \/ UnmarkCached(c)
       \/ DropCall(c)
  \/ Restart

Spec == Init /\ [][Next]_vars

-----------------------------------------------------------------------------
(* Properties *)

CallState ==
  [kind : {"none", "register", "unregister", "mark", "unmark"},
   pc : {"none", "look", "open", "copying", "insert", "remove", "unlink",
         "mark", "unmark"},
   model : Models \cup {None}, node : Nodes \cup {None},
   linked : BOOLEAN, clean : BOOLEAN]

\* Types, and the lock: whoever has taken an entry out holds it until the
\* file is removed too.
TypeOK ==
  /\ DOMAIN models \subseteq Models
  /\ \A m \in DOMAIN models : models[m] \subseteq Nodes
  /\ files \in [Models -> {"absent", "partial", "whole"}]
  /\ dirs \subseteq Models
  /\ call \in [Clients -> CallState]
  /\ lock \in Clients \cup {None}
  /\ \A c \in Clients : At(c, "unlink") <=> lock = c
  /\ calls \in 0..MaxCalls /\ faults \in 0..MaxFaults
  /\ disturbed \subseteq Models /\ abandoned \subseteq Models

\* The file of a registered model is whole unless somebody is writing it at
\* this moment, a copy of it failed or was cut off by a crash, or it was
\* removed by an unregister_model that overtook a register_model.
RegisteredFilesAreWhole ==
  \A m \in DOMAIN models :
    files[m] = "whole" \/ Copiers(m) # {} \/ m \in disturbed

\* Every file in the cache is answered for: by the registry, by a call that is
\* not finished, or it was left behind when a registration was dropped or
\* failed, a removal failed or the process ended; and those left behind are
\* files that are there and that no unregister_model can find.
NoOrphans ==
  \A m \in Models :
    /\ files[m] # "absent" =>
         \/ m \in DOMAIN models \cup abandoned
         \/ \E c \in Clients : call[c].model = m /\ call[c].pc \in {"copying", "insert", "unlink"}
    /\ m \in abandoned => files[m] # "absent" /\ m \notin DOMAIN models

=============================================================================
