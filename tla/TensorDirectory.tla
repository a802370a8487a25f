-------------------------- MODULE TensorDirectory ---------------------------
(***************************************************************************)
(* The tensor directory (services/tensor-directory): which nodes hold a    *)
(* copy of each tensor, and an index from nodes to tensors, in two maps    *)
(* with a lock each.                                                       *)
(*                                                                         *)
(* Calls are tasks.  Most take the lock of `tensors', then, holding it,    *)
(* that of `node_tensors'; evict_from_node and get_tensors_on_node take    *)
(* them the other way round.  The locks are tokio's, which are fair: a     *)
(* request waits for those made before it, readers for a waiting writer    *)
(* too.  What is done under both locks is one step.  A call can be dropped *)
(* while it waits for a lock, which is how async Rust cancels: it leaves   *)
(* the queue and gives up the lock it holds, but what it has done to       *)
(* `tensors' stays, and the index never learns of it.                      *)
(***************************************************************************)
EXTENDS Integers, Sequences, SequencesExt

CONSTANTS
  Tensors,   \* tensor ids
  Nodes,     \* node ids
  Tasks,     \* concurrent callers
  NoTensor, NoNode,  \* arguments a call does not have
  MaxCalls   \* bound on the number of calls

ASSUME DirectoryAssumption ==
  /\ NoTensor \notin Tensors /\ NoNode \notin Nodes
  /\ MaxCalls \in Nat

VARIABLES
  tensors,       \* id -> [placed: copies on each node, version]
  node_tensors,  \* node -> how often its list names each tensor
  call,          \* the call each task is in
  stage,         \* how many locks it has obtained
  waiting,       \* the queue of each lock
  calls,         \* calls made so far
  missed,        \* history: copies on each node whose caller was dropped
                 \* before the list of the node named them
  stale          \* history: mentions in the lists of copies that are gone

vars == <<tensors, node_tensors, call, stage, waiting, calls, missed, stale>>
maps == <<tensors, node_tensors>>
history == <<missed, stale>>

-----------------------------------------------------------------------------
(* Calls and locks *)

Call(kind, x, n, to) == [kind |-> kind, tensor |-> x, node |-> n, to |-> to]

NoCall == Call("none", NoTensor, NoNode, NoNode)

\* "get" is get_tensor, "scan" get_tensors_by_session and
\* get_tensors_for_replication, "on_node" get_tensors_on_node.
Calls ==
  {Call(k, x, n, NoNode) :
     k \in {"register", "add", "remove"}, x \in Tensors, n \in Nodes}
  \cup {Call("transfer", x, n, to) : x \in Tensors, n \in Nodes, to \in Nodes}
  \cup {Call(k, NoTensor, n, NoNode) : k \in {"evict", "on_node"}, n \in Nodes}
  \cup {Call("get", x, NoNode, NoNode) : x \in Tensors}
  \cup {Call(k, NoTensor, NoNode, NoNode) : k \in {"scan", "stats"}}

Locks == {"tensors", "node_tensors"}
Other(lock) == IF lock = "tensors" THEN "node_tensors" ELSE "tensors"

\* The lock a call takes first (a bug: get_stats takes them the other way).
FirstLockStatsToo(kind) ==
  IF kind \in {"evict", "on_node", "stats"} THEN "node_tensors" ELSE "tensors"
FirstLock(kind) ==
  IF kind \in {"evict", "on_node"} THEN "node_tensors" ELSE "tensors"

\* Calls that take their locks for reading.
Reads(kind) == kind \in {"scan", "transfer", "on_node", "stats"}

Holders(lock) ==
  {t \in Tasks : stage[t] = "second" /\ FirstLock(call[t].kind) = lock}

Granted(t, lock) ==
  /\ waiting[lock] # <<>> /\ Head(waiting[lock]) = t
  /\ \A u \in Holders(lock) : Reads(call[t].kind) /\ Reads(call[u].kind)

\* The task has the first lock it asked for, or both.
HasFirst(t, kinds) ==
  /\ stage[t] = "first" /\ call[t].kind \in kinds
  /\ Granted(t, FirstLock(call[t].kind))

HasBoth(t, kinds) ==
  /\ stage[t] = "second" /\ call[t].kind \in kinds
  /\ Granted(t, Other(FirstLock(call[t].kind)))

\* It holds the first and queues for the second, or returns.
AskSecond(t) ==
  LET lock == FirstLock(call[t].kind)
  IN /\ stage' = [stage EXCEPT ![t] = "second"]
     /\ waiting' = [waiting EXCEPT ![lock] = Tail(@),
                                   ![Other(lock)] = Append(@, t)]
     /\ UNCHANGED <<call, calls>>

Return(t, lock) ==
  /\ stage' = [stage EXCEPT ![t] = "idle"]
  /\ call' = [call EXCEPT ![t] = NoCall]
  /\ waiting' = [waiting EXCEPT ![lock] = Tail(@)]
  /\ UNCHANGED calls

ReturnFirst(t) == Return(t, FirstLock(call[t].kind))
ReturnSecond(t) == Return(t, Other(FirstLock(call[t].kind)))

-----------------------------------------------------------------------------
Init ==
  /\ tensors = [x \in {} |-> 0]
  /\ node_tensors = [n \in Nodes |-> [x \in Tensors |-> 0]]
  /\ call = [t \in Tasks |-> NoCall]
  /\ stage = [t \in Tasks |-> "idle"]
  /\ waiting = [lock \in Locks |-> <<>>]
  /\ calls = 0
  /\ missed = [n \in Nodes |-> [x \in Tensors |-> 0]]
  /\ stale = [n \in Nodes |-> [x \in Tensors |-> 0]]

Begin(t, c) ==
  /\ stage[t] = "idle" /\ calls < MaxCalls
  /\ call' = [call EXCEPT ![t] = c]
  /\ stage' = [stage EXCEPT ![t] = "first"]
  /\ waiting' = [waiting EXCEPT ![FirstLock(c.kind)] = Append(@, t)]
  /\ calls' = calls + 1
  /\ UNCHANGED <<maps, history>>

Put(x, entry) ==
  tensors' = [y \in DOMAIN tensors \cup {x} |->
                IF y = x THEN entry ELSE tensors[y]]

Known(t) == call[t].tensor \in DOMAIN tensors

Copies(x, n) == IF x \in DOMAIN tensors THEN tensors[x].placed[n] ELSE 0

\* Of the copies of x on the nodes in `from', which are thrown away, those the
\* lists name leave a mention behind, the others are no longer missed.
Forget(x, from) ==
  /\ missed' = [n \in Nodes |-> IF n \in from THEN [missed[n] EXCEPT ![x] = 0]
                                             ELSE missed[n]]
  /\ stale' = [n \in Nodes |->
                 IF n \in from
                 THEN [stale[n] EXCEPT ![x] = @ + Copies(x, n) - missed[n][x]]
                 ELSE stale[n]]

-----------------------------------------------------------------------------
(* register_tensor and add_placement *)

\* A registration replaces the entry there is, whose index stays.
RegisterTensor(t) ==
  /\ HasFirst(t, {"register"})
  /\ Put(call[t].tensor,
         [placed |-> [n \in Nodes |-> IF n = call[t].node THEN 1 ELSE 0],
          version |-> 1])
  /\ AskSecond(t)
  /\ Forget(call[t].tensor, Nodes)
  /\ UNCHANGED node_tensors

\* One more copy (a bug: the version is forgotten).
PlacedSilently(e, n) == [e EXCEPT !.placed = [@ EXCEPT ![n] = @ + 1]]
Placed(e, n) == [placed |-> [e.placed EXCEPT ![n] = @ + 1],
                 version |-> e.version + 1]

AddPlacement(t) ==
  /\ HasFirst(t, {"add"})
  /\ Known(t)
  /\ Put(call[t].tensor, Placed(tensors[call[t].tensor], call[t].node))
  /\ AskSecond(t)
  /\ UNCHANGED <<node_tensors, history>>

IndexPlacement(t) ==
  /\ HasBoth(t, {"register", "add"})
  /\ node_tensors' = [node_tensors EXCEPT ![call[t].node][call[t].tensor] = @ + 1]
  /\ ReturnSecond(t)
  /\ UNCHANGED <<tensors, history>>

-----------------------------------------------------------------------------
(* remove_placement *)

\* retain: no copy is left on the node (a bug: only one of them goes).
WithoutOneCopy(placed, n) == [placed EXCEPT ![n] = @ - 1]
Without(placed, n) == [placed EXCEPT ![n] = 0]

Nowhere(placed) == \A n \in Nodes : placed[n] = 0

RemovePlacement(t) ==
  /\ HasFirst(t, {"remove"})
  /\ Known(t)
  /\ LET x == call[t].tensor
         left == Without(tensors[x].placed, call[t].node)
     IN IF Nowhere(left)
        THEN tensors' = [y \in DOMAIN tensors \ {x} |-> tensors[y]]
        ELSE Put(x, [placed |-> left, version |-> tensors[x].version + 1])
  /\ AskSecond(t)
  /\ Forget(call[t].tensor, {call[t].node})
  /\ UNCHANGED node_tensors

\* The node's list without the tensor (a bug: without any).
Cleared(list, x) == [y \in Tensors |-> 0]
Unlisted(list, x) == [list EXCEPT ![x] = 0]

UnindexPlacement(t) ==
  /\ HasBoth(t, {"remove"})
  /\ node_tensors' = [node_tensors EXCEPT
                        ![call[t].node] = Unlisted(@, call[t].tensor)]
  /\ stale' = [stale EXCEPT ![call[t].node][call[t].tensor] = 0]
  /\ ReturnSecond(t)
  /\ UNCHANGED <<tensors, missed>>

-----------------------------------------------------------------------------
(* transfer_tensor *)

OnSource(t) ==
  Known(t) /\ tensors[call[t].tensor].placed[call[t].node] > 0

\* The source is checked under a lock that is released before the new
\* placement is added.
VerifySource(t) ==
  /\ HasFirst(t, {"transfer"}) /\ OnSource(t)
  /\ call' = [call EXCEPT ![t] = Call("add", @.tensor, @.to, NoNode)]
  /\ waiting' = [waiting EXCEPT !["tensors"] = Append(Tail(@), t)]
  /\ UNCHANGED <<maps, stage, calls, history>>

\* "Tensor not found", "Tensor not on source node".
NotFound(t) ==
  /\ \/ HasFirst(t, {"add", "remove"}) /\ ~Known(t)
     \/ HasFirst(t, {"transfer"}) /\ ~OnSource(t)
  /\ ReturnFirst(t)
  /\ UNCHANGED <<maps, history>>

-----------------------------------------------------------------------------
(* evict_from_node, and the calls that only read *)

HoldFirst(t) ==
  /\ HasFirst(t, {"evict", "on_node", "stats"})
  /\ AskSecond(t)
  /\ UNCHANGED <<maps, history>>

\* Every tensor the node's list names loses its copies there; its version
\* goes up each time the list names it, unless it is left with no copy.
EvictFromNode(t) ==
  /\ HasBoth(t, {"evict"})
  /\ LET n == call[t].node
         listed == {x \in DOMAIN tensors : node_tensors[n][x] > 0}
         left(x) == Without(tensors[x].placed, n)
         gone == {x \in listed : Nowhere(left(x))}
     IN /\ tensors' =
             [x \in DOMAIN tensors \ gone |->
                IF x \in listed
                THEN [placed |-> left(x),
                      version |-> tensors[x].version + node_tensors[n][x]]
                ELSE tensors[x]]
        /\ node_tensors' = [node_tensors EXCEPT ![n] = [x \in Tensors |-> 0]]
        /\ missed' = [missed EXCEPT ![n] =
                        [x \in Tensors |-> IF node_tensors[n][x] > 0 THEN 0 ELSE @[x]]]
        /\ stale' = [stale EXCEPT ![n] = [x \in Tensors |-> 0]]
  /\ ReturnSecond(t)

Read(t) ==
  /\ HasFirst(t, {"get", "scan"})
  /\ ReturnFirst(t)
  /\ UNCHANGED <<maps, history>>

ReadBoth(t) ==
  /\ HasBoth(t, {"on_node", "stats"})
  /\ ReturnSecond(t)
  /\ UNCHANGED <<maps, history>>

-----------------------------------------------------------------------------
(* A call dropped while it waits *)

WaitsFor(t, lock) ==
  \/ stage[t] = "first" /\ FirstLock(call[t].kind) = lock
  \/ stage[t] = "second" /\ Other(FirstLock(call[t].kind)) = lock

\* It has placed a copy and not yet indexed it.
Indexes(t, x, n) ==
  /\ stage[t] = "second" /\ call[t].kind \in {"register", "add"}
  /\ call[t].tensor = x /\ call[t].node = n

DropCall(t) ==
  /\ \E lock \in Locks : \E i \in 1..Len(waiting[lock]) :
       /\ WaitsFor(t, lock) /\ waiting[lock][i] = t
       /\ waiting' = [waiting EXCEPT ![lock] = RemoveAt(@, i)]
  /\ stage' = [stage EXCEPT ![t] = "idle"]
  /\ call' = [call EXCEPT ![t] = NoCall]
  /\ missed' = [n \in Nodes |-> [x \in Tensors |->
                  IF Indexes(t, x, n) THEN missed[n][x] + 1 ELSE missed[n][x]]]
  /\ UNCHANGED <<maps, calls, stale>>

-----------------------------------------------------------------------------
Proceed(t) ==
  \/ RegisterTensor(t) \/ AddPlacement(t) \/ IndexPlacement(t)
  \/ RemovePlacement(t) \/ UnindexPlacement(t)
  \/ VerifySource(t) \/ NotFound(t)
  \/ HoldFirst(t) \/ EvictFromNode(t) \/ Read(t) \/ ReadBoth(t)

Next ==
  \E t \in Tasks : Proceed(t) \/ DropCall(t) \/ \E c \in Calls : Begin(t, c)

Spec == Init /\ [][Next]_vars

\* Tasks run; nobody has to call, or to drop a call.
FairSpec == Spec /\ \A t \in Tasks : WF_vars(Proceed(t))

-----------------------------------------------------------------------------
(* Properties *)

TypeOK ==
  /\ DOMAIN tensors \subseteq Tensors
  /\ \A x \in DOMAIN tensors :
       tensors[x] \in [placed : [Nodes -> Nat], version : Nat \ {0}]
  /\ node_tensors \in [Nodes -> [Tensors -> Nat]]
  /\ call \in [Tasks -> Calls \cup {NoCall}]
  /\ stage \in [Tasks -> {"idle", "first", "second"}]
  /\ waiting \in [Locks -> Seq(Tasks)]
  /\ calls \in 0..MaxCalls
  /\ missed \in [Nodes -> [Tensors -> Nat]]
  /\ stale \in [Nodes -> [Tensors -> Nat]]

Indexing(x, n) == IF \E t \in Tasks : Indexes(t, x, n) THEN 1 ELSE 0

\* The two maps agree, copy by copy and mention by mention, although they
\* change under different locks: the list of each node names a tensor as often
\* as it has copies there, but for the copy some caller is about to index, those
\* whose caller was dropped before it did, and the mentions that replaced
\* registrations and unfinished removals leave.  So get_tensors_on_node and
\* evict_from_node miss no other copy, show no other ghost, and count none twice;
\* and a tensor the directory shows is somewhere.
IndexAddsUp ==
  /\ \A x \in Tensors, n \in Nodes :
       node_tensors[n][x] + missed[n][x] + Indexing(x, n) = Copies(x, n) + stale[n][x]
  /\ \A x \in DOMAIN tensors : ~Nowhere(tensors[x].placed)

\* What AtomicDirectory says of the directory: the nodes that have a copy of
\* each tensor, the callers that only have to change the index and return, and
\* the tensors an eviction of each node may overlook.
Where == [x \in Tensors |->
            IF x \in DOMAIN tensors
            THEN {n \in Nodes : tensors[x].placed[n] > 0} ELSE {}]
Done == [t \in Tasks |->
           stage[t] = "second" /\ call[t].kind \in {"register", "add", "remove"}]

Hidden == [n \in Nodes |-> {x \in Tensors : missed[n][x] > 0}]

Atomic == INSTANCE AtomicDirectory
            WITH where <- Where, done <- Done, hidden <- Hidden

\* Each call takes effect in one step or, if its caller is dropped, in one step
\* or none, on one map and under no lock as it were; an eviction finds all copies
\* on the node, though it looks for them in the index, but for those whose caller
\* was dropped half-way; and calls find a tensor exactly if it has a copy.
CallsAreAtomic == Atomic!Spec

\* Whoever remembers a tensor's version notices that its copies have changed
\* since, unless the tensor was registered anew.
VersionsTellChanges ==
  [][\A x \in DOMAIN tensors \cap DOMAIN tensors' :
       tensors'[x].placed # tensors[x].placed =>
         tensors'[x].version > tensors[x].version \/ tensors'[x].version = 1]_vars

\* Whatever else is under way, the calls never all wait for each other unless an
\* eviction or a listing of a node has `node_tensors' while a call that takes its
\* locks in the usual order has `tensors'.
OrderedCallsProceed ==
  \/ \A t \in Tasks : stage[t] = "idle"
  \/ \E t \in Tasks : \/ HasFirst(t, {call[t].kind})
                      \/ HasBoth(t, {call[t].kind})
  \/ \E t, u \in Tasks :
       /\ stage[t] = "second" /\ call[t].kind \in {"evict", "on_node"}
       /\ stage[u] = "second" /\ call[u].kind \notin {"evict", "on_node"}

\* "Evict tensors from a node (for node drain or memory pressure)": an
\* eviction that is asked for takes place.
EvictionEnds ==
  \A t \in Tasks : call[t].kind = "evict" ~> stage[t] = "idle"

=============================================================================
