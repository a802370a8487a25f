-------------------------- MODULE AtomicDirectory ---------------------------
(***************************************************************************)
(* What the tensor directory promises its callers: one map from tensors to *)
(* the nodes that have a copy, on which every call takes effect in a       *)
(* single step between its beginning and its return, or in none if it is   *)
(* given up.  There are no locks, no index of nodes, and an eviction sees  *)
(* all copies at once, but for those whose caller gave up before it was    *)
(* told of them.  Only a transfer has two steps: the check of its source,  *)
(* and an addition.                                                        *)
(***************************************************************************)
CONSTANTS
  Tensors, Nodes, Tasks,
  Calls,   \* what a task may ask for
  NoCall   \* it asks for nothing

VARIABLES
  where,  \* the nodes that have a copy of each tensor; none: not registered
  call,   \* the call each task is in
  done,   \* whether it has taken effect and only has to return
  hidden  \* the tensors whose copies on each node an eviction may overlook

vars == <<where, call, done, hidden>>

Init ==
  /\ where = [x \in Tensors |-> {}]
  /\ call = [t \in Tasks |-> NoCall]
  /\ done = [t \in Tasks |-> FALSE]
  /\ hidden = [n \in Nodes |-> {}]

Begin(t, c) ==
  /\ call[t] = NoCall
  /\ call' = [call EXCEPT ![t] = c]
  /\ UNCHANGED <<where, done, hidden>>

Pending(t, kinds) == call[t].kind \in kinds /\ ~done[t]

Return(t) == call' = [call EXCEPT ![t] = NoCall]

\* The copies of the call's tensor become `nodes'.
Effect(t, nodes) ==
  /\ where' = [where EXCEPT ![call[t].tensor] = nodes]
  /\ done' = [done EXCEPT ![t] = TRUE]
  /\ UNCHANGED call

Register(t) ==
  /\ Pending(t, {"register"})
  /\ Effect(t, {call[t].node})
  /\ hidden' = [n \in Nodes |-> hidden[n] \ {call[t].tensor}]

Registered(t) == where[call[t].tensor] # {}

Add(t) ==
  /\ Pending(t, {"add"}) /\ Registered(t)
  /\ Effect(t, where[call[t].tensor] \cup {call[t].node})
  /\ UNCHANGED hidden

Remove(t) ==
  /\ Pending(t, {"remove"}) /\ Registered(t)
  /\ Effect(t, where[call[t].tensor] \ {call[t].node})
  /\ hidden' = [hidden EXCEPT ![call[t].node] = @ \ {call[t].tensor}]

OnSource(t) == call[t].node \in where[call[t].tensor]

\* The rest of a transfer is an addition.
Verify(t) ==
  /\ Pending(t, {"transfer"}) /\ OnSource(t)
  /\ \E c \in Calls :
       /\ c.kind = "add" /\ c.tensor = call[t].tensor /\ c.node = call[t].to
       /\ call' = [call EXCEPT ![t] = c]
  /\ UNCHANGED <<where, done, hidden>>

\* What is not there cannot be added to, removed or transferred.
NotFound(t) ==
  /\ \/ Pending(t, {"add", "remove"}) /\ ~Registered(t)
     \/ Pending(t, {"transfer"}) /\ ~OnSource(t)
  /\ Return(t)
  /\ UNCHANGED <<where, done, hidden>>

Evict(t) ==
  /\ Pending(t, {"evict"})
  /\ \E overlooked \in SUBSET hidden[call[t].node] :
       /\ where' = [x \in Tensors |-> IF x \in overlooked THEN where[x]
                                      ELSE where[x] \ {call[t].node}]
       /\ hidden' = [hidden EXCEPT ![call[t].node] = overlooked]
  /\ Return(t)
  /\ UNCHANGED done

Read(t) ==
  /\ Pending(t, {"get", "scan", "on_node", "stats"})
  /\ Return(t)
  /\ UNCHANGED <<where, done, hidden>>

Finish(t) ==
  /\ done[t]
  /\ done' = [done EXCEPT ![t] = FALSE]
  /\ Return(t)
  /\ UNCHANGED <<where, hidden>>

\* Given up before it took effect, or after: then nobody is told of the copy.
GiveUp(t) ==
  /\ call[t] # NoCall
  /\ done' = [done EXCEPT ![t] = FALSE]
  /\ Return(t)
  /\ hidden' = [n \in Nodes |->
                  IF done[t] /\ call[t].kind \in {"register", "add"} /\ call[t].node = n
                  THEN hidden[n] \cup {call[t].tensor} ELSE hidden[n]]
  /\ UNCHANGED where

Next ==
  \E t \in Tasks :
    \/ \E c \in Calls : Begin(t, c)
    \/ Register(t) \/ Add(t) \/ Remove(t) \/ Verify(t) \/ NotFound(t)
    \/ Evict(t) \/ Read(t) \/ Finish(t) \/ GiveUp(t)

Spec == Init /\ [][Next]_vars
=============================================================================
