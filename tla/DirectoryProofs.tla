--------------------------- MODULE DirectoryProofs ---------------------------
(***************************************************************************)
(* Proofs about TensorDirectory for any number of tensors, nodes, callers  *)
(* and calls: of two callers that hold the same lock both only read        *)
(* (Control), so that a copy is removed, or placed and not yet indexed, by *)
(* at most one caller at a time (Data), dropped callers or not.            *)
(***************************************************************************)
EXTENDS TensorDirectory, SequenceTheorems, TLAPS

TensorCalls == {"register", "add", "remove", "transfer"}
Writing == {"register", "add", "remove"}
TwoLocked == {"register", "add", "remove", "evict", "on_node", "stats"}

Holds(t, lock) == stage[t] = "second" /\ FirstLock(call[t].kind) = lock

Control ==
  /\ call \in [Tasks -> Calls \cup {NoCall}]
  /\ stage \in [Tasks -> {"idle", "first", "second"}]
  /\ waiting \in [Locks -> Seq(Tasks)]
  /\ calls \in 0..MaxCalls
  /\ \A t \in Tasks : stage[t] = "idle" <=> call[t] = NoCall
  /\ \A t \in Tasks : stage[t] = "second" => call[t].kind \in TwoLocked
  /\ \A t, u \in Tasks : \A lock \in Locks :
       t # u /\ Holds(t, lock) /\ Holds(u, lock) => Reads(call[t].kind)

Counts == [Nodes -> [Tensors -> Nat]]

Entry == [placed : [Nodes -> Nat], version : Nat \ {0}]

\* A removal has taken the tensor from the node, whose list names it still.
Removing(t) == stage[t] = "second" /\ call[t].kind = "remove"

\* Nothing is missed, or being indexed, that is not there.
Data ==
  /\ DOMAIN tensors \subseteq Tensors
  /\ \A x \in DOMAIN tensors : tensors[x] \in Entry
  /\ node_tensors \in Counts /\ missed \in Counts /\ stale \in Counts
  /\ IndexAddsUp
  /\ \A x \in Tensors, n \in Nodes :
       missed[n][x] + Indexing(x, n) <= Copies(x, n)
  /\ \A t \in Tasks : Removing(t) => Copies(call[t].tensor, call[t].node) = 0

IInv == Control /\ Data

-----------------------------------------------------------------------------
(* Calls and locks *)

LEMMA CallFacts ==
  ASSUME NEW c \in Calls
  PROVE  /\ c.kind # "none" /\ c # NoCall
         /\ c.kind \in TensorCalls => c.tensor \in Tensors /\ c.node \in Nodes
         /\ c.kind = "transfer" => c.to \in Nodes
         /\ c.kind \in {"evict", "on_node"} => c.node \in Nodes
         /\ c.kind \in TensorCalls \cup {"evict", "on_node", "get", "scan", "stats"}
  BY DEF Calls, Call, NoCall, TensorCalls

LEMMA AddIsACall ==
  ASSUME NEW x \in Tensors, NEW n \in Nodes
  PROVE  /\ Call("add", x, n, NoNode) \in Calls
         /\ Call("add", x, n, NoNode).kind = "add"
         /\ Call("add", x, n, NoNode).tensor = x
         /\ Call("add", x, n, NoNode).node = n
  BY DEF Calls, Call

LEMMA LockFacts ==
  \A kind : FirstLock(kind) \in Locks /\ Other(FirstLock(kind)) \in Locks
            /\ Other(FirstLock(kind)) # FirstLock(kind)
  BY DEF FirstLock, Locks, Other

\* A caller in a call is in one of Calls.
LEMMA InACall ==
  ASSUME Control, NEW t \in Tasks, stage[t] # "idle"
  PROVE  call[t] \in Calls
  BY DEF Control

\* Whoever is granted a lock for writing finds nobody who holds it.
LEMMA GrantedAlone ==
  ASSUME NEW t \in Tasks, NEW lock, Granted(t, lock), ~Reads(call[t].kind)
  PROVE  \A u \in Tasks : ~Holds(u, lock)
  BY DEF Granted, Holders, Holds

LEMMA GrantedReading ==
  ASSUME NEW t \in Tasks, NEW lock, Granted(t, lock), NEW u \in Tasks, Holds(u, lock)
  PROVE  Reads(call[t].kind) /\ Reads(call[u].kind)
  BY DEF Granted, Holders, Holds

LEMMA QueueTail ==
  ASSUME NEW q \in Seq(Tasks), q # <<>>, NEW t \in Tasks
  PROVE  Tail(q) \in Seq(Tasks) /\ Append(Tail(q), t) \in Seq(Tasks)
         /\ Append(q, t) \in Seq(Tasks)
  OBVIOUS

LEMMA BeginControl ==
  ASSUME Control, NEW t \in Tasks, NEW c \in Calls, Begin(t, c)
  PROVE  Control'
  <1>1. /\ stage[t] = "idle" /\ calls < MaxCalls /\ calls' = calls + 1
        /\ call' = [call EXCEPT ![t] = c] /\ stage' = [stage EXCEPT ![t] = "first"]
        /\ waiting' = [waiting EXCEPT ![FirstLock(c.kind)] = Append(@, t)]
    BY DEF Begin
  <1>2. waiting' \in [Locks -> Seq(Tasks)]
    <2>1. FirstLock(c.kind) \in Locks
      BY LockFacts
    <2> QED BY <1>1, <2>1 DEF Control
  <1>3. call' \in [Tasks -> Calls \cup {NoCall}] /\ stage' \in [Tasks -> {"idle", "first", "second"}]
    BY <1>1 DEF Control
  <1>4. calls' \in 0..MaxCalls
    BY <1>1, DirectoryAssumption DEF Control
  <1>5. c # NoCall
    BY CallFacts
  <1>6. \A u \in Tasks : stage'[u] = "idle" <=> call'[u] = NoCall
    BY <1>1, <1>5 DEF Control
  <1>7. \A u \in Tasks : stage'[u] = "second" => u # t /\ stage[u] = "second" /\ call'[u] = call[u]
    BY <1>1 DEF Control
  <1>8. \A u \in Tasks : \A lock \in Locks :
          Holds(u, lock)' => Holds(u, lock) /\ call'[u] = call[u]
    BY <1>7 DEF Holds
  <1> QED BY <1>2, <1>3, <1>4, <1>6, <1>7, <1>8 DEF Control

LEMMA AskControl ==
  ASSUME Control, NEW t \in Tasks, HasFirst(t, TwoLocked), AskSecond(t)
  PROVE  Control'
  <1> DEFINE lock == FirstLock(call[t].kind)
  <1>1. /\ stage[t] = "first" /\ call[t].kind \in TwoLocked /\ Granted(t, lock)
        /\ stage' = [stage EXCEPT ![t] = "second"]
        /\ waiting' = [waiting EXCEPT ![lock] = Tail(@), ![Other(lock)] = Append(@, t)]
        /\ call' = call /\ calls' = calls
    BY DEF HasFirst, AskSecond
  <1>2. lock \in Locks /\ Other(lock) \in Locks /\ lock # Other(lock)
    BY LockFacts
  <1>3. waiting[lock] # <<>>
    BY <1>1 DEF Granted
  <1>4. Tail(waiting[lock]) \in Seq(Tasks) /\ Append(waiting[Other(lock)], t) \in Seq(Tasks)
    BY <1>2, <1>3 DEF Control
  <1>5. waiting' \in [Locks -> Seq(Tasks)]
    <2> HIDE DEF lock
    <2> QED BY <1>1, <1>2, <1>4 DEF Control
  <1>6. \A u \in Tasks : stage'[u] = IF u = t THEN "second" ELSE stage[u]
    BY <1>1 DEF Control
  <1>7. ASSUME NEW u \in Tasks, NEW v \in Tasks, NEW l \in Locks,
               u # v, Holds(u, l)', Holds(v, l)'
        PROVE  Reads(call[u].kind)
    <2>1. CASE u = t
      BY <1>1, <1>6, <1>7, <2>1, GrantedReading DEF Holds
    <2>2. CASE v = t
      BY <1>1, <1>6, <1>7, <2>2, GrantedReading DEF Holds
    <2>3. CASE u # t /\ v # t
      BY <1>1, <1>6, <1>7, <2>3 DEF Holds, Control
    <2> QED BY <2>1, <2>2, <2>3
  <1>8. /\ \A u \in Tasks : stage'[u] = "idle" <=> call'[u] = NoCall
        /\ \A u \in Tasks : stage'[u] = "second" => call'[u].kind \in TwoLocked
    BY <1>1, <1>6 DEF Control
  <1>9. stage' \in [Tasks -> {"idle", "first", "second"}]
    BY <1>1 DEF Control
  <1> QED BY <1>1, <1>5, <1>7, <1>8, <1>9 DEF Control

LEMMA ReturnControl ==
  ASSUME Control, NEW t \in Tasks, NEW lock \in Locks, Granted(t, lock), Return(t, lock)
  PROVE  /\ Control'
         /\ stage' = [stage EXCEPT ![t] = "idle"] /\ call' = [call EXCEPT ![t] = NoCall]
         /\ \A u \in Tasks : stage'[u] = "second" =>
              u # t /\ stage[u] = "second" /\ call'[u] = call[u]
  <1>1. /\ stage' = [stage EXCEPT ![t] = "idle"]
        /\ call' = [call EXCEPT ![t] = NoCall]
        /\ waiting' = [waiting EXCEPT ![lock] = Tail(@)] /\ calls' = calls
    BY DEF Return
  <1>2. Tail(waiting[lock]) \in Seq(Tasks)
    <2>1. waiting[lock] # <<>>
      BY DEF Granted
    <2> QED BY <2>1 DEF Control
  <1>3. waiting' \in [Locks -> Seq(Tasks)]
    BY <1>1, <1>2 DEF Control
  <1>4. call' \in [Tasks -> Calls \cup {NoCall}] /\ stage' \in [Tasks -> {"idle", "first", "second"}]
    BY <1>1 DEF Control
  <1>5. \A u \in Tasks : stage'[u] = "idle" <=> call'[u] = NoCall
    BY <1>1 DEF Control
  <1>6. \A u \in Tasks : stage'[u] = "second" => u # t /\ stage[u] = "second" /\ call'[u] = call[u]
    BY <1>1 DEF Control
  <1> QED BY <1>1, <1>3, <1>4, <1>5, <1>6 DEF Control, Holds

LEMMA RemoveAtIs ==
  ASSUME NEW S, NEW q \in Seq(S), NEW i \in 1..Len(q)
  PROVE  /\ RemoveAt(q, i) \in Seq(S) /\ Len(RemoveAt(q, i)) = Len(q) - 1
         /\ \A j \in 1..(Len(q) - 1) :
              RemoveAt(q, i)[j] = IF j < i THEN q[j] ELSE q[j + 1]
  <1> DEFINE left == SubSeq(q, 1, i - 1)
             right == SubSeq(q, i + 1, Len(q))
  <1>0. Len(q) \in Nat /\ i \in Nat /\ 1 <= i /\ i <= Len(q)
    OBVIOUS
  <1>1. /\ left \in Seq(S) /\ Len(left) = i - 1
        /\ \A j \in 1..(i - 1) : left[j] = q[j]
    <2>1. \A j \in 1..(i - 1) : q[j] \in S
      BY <1>0
    <2>2. i - 1 \in Int /\ 1 \in Int
      BY <1>0
    <2>3. /\ left \in Seq(S)
          /\ Len(left) = IF 1 <= i - 1 THEN (i - 1) - 1 + 1 ELSE 0
          /\ \A j \in 1..((i - 1) - 1 + 1) : left[j] = q[1 + j - 1]
      BY <2>1, <2>2, SubSeqProperties
    <2> QED BY <1>0, <2>3
  <1>2. /\ right \in Seq(S) /\ Len(right) = Len(q) - i
        /\ \A j \in 1..(Len(q) - i) : right[j] = q[i + j]
    <2>1. \A j \in (i + 1)..Len(q) : q[j] \in S
      BY <1>0
    <2>2. i + 1 \in Int /\ Len(q) \in Int
      BY <1>0
    <2>3. /\ right \in Seq(S)
          /\ Len(right) = IF i + 1 <= Len(q) THEN Len(q) - (i + 1) + 1 ELSE 0
          /\ \A j \in 1..(Len(q) - (i + 1) + 1) : right[j] = q[(i + 1) + j - 1]
      BY <2>1, <2>2, SubSeqProperties
    <2> QED BY <1>0, <2>3
  <1>3. RemoveAt(q, i) = left \o right
    BY DEF RemoveAt
  <1> HIDE DEF left, right
  <1>4. /\ left \o right \in Seq(S)
        /\ Len(left \o right) = Len(left) + Len(right)
        /\ \A j \in 1..(Len(left) + Len(right)) :
             (left \o right)[j] = IF j <= Len(left) THEN left[j] ELSE right[j - Len(left)]
    BY <1>1, <1>2, ConcatProperties
  <1>5. ASSUME NEW j \in 1..(Len(q) - 1)
        PROVE  (left \o right)[j] = IF j < i THEN q[j] ELSE q[j + 1]
    <2>0. /\ Len(left) = i - 1 /\ j \in 1..(Len(left) + Len(right)) /\ j \in Nat
          /\ j <= Len(left) <=> j < i
      BY <1>0, <1>1, <1>2
    <2> DEFINE both == left \o right
    <2>1. both[j] = IF j < i THEN left[j] ELSE right[j - (i - 1)]
      <3>1. both[j] = IF j <= Len(left) THEN left[j] ELSE right[j - Len(left)]
        BY <1>4, <2>0
      <3> HIDE DEF both
      <3> QED BY <2>0, <3>1
    <2> HIDE DEF both
    <2>2. CASE j < i
      <3>1. left[j] = q[j]
        BY <1>0, <1>1, <2>2
      <3>2. both[j] = q[j]
        BY <2>1, <2>2, <3>1
      <3> QED BY <2>2, <3>2 DEF both
    <2>3. CASE ~(j < i)
      <3>1. j - (i - 1) \in 1..(Len(q) - i) /\ i + (j - (i - 1)) = j + 1
        BY <1>0, <2>3
      <3>2. right[j - (i - 1)] = q[j + 1]
        BY <1>2, <3>1
      <3>3. both[j] = q[j + 1]
        BY <2>1, <2>3, <3>2
      <3> QED BY <2>3, <3>3 DEF both
    <2> QED BY <2>2, <2>3
  <1>6. /\ RemoveAt(q, i) \in Seq(S) /\ Len(RemoveAt(q, i)) = Len(q) - 1
    BY <1>0, <1>1, <1>2, <1>3, <1>4
  <1> QED BY <1>3, <1>5, <1>6

LEMMA DropControl ==
  ASSUME Control, NEW t \in Tasks, DropCall(t)
  PROVE  Control'
  <1>0. PICK lock \in Locks : \E i \in 1..Len(waiting[lock]) :
          waiting' = [waiting EXCEPT ![lock] = RemoveAt(@, i)]
    BY DEF DropCall
  <1>1. PICK i \in 1..Len(waiting[lock]) :
          waiting' = [waiting EXCEPT ![lock] = RemoveAt(@, i)]
    BY <1>0
  <1>2. /\ stage' = [stage EXCEPT ![t] = "idle"]
        /\ call' = [call EXCEPT ![t] = NoCall] /\ calls' = calls
    BY DEF DropCall
  <1>3. RemoveAt(waiting[lock], i) \in Seq(Tasks)
    <2>1. waiting[lock] \in Seq(Tasks)
      BY DEF Control
    <2> QED BY <2>1, RemoveAtIs
  <1>4. waiting' \in [Locks -> Seq(Tasks)]
    BY <1>1, <1>3 DEF Control
  <1>5. call' \in [Tasks -> Calls \cup {NoCall}] /\ stage' \in [Tasks -> {"idle", "first", "second"}]
    BY <1>2 DEF Control
  <1>6. \A u \in Tasks : stage'[u] = "idle" <=> call'[u] = NoCall
    BY <1>2 DEF Control
  <1>7. \A u \in Tasks : stage'[u] = "second" => u # t /\ stage[u] = "second" /\ call'[u] = call[u]
    BY <1>2 DEF Control
  <1> QED BY <1>2, <1>4, <1>5, <1>6, <1>7 DEF Control, Holds

LEMMA VerifyControl ==
  ASSUME Control, DOMAIN tensors \subseteq Tensors, NEW t \in Tasks, VerifySource(t)
  PROVE  /\ Control' /\ stage' = stage /\ stage[t] = "first"
         /\ call[t].kind = "transfer" /\ call[t] \in Calls
         /\ call' = [call EXCEPT ![t] = Call("add", call[t].tensor, call[t].to, NoNode)]
         /\ call'[t] \in Calls /\ call'[t].kind = "add"
         /\ call'[t].tensor = call[t].tensor /\ call'[t].node = call[t].to
  <1> DEFINE add == Call("add", call[t].tensor, call[t].to, NoNode)
  <1>1. /\ stage[t] = "first" /\ call[t].kind = "transfer" /\ Granted(t, "tensors")
        /\ call' = [call EXCEPT ![t] = add] /\ stage' = stage /\ calls' = calls
        /\ waiting' = [waiting EXCEPT !["tensors"] = Append(Tail(@), t)]
    BY DEF VerifySource, HasFirst, FirstLock
  <1>2. call[t] \in Calls
    BY <1>1, InACall
  <1>3. add \in Calls /\ add.kind = "add" /\ add.tensor = call[t].tensor /\ add.node = call[t].to
    BY <1>1, <1>2, CallFacts, AddIsACall DEF TensorCalls
  <1> HIDE DEF add
  <1>4. waiting' \in [Locks -> Seq(Tasks)]
    <2>1. waiting["tensors"] # <<>> /\ waiting["tensors"] \in Seq(Tasks)
      BY <1>1 DEF Granted, Control, Locks
    <2>2. Append(Tail(waiting["tensors"]), t) \in Seq(Tasks)
      BY <2>1, QueueTail
    <2> QED BY <1>1, <2>2 DEF Control
  <1>5. /\ call' \in [Tasks -> Calls \cup {NoCall}] /\ call'[t] = add
        /\ \A u \in Tasks : u # t => call'[u] = call[u]
    BY <1>1, <1>3 DEF Control
  <1>6. add # NoCall
    BY <1>3, CallFacts
  <1>7. Control'
    BY <1>1, <1>4, <1>5, <1>6 DEF Control, Holds
  <1> QED BY <1>1, <1>2, <1>3, <1>5, <1>7 DEF add

-----------------------------------------------------------------------------
(* The two maps *)

LEMMA FirstGranted ==
  ASSUME NEW t \in Tasks, NEW kinds \in SUBSET TensorCalls, HasFirst(t, kinds)
  PROVE  /\ stage[t] = "first" /\ call[t].kind \in kinds /\ Granted(t, "tensors")
         /\ FirstLock(call[t].kind) = "tensors"
  BY DEF HasFirst, TensorCalls, FirstLock

\* Nobody has placed a copy, or taken one away, that another list shows.
LEMMA NobodyBetween ==
  ASSUME \A u \in Tasks : ~Holds(u, "tensors")
  PROVE  /\ \A u \in Tasks : ~Removing(u)
         /\ \A u \in Tasks : \A x, n : ~Indexes(u, x, n)
         /\ \A x, n : Indexing(x, n) = 0
  BY DEF Holds, Removing, Indexes, Indexing, FirstLock

\* No two callers are about to index copies at the same time.
LEMMA OneIndexes ==
  ASSUME Control, NEW t \in Tasks, NEW u \in Tasks, NEW x, NEW n, NEW y, NEW m,
         Indexes(t, x, n), Indexes(u, y, m)
  PROVE  t = u
  <1>1. Holds(t, "tensors") /\ Holds(u, "tensors") /\ ~Reads(call[t].kind)
    BY DEF Indexes, Holds, FirstLock, Reads
  <1> QED BY <1>1 DEF Control, Locks

LEMMA CopiesAreNat ==
  ASSUME Data
  PROVE  /\ \A x, n : n \in Nodes => Copies(x, n) \in Nat
         /\ \A x, n : Indexing(x, n) \in {0, 1}
  BY DEF Data, Entry, Copies, Indexing

\* An invariant of the two maps for one tensor and node.
Agree(x, n) ==
  /\ node_tensors[n][x] + missed[n][x] + Indexing(x, n) = Copies(x, n) + stale[n][x]
  /\ missed[n][x] + Indexing(x, n) <= Copies(x, n)

LEMMA DataFromPairs ==
  ASSUME DOMAIN tensors \subseteq Tensors,
         \A x \in DOMAIN tensors : tensors[x] \in Entry /\ ~Nowhere(tensors[x].placed),
         node_tensors \in Counts, missed \in Counts, stale \in Counts,
         \A x \in Tensors, n \in Nodes : Agree(x, n),
         \A t \in Tasks : Removing(t) => Copies(call[t].tensor, call[t].node) = 0
  PROVE  Data
  BY DEF Data, IndexAddsUp, Agree

LEMMA PairsAgree ==
  ASSUME Data
  PROVE  \A x \in Tensors, n \in Nodes : Agree(x, n)
  BY DEF Data, IndexAddsUp, Agree

\* What writers hold and the calls they are in are all that matters of tasks.
LEMMA SameMaps ==
  ASSUME Data, UNCHANGED <<maps, history>>,
         \A u \in Tasks :
           \/ stage[u] = "second" /\ call[u].kind \in Writing
           \/ stage'[u] = "second" /\ call'[u].kind \in Writing
           => stage'[u] = stage[u] /\ call'[u] = call[u]
  PROVE  Data'
  <1>1. /\ tensors' = tensors /\ node_tensors' = node_tensors
        /\ missed' = missed /\ stale' = stale
    BY DEF maps, history
  <1>2. \A u \in Tasks : \A x, n : Indexes(u, x, n)' <=> Indexes(u, x, n)
    BY DEF Indexes, Writing
  <1>3. \A x, n : Indexing(x, n)' = Indexing(x, n)
    BY <1>2 DEF Indexing
  <1>4. \A x, n : Copies(x, n)' = Copies(x, n)
    BY <1>1 DEF Copies
  <1>5. \A x \in Tensors, n \in Nodes : Agree(x, n)'
    BY <1>1, <1>3, <1>4, PairsAgree DEF Agree
  <1>6. ASSUME NEW u \in Tasks, Removing(u)'
        PROVE  Copies(call[u].tensor, call[u].node)' = 0 /\ call'[u] = call[u]
    <2>1. Removing(u) /\ call'[u] = call[u]
      BY <1>6 DEF Removing, Writing
    <2> QED BY <2>1, <1>4 DEF Data
  <1>7. \A x \in DOMAIN tensors' : tensors'[x] \in Entry /\ ~Nowhere(tensors'[x].placed)
    BY <1>1 DEF Data, IndexAddsUp
  <1>8. (\A u \in Tasks : Removing(u) => Copies(call[u].tensor, call[u].node) = 0)'
    BY <1>4, <1>6
  <1> QED BY <1>1, <1>5, <1>7, <1>8 DEF Data, IndexAddsUp, Agree, Nowhere

\* A writer changes one entry, and goes on to ask for the other lock.
LEMMA WriteStep ==
  ASSUME IInv, NEW t \in Tasks, HasFirst(t, Writing), AskSecond(t),
         UNCHANGED node_tensors,
         DOMAIN tensors' \subseteq Tensors,
         \A y \in DOMAIN tensors' : tensors'[y] \in Entry /\ ~Nowhere(tensors'[y].placed),
         missed' \in Counts, stale' \in Counts,
         \A y \in Tensors, m \in Nodes :
           LET one == IF /\ call[t].kind # "remove"
                         /\ y = call[t].tensor /\ m = call[t].node THEN 1 ELSE 0
           IN /\ node_tensors[m][y] + missed'[m][y] + one
                   = Copies(y, m)' + stale'[m][y]
              /\ missed'[m][y] + one <= Copies(y, m)',
         call[t].kind = "remove" => Copies(call[t].tensor, call[t].node)' = 0
  PROVE  IInv'
  <1>1. /\ stage[t] = "first" /\ call[t].kind \in Writing
        /\ Granted(t, "tensors") /\ node_tensors' = node_tensors
    BY FirstGranted DEF TensorCalls, Writing
  <1>2. /\ call' = call
        /\ \A u \in Tasks : stage'[u] = IF u = t THEN "second" ELSE stage[u]
    BY DEF AskSecond, IInv, Control
  <1>3. Control'
    BY AskControl DEF IInv, HasFirst, TwoLocked, Writing
  <1>4. /\ \A u \in Tasks : ~Removing(u)
        /\ \A u \in Tasks : \A y, m : ~Indexes(u, y, m)
    BY <1>1, GrantedAlone, NobodyBetween DEF Reads, Writing
  <1>5. \A u \in Tasks : \A y, m :
          Indexes(u, y, m)' <=> /\ u = t /\ call[t].kind # "remove"
                                /\ y = call[t].tensor /\ m = call[t].node
    BY <1>1, <1>2, <1>4 DEF Indexes, Writing
  <1>6. \A y, m : Indexing(y, m)' =
          IF call[t].kind # "remove" /\ y = call[t].tensor /\ m = call[t].node
          THEN 1 ELSE 0
    BY <1>5 DEF Indexing
  <1>7. \A y \in Tensors, m \in Nodes : Agree(y, m)'
    BY <1>1, <1>6 DEF Agree
  <1>8. \A u \in Tasks : Removing(u)' => u = t /\ call[t].kind = "remove"
    BY <1>2, <1>4 DEF Removing
  <1>9. (\A u \in Tasks : Removing(u) => Copies(call[u].tensor, call[u].node) = 0)'
    BY <1>2, <1>8
  <1>10. node_tensors' \in Counts
    BY <1>1 DEF IInv, Data
  <1>11. Data'
    BY <1>7, <1>9, <1>10 DEF Data, IndexAddsUp, Agree, Nowhere
  <1> QED BY <1>3, <1>11 DEF IInv

\* A copy that is thrown away takes its mention, or the lack of one, along.
LEMMA ForgetFacts ==
  ASSUME Data, NEW x \in Tensors, NEW from \in SUBSET Nodes, Forget(x, from)
  PROVE  /\ missed' \in Counts /\ stale' \in Counts
         /\ \A y \in Tensors, m \in Nodes :
              IF y = x /\ m \in from
              THEN missed'[m][y] = 0 /\ stale'[m][y] = stale[m][y] + Copies(y, m) - missed[m][y]
              ELSE missed'[m][y] = missed[m][y] /\ stale'[m][y] = stale[m][y]
  <1>1. missed \in Counts /\ stale \in Counts
    BY DEF Data
  <1>2. \A m \in Nodes : stale[m][x] + Copies(x, m) - missed[m][x] \in Nat
    <2> SUFFICES ASSUME NEW m \in Nodes
                 PROVE  stale[m][x] + Copies(x, m) - missed[m][x] \in Nat
      OBVIOUS
    <2>1. /\ stale[m][x] \in Nat /\ missed[m][x] \in Nat /\ Copies(x, m) \in Nat
          /\ Indexing(x, m) \in {0, 1}
      BY <1>1, CopiesAreNat DEF Counts
    <2>2. missed[m][x] + Indexing(x, m) <= Copies(x, m)
      BY PairsAgree DEF Agree
    <2> QED BY <2>1, <2>2
  <1>3. ASSUME NEW m \in Nodes
        PROVE  /\ missed'[m] \in [Tensors -> Nat] /\ stale'[m] \in [Tensors -> Nat]
               /\ \A y \in Tensors :
                    IF y = x /\ m \in from
                    THEN /\ missed'[m][y] = 0
                         /\ stale'[m][y] = stale[m][y] + Copies(y, m) - missed[m][y]
                    ELSE missed'[m][y] = missed[m][y] /\ stale'[m][y] = stale[m][y]
    <2>1. missed[m] \in [Tensors -> Nat] /\ stale[m] \in [Tensors -> Nat]
      BY <1>1 DEF Counts
    <2>2. /\ missed'[m] = IF m \in from THEN [missed[m] EXCEPT ![x] = 0] ELSE missed[m]
          /\ stale'[m] = IF m \in from
                         THEN [stale[m] EXCEPT ![x] =
                                 stale[m][x] + Copies(x, m) - missed[m][x]]
                         ELSE stale[m]
      BY DEF Forget
    <2> QED BY <1>2, <2>1, <2>2
  <1>4. /\ missed' = [m \in Nodes |-> missed'[m]]
        /\ stale' = [m \in Nodes |-> stale'[m]]
    BY DEF Forget
  <1> QED BY <1>3, <1>4 DEF Counts

LEMMA RegisterStep ==
  ASSUME IInv, NEW t \in Tasks, RegisterTensor(t)
  PROVE  IInv'
  <1> DEFINE x == call[t].tensor
             entry == [placed |-> [n \in Nodes |-> IF n = call[t].node THEN 1 ELSE 0],
                       version |-> 1]
  <1>1. /\ HasFirst(t, Writing) /\ call[t].kind = "register" /\ AskSecond(t)
        /\ UNCHANGED node_tensors /\ Put(x, entry) /\ Granted(t, "tensors")
        /\ Forget(x, Nodes)
    BY DEF RegisterTensor, HasFirst, FirstLock, Writing
  <1>2. x \in Tensors /\ call[t].node \in Nodes
    BY <1>1, InACall, CallFacts DEF IInv, TensorCalls, HasFirst
  <1>3. /\ entry \in Entry
        /\ \A n \in Nodes : entry.placed[n] = IF n = call[t].node THEN 1 ELSE 0
    BY DEF Entry
  <1> HIDE DEF entry
  <1>4. ~Nowhere(entry.placed)
    BY <1>2, <1>3 DEF Nowhere
  <1>5. /\ DOMAIN tensors' \subseteq Tensors
        /\ \A y \in DOMAIN tensors' : tensors'[y] \in Entry /\ ~Nowhere(tensors'[y].placed)
        /\ \A y \in Tensors, m \in Nodes :
             Copies(y, m)' = IF y = x THEN IF m = call[t].node THEN 1 ELSE 0
                                      ELSE Copies(y, m)
    BY <1>1, <1>2, <1>3, <1>4 DEF Put, IInv, Data, IndexAddsUp, Copies
  <1>6. \A y, m : Indexing(y, m) = 0
    BY <1>1, GrantedAlone, NobodyBetween DEF Reads
  <1>7. /\ missed' \in Counts /\ stale' \in Counts
        /\ \A y \in Tensors, m \in Nodes :
              IF y = x
              THEN missed'[m][y] = 0 /\ stale'[m][y] = stale[m][y] + Copies(y, m) - missed[m][y]
              ELSE missed'[m][y] = missed[m][y] /\ stale'[m][y] = stale[m][y]
    BY <1>1, <1>2, ForgetFacts DEF IInv
  <1>8. ASSUME NEW y \in Tensors, NEW m \in Nodes
        PROVE  LET one == IF /\ call[t].kind # "remove"
                             /\ y = x /\ m = call[t].node THEN 1 ELSE 0
               IN /\ node_tensors[m][y] + missed'[m][y] + one
                       = Copies(y, m)' + stale'[m][y]
                  /\ missed'[m][y] + one <= Copies(y, m)'
    <2>1. /\ node_tensors[m][y] \in Nat /\ missed[m][y] \in Nat /\ stale[m][y] \in Nat
          /\ Copies(y, m) \in Nat
      BY CopiesAreNat DEF IInv, Data, Counts
    <2>2. /\ node_tensors[m][y] + missed[m][y] = Copies(y, m) + stale[m][y]
          /\ missed[m][y] <= Copies(y, m)
      BY <1>6, <2>1, PairsAgree DEF IInv, Agree
    <2>3. CASE y = x
      BY <1>1, <1>5, <1>7, <2>1, <2>2, <2>3
    <2>4. CASE y # x
      BY <1>5, <1>7, <2>1, <2>2, <2>4
    <2> QED BY <2>3, <2>4
  <1> HIDE DEF x
  <1> QED BY <1>1, <1>5, <1>7, <1>8, WriteStep DEF x

LEMMA OneMore ==
  ASSUME NEW p \in [Nodes -> Nat], NEW m \in Nodes
  PROVE  LET q == [p EXCEPT ![m] = @ + 1]
         IN /\ q \in [Nodes -> Nat]
            /\ \A n \in Nodes : q[n] = p[n] + (IF n = m THEN 1 ELSE 0)
  OBVIOUS

LEMMA AddStep ==
  ASSUME IInv, NEW t \in Tasks, AddPlacement(t)
  PROVE  IInv'
  <1> DEFINE x == call[t].tensor
             entry == Placed(tensors[x], call[t].node)
  <1>1. /\ HasFirst(t, Writing) /\ call[t].kind = "add"
        /\ AskSecond(t) /\ UNCHANGED node_tensors /\ Put(x, entry) /\ Known(t)
        /\ Granted(t, "tensors") /\ missed' = missed /\ stale' = stale
    BY DEF AddPlacement, HasFirst, FirstLock, Writing, history
  <1>2. call[t] \in Calls /\ x \in Tensors /\ call[t].node \in Nodes
    BY <1>1, InACall, CallFacts DEF IInv, TensorCalls, HasFirst
  <1>3. x \in DOMAIN tensors /\ tensors[x] \in Entry /\ ~Nowhere(tensors[x].placed)
    BY <1>1 DEF Known, IInv, Data, IndexAddsUp
  <1>4. \A y, n : Indexing(y, n) = 0
    BY <1>1, GrantedAlone, NobodyBetween DEF Reads
  <1>6. /\ entry \in Entry
        /\ \A n \in Nodes : entry.placed[n] =
             tensors[x].placed[n] + (IF n = call[t].node THEN 1 ELSE 0)
    <2>1. entry.placed = [tensors[x].placed EXCEPT ![call[t].node] = @ + 1]
          /\ entry.version = tensors[x].version + 1
          /\ entry = [placed |-> entry.placed, version |-> entry.version]
      BY DEF Placed
    <2>2. tensors[x].placed \in [Nodes -> Nat] /\ tensors[x].version \in Nat \ {0}
      BY <1>3 DEF Entry
    <2> HIDE DEF entry, x
    <2>3. /\ entry.placed \in [Nodes -> Nat]
          /\ \A n \in Nodes : entry.placed[n] =
               tensors[x].placed[n] + (IF n = call[t].node THEN 1 ELSE 0)
      BY <1>2, <2>1, <2>2, OneMore
    <2>4. entry.version \in Nat \ {0}
      BY <2>1, <2>2
    <2>5. entry \in Entry
      BY <2>1, <2>3, <2>4 DEF Entry
    <2> QED BY <2>3, <2>5
  <1> HIDE DEF entry
  <1>7. ~Nowhere(entry.placed)
    <2>1. \A n \in Nodes : tensors[x].placed[n] \in Nat
      BY <1>3 DEF Entry
    <2> QED BY <1>2, <1>6, <2>1 DEF Nowhere
  <1>8. /\ DOMAIN tensors' \subseteq Tensors
        /\ \A y \in DOMAIN tensors' : tensors'[y] \in Entry /\ ~Nowhere(tensors'[y].placed)
        /\ \A y \in Tensors, m \in Nodes :
             Copies(y, m)' = Copies(y, m) + IF y = x /\ m = call[t].node THEN 1 ELSE 0
    <2>1. /\ x \in DOMAIN tensors' /\ tensors'[x] = entry /\ DOMAIN tensors' = DOMAIN tensors
          /\ \A y \in DOMAIN tensors : y # x => tensors'[y] = tensors[y]
      BY <1>1, <1>3 DEF Put
    <2>2. \A y \in DOMAIN tensors' : tensors'[y] \in Entry /\ ~Nowhere(tensors'[y].placed)
      BY <1>6, <1>7, <2>1 DEF IInv, Data, IndexAddsUp
    <2>3. ASSUME NEW y \in Tensors, NEW m \in Nodes
          PROVE  Copies(y, m)' = Copies(y, m) + IF y = x /\ m = call[t].node THEN 1 ELSE 0
      <3>1. CASE y = x
        BY <1>3, <1>6, <2>1, <3>1 DEF Copies
      <3>2. CASE y # x
        <4>1. Copies(y, m)' = Copies(y, m) /\ Copies(y, m) \in Nat
          BY <2>1, <3>2, CopiesAreNat DEF Copies, IInv
        <4> QED BY <3>2, <4>1
      <3> QED BY <3>1, <3>2
    <2> QED BY <2>1, <2>2, <2>3 DEF IInv, Data
  <1>9. ASSUME NEW y \in Tensors, NEW m \in Nodes
        PROVE  LET one == IF /\ call[t].kind # "remove"
                             /\ y = x /\ m = call[t].node THEN 1 ELSE 0
               IN /\ node_tensors[m][y] + missed'[m][y] + one
                       = Copies(y, m)' + stale'[m][y]
                  /\ missed'[m][y] + one <= Copies(y, m)'
    <2>1. /\ node_tensors[m][y] \in Nat /\ missed[m][y] \in Nat /\ stale[m][y] \in Nat
          /\ Copies(y, m) \in Nat
      BY CopiesAreNat DEF IInv, Data, Counts
    <2>2. /\ node_tensors[m][y] + missed[m][y] = Copies(y, m) + stale[m][y]
          /\ missed[m][y] <= Copies(y, m)
      BY <1>4, <2>1, PairsAgree DEF IInv, Agree
    <2>3. CASE y = x /\ m = call[t].node
      BY <1>1, <1>8, <2>1, <2>2, <2>3
    <2>4. CASE ~(y = x /\ m = call[t].node)
      BY <1>1, <1>8, <2>1, <2>2, <2>4
    <2> QED BY <2>3, <2>4
  <1>10. missed' \in Counts /\ stale' \in Counts
    BY <1>1 DEF IInv, Data
  <1> HIDE DEF x
  <1> QED BY <1>1, <1>8, <1>9, <1>10, WriteStep DEF x

LEMMA WithoutFacts ==
  ASSUME NEW placed \in [Nodes -> Nat], NEW n \in Nodes
  PROVE  /\ Without(placed, n) \in [Nodes -> Nat] /\ Without(placed, n)[n] = 0
         /\ \A m \in Nodes : m # n => Without(placed, n)[m] = placed[m]
  BY DEF Without

LEMMA RemoveStep ==
  ASSUME IInv, NEW t \in Tasks, RemovePlacement(t)
  PROVE  IInv'
  <1> DEFINE x == call[t].tensor
             left == Without(tensors[x].placed, call[t].node)
             entry == [placed |-> left, version |-> tensors[x].version + 1]
  <1>1. /\ HasFirst(t, Writing) /\ call[t].kind = "remove"
        /\ AskSecond(t) /\ UNCHANGED node_tensors /\ Known(t) /\ Granted(t, "tensors")
        /\ \/ Nowhere(left) /\ tensors' = [y \in DOMAIN tensors \ {x} |-> tensors[y]]
           \/ Put(x, entry) /\ ~Nowhere(left)
        /\ Forget(x, {call[t].node})
    BY DEF RemovePlacement, HasFirst, FirstLock, Writing
  <1>2. call[t] \in Calls /\ x \in Tensors /\ call[t].node \in Nodes
    BY <1>1, InACall, CallFacts DEF IInv, TensorCalls, HasFirst
  <1>3. /\ x \in DOMAIN tensors /\ tensors[x].placed \in [Nodes -> Nat]
        /\ tensors[x].version \in Nat \ {0}
    BY <1>1 DEF Known, IInv, Data, Entry
  <1>4. \A y, n : Indexing(y, n) = 0
    BY <1>1, GrantedAlone, NobodyBetween DEF Reads
  <1>6. /\ left \in [Nodes -> Nat] /\ left[call[t].node] = 0
        /\ \A m \in Nodes : m # call[t].node => left[m] = tensors[x].placed[m]
    BY <1>2, <1>3, WithoutFacts
  <1> HIDE DEF left
  <1>7. entry \in Entry /\ entry.placed = left
    BY <1>3, <1>6 DEF Entry
  <1> HIDE DEF entry
  <1>8. /\ DOMAIN tensors' \subseteq Tensors
        /\ \A y \in DOMAIN tensors' : tensors'[y] \in Entry /\ ~Nowhere(tensors'[y].placed)
        /\ \A y \in Tensors, m \in Nodes :
             Copies(y, m)' = IF y = x /\ m = call[t].node THEN 0 ELSE Copies(y, m)
    <2>1. CASE Nowhere(left) /\ tensors' = [y \in DOMAIN tensors \ {x} |-> tensors[y]]
      <3>1. \A m \in Nodes : m # call[t].node => tensors[x].placed[m] = 0
        BY <1>6, <2>1 DEF Nowhere
      <3>2. \A y \in Tensors, m \in Nodes :
              Copies(y, m)' = IF y = x /\ m = call[t].node THEN 0 ELSE Copies(y, m)
        BY <1>3, <2>1, <3>1 DEF Copies
      <3> QED BY <2>1, <3>2 DEF IInv, Data, IndexAddsUp
    <2>2. CASE Put(x, entry) /\ ~Nowhere(left)
      <3>1. /\ DOMAIN tensors' = DOMAIN tensors /\ tensors'[x] = entry
            /\ \A y \in DOMAIN tensors : y # x => tensors'[y] = tensors[y]
        BY <1>3, <2>2 DEF Put
      <3>2. \A y \in Tensors, m \in Nodes :
              Copies(y, m)' = IF y = x /\ m = call[t].node THEN 0 ELSE Copies(y, m)
        BY <1>3, <1>6, <1>7, <3>1 DEF Copies
      <3>3. \A y \in DOMAIN tensors' : tensors'[y] \in Entry /\ ~Nowhere(tensors'[y].placed)
        BY <1>7, <2>2, <3>1 DEF IInv, Data, IndexAddsUp
      <3> QED BY <3>1, <3>2, <3>3 DEF IInv, Data
    <2> QED BY <1>1, <2>1, <2>2
  <1>9. /\ missed' \in Counts /\ stale' \in Counts
        /\ \A y \in Tensors, m \in Nodes :
              IF y = x /\ m = call[t].node
              THEN missed'[m][y] = 0 /\ stale'[m][y] = stale[m][y] + Copies(y, m) - missed[m][y]
              ELSE missed'[m][y] = missed[m][y] /\ stale'[m][y] = stale[m][y]
    BY <1>1, <1>2, ForgetFacts DEF IInv
  <1>10. ASSUME NEW y \in Tensors, NEW m \in Nodes
         PROVE  LET one == IF /\ call[t].kind # "remove"
                              /\ y = x /\ m = call[t].node THEN 1 ELSE 0
                IN /\ node_tensors[m][y] + missed'[m][y] + one
                        = Copies(y, m)' + stale'[m][y]
                   /\ missed'[m][y] + one <= Copies(y, m)'
    <2>1. /\ node_tensors[m][y] \in Nat /\ missed[m][y] \in Nat /\ stale[m][y] \in Nat
          /\ Copies(y, m) \in Nat
      BY CopiesAreNat DEF IInv, Data, Counts
    <2>2. /\ node_tensors[m][y] + missed[m][y] = Copies(y, m) + stale[m][y]
          /\ missed[m][y] <= Copies(y, m)
      BY <1>4, <2>1, PairsAgree DEF IInv, Agree
    <2>3. CASE y = x /\ m = call[t].node
      BY <1>1, <1>8, <1>9, <2>1, <2>2, <2>3
    <2>4. CASE ~(y = x /\ m = call[t].node)
      BY <1>1, <1>8, <1>9, <2>1, <2>2, <2>4
    <2> QED BY <2>3, <2>4
  <1>11. Copies(x, call[t].node)' = 0
    <2>1. \A y \in Tensors, m \in Nodes : y = x /\ m = call[t].node => Copies(y, m)' = 0
      BY <1>8
    <2>2. call' = call
      BY <1>1 DEF AskSecond
    <2> QED BY <1>2, <2>1, <2>2
  <1> HIDE DEF x
  <1> QED BY <1>1, <1>8, <1>9, <1>10, <1>11, WriteStep DEF x

-----------------------------------------------------------------------------
(* Under both locks, dropped callers, and the calls that change nothing *)

\* Of the callers about to index a copy, one that leaves was the only one.
LEMMA LeavesIndexing ==
  ASSUME Control, NEW t \in Tasks,
         \A u \in Tasks : u # t => stage'[u] = stage[u] /\ call'[u] = call[u],
         stage'[t] = "idle"
  PROVE  /\ \A x, n : Indexing(x, n)' = IF Indexes(t, x, n) THEN 0 ELSE Indexing(x, n)
         /\ \A x, n : Indexes(t, x, n) => Indexing(x, n) = 1
         /\ \A u \in Tasks : Removing(u)' => u # t /\ Removing(u) /\ call'[u] = call[u]
  <1>1. \A x, n : \A u \in Tasks : Indexes(u, x, n)' <=> u # t /\ Indexes(u, x, n)
    BY DEF Indexes
  <1>2. ASSUME NEW x, NEW n, Indexes(t, x, n)
        PROVE  Indexing(x, n)' = 0 /\ Indexing(x, n) = 1
    BY <1>1, <1>2, OneIndexes DEF Indexing
  <1>3. ASSUME NEW x, NEW n, ~Indexes(t, x, n)
        PROVE  Indexing(x, n)' = Indexing(x, n)
    BY <1>1, <1>3 DEF Indexing
  <1>4. \A u \in Tasks : Removing(u)' => u # t /\ Removing(u) /\ call'[u] = call[u]
    BY DEF Removing
  <1> QED BY <1>2, <1>3, <1>4

LEMMA IndexStep ==
  ASSUME IInv, NEW t \in Tasks, IndexPlacement(t)
  PROVE  IInv'
  <1> DEFINE x == call[t].tensor
             n == call[t].node
  <1>1. /\ stage[t] = "second" /\ call[t].kind \in {"register", "add"}
        /\ node_tensors' = [node_tensors EXCEPT ![n][x] = @ + 1]
        /\ tensors' = tensors /\ missed' = missed /\ stale' = stale
        /\ Granted(t, Other(FirstLock(call[t].kind))) /\ ReturnSecond(t)
    BY DEF IndexPlacement, HasBoth, history
  <1>2. /\ Control' /\ call' = [call EXCEPT ![t] = NoCall]
        /\ stage' = [stage EXCEPT ![t] = "idle"]
    BY <1>1, LockFacts, ReturnControl DEF IInv, ReturnSecond
  <1>3. x \in Tensors /\ n \in Nodes
    BY <1>1, InACall, CallFacts DEF IInv, TensorCalls
  <1>4. /\ node_tensors' \in Counts
        /\ \A m \in Nodes, y \in Tensors :
             node_tensors'[m][y] = IF m = n /\ y = x THEN node_tensors[m][y] + 1
                                                     ELSE node_tensors[m][y]
    <2>1. node_tensors \in [Nodes -> [Tensors -> Nat]]
      BY DEF IInv, Data, Counts
    <2>2. node_tensors[n][x] + 1 \in Nat
      BY <1>3, <2>1
    <2> QED BY <1>1, <1>3, <2>1, <2>2 DEF Counts
  <1>5. /\ \A y, m : Indexing(y, m)' = IF Indexes(t, y, m) THEN 0 ELSE Indexing(y, m)
        /\ \A y, m : Indexes(t, y, m) => Indexing(y, m) = 1
        /\ \A u \in Tasks : Removing(u)' => u # t /\ Removing(u) /\ call'[u] = call[u]
    BY <1>2, LeavesIndexing DEF IInv, Control
  <1>6. \A y, m : Indexes(t, y, m) <=> y = x /\ m = n
    BY <1>1 DEF Indexes
  <1>7. \A y, m : Copies(y, m)' = Copies(y, m)
    BY <1>1 DEF Copies
  <1>8. ASSUME NEW y \in Tensors, NEW m \in Nodes PROVE Agree(y, m)'
    <2>1. /\ node_tensors[m][y] \in Nat /\ missed[m][y] \in Nat /\ stale[m][y] \in Nat
          /\ Copies(y, m) \in Nat /\ Indexing(y, m) \in {0, 1}
      BY CopiesAreNat DEF IInv, Data, Counts
    <2>2. Agree(y, m)
      BY PairsAgree DEF IInv
    <2>5. /\ missed'[m][y] = missed[m][y] /\ stale'[m][y] = stale[m][y]
          /\ Copies(y, m)' = Copies(y, m)
      BY <1>1, <1>7
    <2>3. CASE y = x /\ m = n
      <3>1. /\ node_tensors'[m][y] = node_tensors[m][y] + 1
            /\ Indexing(y, m) = 1 /\ Indexing(y, m)' = 0
        BY <1>4, <1>5, <1>6, <2>3
      <3> QED BY <2>2, <2>5, <2>1, <3>1 DEF Agree
    <2>4. CASE ~(y = x /\ m = n)
      <3>1. /\ node_tensors'[m][y] = node_tensors[m][y]
            /\ Indexing(y, m)' = Indexing(y, m)
        BY <1>4, <1>5, <1>6, <2>4
      <3> QED BY <2>2, <2>5, <3>1 DEF Agree
    <2> QED BY <2>3, <2>4
  <1>9. (\A u \in Tasks : Removing(u) => Copies(call[u].tensor, call[u].node) = 0)'
    BY <1>5, <1>7 DEF IInv, Data
  <1>10. Data'
    BY <1>1, <1>4, <1>8, <1>9 DEF IInv, Data, IndexAddsUp, Agree, Nowhere
  <1> QED BY <1>2, <1>10 DEF IInv

LEMMA UnindexStep ==
  ASSUME IInv, NEW t \in Tasks, UnindexPlacement(t)
  PROVE  IInv'
  <1> DEFINE x == call[t].tensor
             n == call[t].node
  <1>1. /\ stage[t] = "second" /\ call[t].kind = "remove"
        /\ node_tensors' = [node_tensors EXCEPT ![n] = [@ EXCEPT ![x] = 0]]
        /\ stale' = [stale EXCEPT ![n][x] = 0]
        /\ tensors' = tensors /\ missed' = missed
        /\ Granted(t, Other(FirstLock(call[t].kind))) /\ ReturnSecond(t)
    BY DEF UnindexPlacement, HasBoth, Unlisted
  <1>2. /\ Control' /\ call' = [call EXCEPT ![t] = NoCall]
        /\ stage' = [stage EXCEPT ![t] = "idle"]
    BY <1>1, LockFacts, ReturnControl DEF IInv, ReturnSecond
  <1>3. x \in Tensors /\ n \in Nodes
    BY <1>1, InACall, CallFacts DEF IInv, TensorCalls
  <1>4. /\ node_tensors' \in Counts /\ stale' \in Counts
        /\ \A m \in Nodes, y \in Tensors :
             /\ node_tensors'[m][y] = IF m = n /\ y = x THEN 0 ELSE node_tensors[m][y]
             /\ stale'[m][y] = IF m = n /\ y = x THEN 0 ELSE stale[m][y]
    BY <1>1, <1>3 DEF IInv, Data, Counts
  <1>5. /\ \A y, m : Indexing(y, m)' = IF Indexes(t, y, m) THEN 0 ELSE Indexing(y, m)
        /\ \A u \in Tasks : Removing(u)' => u # t /\ Removing(u) /\ call'[u] = call[u]
    BY <1>2, LeavesIndexing DEF IInv, Control
  <1>6. \A y, m : ~Indexes(t, y, m)
    BY <1>1 DEF Indexes
  <1>7. \A y, m : Copies(y, m)' = Copies(y, m)
    BY <1>1 DEF Copies
  <1>8. ASSUME NEW y \in Tensors, NEW m \in Nodes PROVE Agree(y, m)'
    <2>1. /\ node_tensors[m][y] \in Nat /\ missed[m][y] \in Nat /\ stale[m][y] \in Nat
          /\ Copies(y, m) \in Nat /\ Indexing(y, m) \in {0, 1}
      BY CopiesAreNat DEF IInv, Data, Counts
    <2>2. Agree(y, m)
      BY PairsAgree DEF IInv
    <2>5. /\ missed'[m][y] = missed[m][y] /\ Copies(y, m)' = Copies(y, m)
          /\ Indexing(y, m)' = Indexing(y, m)
      BY <1>1, <1>5, <1>6, <1>7
    <2>3. CASE y = x /\ m = n
      <3>1. Copies(y, m) = 0
        BY <1>1, <2>3 DEF IInv, Data, Removing
      <3>2. missed[m][y] = 0 /\ Indexing(y, m) = 0
        BY <2>1, <2>2, <3>1 DEF Agree
      <3>3. node_tensors'[m][y] = 0 /\ stale'[m][y] = 0
        BY <1>4, <2>3
      <3> QED BY <2>5, <3>1, <3>2, <3>3 DEF Agree
    <2>4. CASE ~(y = x /\ m = n)
      <3>1. node_tensors'[m][y] = node_tensors[m][y] /\ stale'[m][y] = stale[m][y]
        BY <1>4, <2>4
      <3> QED BY <2>2, <2>5, <3>1 DEF Agree
    <2> QED BY <2>3, <2>4
  <1>9. (\A u \in Tasks : Removing(u) => Copies(call[u].tensor, call[u].node) = 0)'
    BY <1>5, <1>7 DEF IInv, Data
  <1>10. Data'
    BY <1>1, <1>4, <1>8, <1>9 DEF IInv, Data, IndexAddsUp, Agree, Nowhere
  <1> QED BY <1>2, <1>10 DEF IInv

\* A caller that had placed a copy is missed by the list for good.
LEMMA DropStep ==
  ASSUME IInv, NEW t \in Tasks, DropCall(t)
  PROVE  IInv'
  <1>1. /\ stage' = [stage EXCEPT ![t] = "idle"] /\ call' = [call EXCEPT ![t] = NoCall]
        /\ tensors' = tensors /\ node_tensors' = node_tensors /\ stale' = stale
        /\ missed' = [n \in Nodes |-> [x \in Tensors |->
                       IF Indexes(t, x, n) THEN missed[n][x] + 1 ELSE missed[n][x]]]
    BY DEF DropCall, maps
  <1>2. Control'
    BY DropControl DEF IInv
  <1>3. missed' \in Counts
    BY <1>1 DEF IInv, Data, Counts
  <1>4. /\ \A y, m : Indexing(y, m)' = IF Indexes(t, y, m) THEN 0 ELSE Indexing(y, m)
        /\ \A y, m : Indexes(t, y, m) => Indexing(y, m) = 1
        /\ \A u \in Tasks : Removing(u)' => u # t /\ Removing(u) /\ call'[u] = call[u]
    BY <1>1, LeavesIndexing DEF IInv, Control
  <1>5. \A y, m : Copies(y, m)' = Copies(y, m)
    BY <1>1 DEF Copies
  <1>6. ASSUME NEW y \in Tensors, NEW m \in Nodes PROVE Agree(y, m)'
    <2>1. /\ node_tensors[m][y] \in Nat /\ missed[m][y] \in Nat /\ stale[m][y] \in Nat
          /\ Copies(y, m) \in Nat /\ Indexing(y, m) \in {0, 1}
      BY CopiesAreNat DEF IInv, Data, Counts
    <2>2. Agree(y, m)
      BY PairsAgree DEF IInv
    <2>3. missed'[m][y] = IF Indexes(t, y, m) THEN missed[m][y] + 1 ELSE missed[m][y]
      BY <1>1
    <2>4. CASE Indexes(t, y, m)
      <3>1. /\ Indexing(y, m) = 1 /\ Indexing(y, m)' = 0
            /\ missed'[m][y] = missed[m][y] + 1 /\ Copies(y, m)' = Copies(y, m)
        BY <1>4, <1>5, <2>3, <2>4
      <3>2. /\ node_tensors[m][y] + missed[m][y] + 1 = Copies(y, m) + stale[m][y]
            /\ missed[m][y] + 1 <= Copies(y, m)
        BY <2>2, <3>1 DEF Agree
      <3>3. /\ node_tensors'[m][y] + missed'[m][y] + Indexing(y, m)'
                 = Copies(y, m)' + stale'[m][y]
            /\ missed'[m][y] + Indexing(y, m)' <= Copies(y, m)'
        <4>1. node_tensors'[m][y] = node_tensors[m][y] /\ stale'[m][y] = stale[m][y]
          BY <1>1
        <4> HIDE DEF Indexing
        <4> QED BY <2>1, <3>1, <3>2, <4>1
      <3> QED BY <3>3 DEF Agree
    <2>5. CASE ~Indexes(t, y, m)
      <3>1. /\ Indexing(y, m)' = Indexing(y, m)
            /\ missed'[m][y] = missed[m][y] /\ Copies(y, m)' = Copies(y, m)
        BY <1>4, <1>5, <2>3, <2>5
      <3> QED BY <1>1, <2>1, <2>2, <3>1 DEF Agree
    <2> QED BY <2>4, <2>5
  <1>7. (\A u \in Tasks : Removing(u) => Copies(call[u].tensor, call[u].node) = 0)'
    BY <1>4, <1>5 DEF IInv, Data
  <1>8. Data'
    BY <1>1, <1>3, <1>6, <1>7 DEF IInv, Data, IndexAddsUp, Agree, Nowhere
  <1> QED BY <1>2, <1>8 DEF IInv

\* What an eviction does to the two maps.
LEMMA Evicted ==
  ASSUME IInv, NEW t \in Tasks, EvictFromNode(t)
  PROVE  LET n == call[t].node IN
         /\ stage[t] = "second" /\ call[t].kind = "evict" /\ n \in Nodes
         /\ \A u \in Tasks : ~Holds(u, "tensors")
         /\ ReturnSecond(t) /\ Granted(t, "tensors")
         /\ DOMAIN tensors' \subseteq DOMAIN tensors
         /\ \A x \in Tensors, m \in Nodes :
              Copies(x, m)' = IF m = n /\ node_tensors[n][x] > 0 THEN 0 ELSE Copies(x, m)
         /\ \A x \in DOMAIN tensors' :
              /\ tensors'[x] \in Entry /\ ~Nowhere(tensors'[x].placed)
              /\ \/ tensors'[x] = tensors[x]
                 \/ tensors'[x].version > tensors[x].version
         /\ node_tensors' = [node_tensors EXCEPT ![n] = [x \in Tensors |-> 0]]
         /\ missed' = [missed EXCEPT ![n] =
                        [x \in Tensors |-> IF node_tensors[n][x] > 0 THEN 0 ELSE @[x]]]
         /\ stale' = [stale EXCEPT ![n] = [x \in Tensors |-> 0]]
  <1> DEFINE n == call[t].node
             listed == {x \in DOMAIN tensors : node_tensors[n][x] > 0}
             left(x) == Without(tensors[x].placed, n)
             gone == {x \in listed : Nowhere(left(x))}
  <1>1. /\ HasBoth(t, {"evict"}) /\ ReturnSecond(t)
        /\ tensors' =
             [x \in DOMAIN tensors \ gone |->
                IF x \in listed
                THEN [placed |-> left(x),
                      version |-> tensors[x].version + node_tensors[n][x]]
                ELSE tensors[x]]
        /\ node_tensors' = [node_tensors EXCEPT ![n] = [x \in Tensors |-> 0]]
        /\ missed' = [missed EXCEPT ![n] =
                       [x \in Tensors |-> IF node_tensors[n][x] > 0 THEN 0 ELSE @[x]]]
        /\ stale' = [stale EXCEPT ![n] = [x \in Tensors |-> 0]]
    BY DEF EvictFromNode
  <1>2. /\ stage[t] = "second" /\ call[t].kind = "evict" /\ Granted(t, "tensors")
    BY <1>1 DEF HasBoth, FirstLock, Other
  <1>3. n \in Nodes
    BY <1>2, InACall, CallFacts DEF IInv
  <1>4. \A u \in Tasks : ~Holds(u, "tensors")
    BY <1>2, GrantedAlone DEF Reads
  <1>5. ASSUME NEW x \in DOMAIN tensors
        PROVE  /\ x \in Tensors /\ tensors[x].placed \in [Nodes -> Nat]
               /\ tensors[x].version \in Nat \ {0} /\ node_tensors[n][x] \in Nat
               /\ ~Nowhere(tensors[x].placed) /\ tensors[x] \in Entry
    BY <1>3 DEF IInv, Data, IndexAddsUp, Entry, Counts
  <1>6. ASSUME NEW x \in DOMAIN tensors
        PROVE  /\ left(x) \in [Nodes -> Nat] /\ left(x)[n] = 0
               /\ \A m \in Nodes : m # n => left(x)[m] = tensors[x].placed[m]
    BY <1>3, <1>5, WithoutFacts
  <1> HIDE DEF left
  <1>7. ASSUME NEW x \in DOMAIN tensors'
        PROVE  /\ tensors'[x] \in Entry /\ ~Nowhere(tensors'[x].placed)
               /\ \/ tensors'[x] = tensors[x]
                  \/ tensors'[x].version > tensors[x].version
    <2>1. x \in DOMAIN tensors /\ x \notin gone
      BY <1>1
    <2>2. CASE x \in listed
      <3>1. /\ tensors'[x] = [placed |-> left(x),
                              version |-> tensors[x].version + node_tensors[n][x]]
            /\ ~Nowhere(left(x)) /\ node_tensors[n][x] > 0
        BY <1>1, <2>1, <2>2
      <3>2. tensors'[x].placed = left(x)
            /\ tensors'[x].version = tensors[x].version + node_tensors[n][x]
        BY <3>1
      <3>3. tensors'[x] \in Entry
        BY <1>5, <1>6, <2>1, <3>1 DEF Entry
      <3> QED BY <1>5, <2>1, <3>1, <3>2, <3>3
    <2>3. CASE x \notin listed
      <3>1. tensors'[x] = tensors[x]
        BY <1>1, <2>1, <2>3
      <3> QED BY <1>5, <2>1, <3>1
    <2> QED BY <2>2, <2>3
  <1>8. DOMAIN tensors' \subseteq DOMAIN tensors
    BY <1>1
  <1>9. ASSUME NEW x \in Tensors, NEW m \in Nodes
        PROVE  Copies(x, m)' = IF m = n /\ node_tensors[n][x] > 0 THEN 0 ELSE Copies(x, m)
    <2>1. CASE x \notin DOMAIN tensors
      BY <1>8, <2>1 DEF Copies
    <2>2. CASE x \in gone
      <3>1. \A l \in Nodes : left(x)[l] = 0
        BY <2>2 DEF Nowhere
      <3>2. Copies(x, m)' = 0
        BY <1>1, <2>2 DEF Copies
      <3>3. m # n => Copies(x, m) = 0
        BY <1>6, <2>2, <3>1 DEF Copies
      <3> QED BY <2>2, <3>2, <3>3
    <2>3. CASE x \in listed \ gone
      <3>1. x \in DOMAIN tensors' /\ tensors'[x].placed = left(x)
        BY <1>1, <2>3
      <3> QED BY <1>6, <2>3, <3>1 DEF Copies
    <2>4. CASE x \in DOMAIN tensors \ listed
      <3>1. x \in DOMAIN tensors' /\ tensors'[x] = tensors[x]
        BY <1>1, <2>4
      <3> QED BY <2>4, <3>1 DEF Copies
    <2> QED BY <2>1, <2>2, <2>3, <2>4
  <1> QED BY <1>1, <1>2, <1>3, <1>4, <1>7, <1>8, <1>9

LEMMA EvictStep ==
  ASSUME IInv, NEW t \in Tasks, EvictFromNode(t)
  PROVE  IInv'
  <1> DEFINE n == call[t].node
  <1>1. /\ stage[t] = "second" /\ call[t].kind = "evict" /\ n \in Nodes
        /\ \A u \in Tasks : ~Holds(u, "tensors")
        /\ ReturnSecond(t) /\ Granted(t, "tensors")
        /\ DOMAIN tensors' \subseteq DOMAIN tensors
        /\ \A x \in Tensors, m \in Nodes :
             Copies(x, m)' = IF m = n /\ node_tensors[n][x] > 0 THEN 0 ELSE Copies(x, m)
        /\ \A x \in DOMAIN tensors' :
              tensors'[x] \in Entry /\ ~Nowhere(tensors'[x].placed)
        /\ node_tensors' = [node_tensors EXCEPT ![n] = [x \in Tensors |-> 0]]
        /\ missed' = [missed EXCEPT ![n] =
                       [x \in Tensors |-> IF node_tensors[n][x] > 0 THEN 0 ELSE @[x]]]
        /\ stale' = [stale EXCEPT ![n] = [x \in Tensors |-> 0]]
    BY Evicted
  <1>2. /\ Control' /\ call' = [call EXCEPT ![t] = NoCall]
        /\ stage' = [stage EXCEPT ![t] = "idle"]
    BY <1>1, ReturnControl DEF IInv, ReturnSecond, FirstLock, Other, Locks
  <1>3. /\ \A u \in Tasks : ~Removing(u)
        /\ \A u \in Tasks : \A y, m : ~Indexes(u, y, m)
        /\ \A y, m : Indexing(y, m) = 0
    BY <1>1, NobodyBetween
  <1>4. /\ node_tensors' \in Counts /\ missed' \in Counts /\ stale' \in Counts
        /\ \A m \in Nodes, y \in Tensors :
             /\ node_tensors'[m][y] = IF m = n THEN 0 ELSE node_tensors[m][y]
             /\ missed'[m][y] = IF m = n /\ node_tensors[n][y] > 0 THEN 0 ELSE missed[m][y]
             /\ stale'[m][y] = IF m = n THEN 0 ELSE stale[m][y]
    <2>1. node_tensors \in Counts /\ missed \in Counts /\ stale \in Counts
      BY DEF IInv, Data
    <2>2. [x \in Tensors |-> IF node_tensors[n][x] > 0 THEN 0 ELSE missed[n][x]]
            \in [Tensors -> Nat]
      BY <1>1, <2>1 DEF Counts
    <2>3. [x \in Tensors |-> 0] \in [Tensors -> Nat]
      OBVIOUS
    <2> QED BY <1>1, <2>1, <2>2, <2>3 DEF Counts
  <1>5. /\ \A y, m : Indexing(y, m)' = IF Indexes(t, y, m) THEN 0 ELSE Indexing(y, m)
        /\ \A u \in Tasks : Removing(u)' => u # t /\ Removing(u) /\ call'[u] = call[u]
    BY <1>2, LeavesIndexing DEF IInv, Control
  <1>6. \A y, m : Indexing(y, m)' = 0
    BY <1>1, <1>3, <1>5
  <1>7. ASSUME NEW y \in Tensors, NEW m \in Nodes PROVE Agree(y, m)'
    <2>1. /\ node_tensors[m][y] \in Nat /\ missed[m][y] \in Nat /\ stale[m][y] \in Nat
          /\ Copies(y, m) \in Nat
      BY CopiesAreNat DEF IInv, Data, Counts
    <2>2. /\ node_tensors[m][y] + missed[m][y] = Copies(y, m) + stale[m][y]
          /\ missed[m][y] <= Copies(y, m)
      BY <1>3, <2>1, PairsAgree DEF IInv, Agree
    <2>3. Copies(y, m)' = IF m = n /\ node_tensors[n][y] > 0 THEN 0 ELSE Copies(y, m)
      BY <1>1
    <2>4. CASE m # n
      BY <1>4, <1>6, <2>1, <2>2, <2>3, <2>4 DEF Agree
    <2>5. CASE m = n /\ node_tensors[m][y] > 0
      BY <1>4, <1>6, <2>1, <2>2, <2>3, <2>5 DEF Agree
    <2>6. CASE m = n /\ node_tensors[m][y] = 0
      BY <1>4, <1>6, <2>1, <2>2, <2>3, <2>6 DEF Agree
    <2> QED BY <2>1, <2>4, <2>5, <2>6
  <1>8. \A u \in Tasks : ~Removing(u)'
    BY <1>3, <1>5
  <1>9. Data'
    BY <1>1, <1>4, <1>7, <1>8 DEF IInv, Data, IndexAddsUp, Agree, Nowhere
  <1> QED BY <1>2, <1>9 DEF IInv

LEMMA QuietStep ==
  ASSUME IInv, NEW t \in Tasks,
         NotFound(t) \/ HoldFirst(t) \/ Read(t) \/ ReadBoth(t) \/ VerifySource(t)
  PROVE  IInv'
  <1>1. CASE VerifySource(t)
    <2>1. /\ Control' /\ stage' = stage /\ stage[t] = "first"
          /\ \A u \in Tasks : u # t => call'[u] = call[u]
      <3>1. DOMAIN tensors \subseteq Tensors
        BY DEF IInv, Data
      <3> QED BY <1>1, <3>1, VerifyControl DEF IInv, Control
    <2>2. UNCHANGED <<maps, history>>
      BY <1>1 DEF VerifySource, maps, history
    <2> QED BY <2>1, <2>2, SameMaps DEF IInv
  <1>2. CASE HoldFirst(t)
    <2>1. /\ HasFirst(t, TwoLocked) /\ AskSecond(t) /\ UNCHANGED <<maps, history>>
          /\ stage[t] = "first" /\ call[t].kind \in {"evict", "on_node", "stats"}
      BY <1>2 DEF HoldFirst, HasFirst, TwoLocked
    <2>2. Control'
      BY <2>1, AskControl DEF IInv
    <2>3. call' = call /\ \A u \in Tasks : stage'[u] = IF u = t THEN "second" ELSE stage[u]
      BY <2>1 DEF AskSecond, IInv, Control
    <2>4. Data'
      BY <2>1, <2>3, SameMaps DEF IInv, Writing
    <2> QED BY <2>2, <2>4 DEF IInv
  <1>3. CASE NotFound(t) \/ Read(t) \/ ReadBoth(t)
    <2>1. UNCHANGED <<maps, history>>
      BY <1>3 DEF NotFound, Read, ReadBoth
    <2>2. PICK lock \in Locks : Granted(t, lock) /\ Return(t, lock)
      BY <1>3, LockFacts DEF NotFound, Read, ReadBoth, HasFirst, HasBoth, ReturnFirst, ReturnSecond
    <2>3. ~(stage[t] = "second" /\ call[t].kind \in Writing)
      BY <1>3 DEF NotFound, Read, ReadBoth, HasFirst, HasBoth, Writing
    <2>4. /\ Control' /\ call' = [call EXCEPT ![t] = NoCall]
          /\ stage' = [stage EXCEPT ![t] = "idle"]
      BY <2>2, ReturnControl DEF IInv
    <2>5. /\ \A u \in Tasks : u # t => stage'[u] = stage[u] /\ call'[u] = call[u]
          /\ stage'[t] = "idle"
      BY <2>4 DEF IInv, Control
    <2>6. Data'
      BY <2>1, <2>3, <2>5, SameMaps DEF IInv
    <2> QED BY <2>4, <2>6 DEF IInv
  <1> QED BY <1>1, <1>2, <1>3

LEMMA BeginStep ==
  ASSUME IInv, NEW t \in Tasks, NEW c \in Calls, Begin(t, c)
  PROVE  IInv'
  <1>1. Control'
    BY BeginControl DEF IInv
  <1>2. /\ UNCHANGED <<maps, history>> /\ stage[t] = "idle" /\ stage'[t] = "first"
        /\ \A u \in Tasks : u # t => stage'[u] = stage[u] /\ call'[u] = call[u]
    BY DEF Begin, IInv, Control
  <1>3. Data'
    BY <1>2, SameMaps DEF IInv
  <1> QED BY <1>1, <1>3 DEF IInv

LEMMA InitIInv == Init => IInv
  <1> SUFFICES ASSUME Init PROVE IInv
    OBVIOUS
  <1>1. Control
    BY DirectoryAssumption DEF Init, Control, Holds
  <1>2. /\ node_tensors \in Counts /\ missed \in Counts /\ stale \in Counts
        /\ DOMAIN tensors = {}
        /\ \A t \in Tasks : stage[t] = "idle"
    BY DEF Init, Counts
  <1>3. \A x, n : Indexing(x, n) = 0 /\ Copies(x, n) = 0
    BY <1>2 DEF Indexing, Indexes, Copies
  <1>4. \A x \in Tensors, n \in Nodes : Agree(x, n)
    BY <1>3 DEF Agree, Init
  <1>5. Data
    BY <1>2, <1>4, DataFromPairs DEF Removing
  <1> QED BY <1>1, <1>5 DEF IInv

LEMMA NextIInv == IInv /\ [Next]_vars => IInv'
  <1> SUFFICES ASSUME IInv, [Next]_vars PROVE IInv'
    OBVIOUS
  <1>1. CASE UNCHANGED vars
    <2>1. /\ UNCHANGED <<maps, history>> /\ stage' = stage /\ call' = call
          /\ waiting' = waiting /\ calls' = calls
      BY <1>1 DEF vars, maps, history
    <2>2. Data'
      BY <2>1, SameMaps DEF IInv
    <2>3. Control'
      BY <2>1 DEF IInv, Control, Holds
    <2> QED BY <2>2, <2>3 DEF IInv
  <1>2. ASSUME NEW t \in Tasks, Proceed(t) PROVE IInv'
    BY <1>2, RegisterStep, AddStep, IndexStep, RemoveStep, UnindexStep, EvictStep, QuietStep
       DEF Proceed
  <1> QED BY <1>1, <1>2, BeginStep, DropStep DEF Next

LEMMA Invariance == Spec => []IInv
  <1>1. Init => IInv
    BY InitIInv
  <1>2. IInv /\ [Next]_vars => IInv'
    BY NextIInv
  <1> QED BY <1>1, <1>2, PTL DEF Spec

(* TypeOK: the maps, the calls and the queues of the two locks. *)
THEOREM TypeCorrect == Spec => []TypeOK
  <1>1. IInv => TypeOK
    BY DEF IInv, Control, Data, Entry, TypeOK, Counts
  <1> QED BY <1>1, Invariance, PTL

(* IndexAddsUp: get_tensors_on_node and evict_from_node, which look into
   node_tensors, find every copy once and no other, but for the copy one caller
   is about to index and for what dropped callers and replaced registrations
   have left. *)
THEOREM IndexIsAccountedFor == Spec => []IndexAddsUp
  <1>1. IInv => IndexAddsUp
    BY DEF IInv, Data
  <1> QED BY <1>1, Invariance, PTL

-----------------------------------------------------------------------------
(* Versions *)

LEMMA NextTellsChanges ==
  ASSUME IInv, [Next]_vars, NEW x \in DOMAIN tensors \cap DOMAIN tensors',
         tensors'[x].placed # tensors[x].placed
  PROVE  tensors'[x].version > tensors[x].version \/ tensors'[x].version = 1
  <1>1. tensors[x].version \in Nat
    BY DEF IInv, Data, Entry
  <1>2. ASSUME NEW t \in Tasks, RegisterTensor(t)
        PROVE  tensors'[x].version = 1
    BY <1>2 DEF RegisterTensor, Put
  <1>3. ASSUME NEW t \in Tasks, AddPlacement(t)
        PROVE  tensors'[x].version > tensors[x].version
    <2>1. tensors'[x] = tensors[x] \/ tensors'[x] = Placed(tensors[x], call[t].node)
      BY <1>3 DEF AddPlacement, Put
    <2>2. Placed(tensors[x], call[t].node).version = tensors[x].version + 1
      BY DEF Placed
    <2> QED BY <1>1, <2>1, <2>2
  <1>4. ASSUME NEW t \in Tasks, RemovePlacement(t)
        PROVE  tensors'[x].version > tensors[x].version
    BY <1>1, <1>4 DEF RemovePlacement, Put
  <1>5. ASSUME NEW t \in Tasks, EvictFromNode(t)
        PROVE  tensors'[x].version > tensors[x].version
    BY <1>5, Evicted
  <1>6. ASSUME NEW t \in Tasks,
               \/ IndexPlacement(t) \/ UnindexPlacement(t) \/ VerifySource(t) \/ NotFound(t)
               \/ HoldFirst(t) \/ Read(t) \/ ReadBoth(t)
        PROVE  FALSE
    BY <1>6 DEF IndexPlacement, UnindexPlacement, VerifySource, NotFound, HoldFirst, Read,
                ReadBoth, maps
  <1>7. ASSUME NEW t \in Tasks, DropCall(t) \/ \E c \in Calls : Begin(t, c) PROVE FALSE
    BY <1>7 DEF Begin, DropCall, maps
  <1>8. CASE UNCHANGED vars
    BY <1>8 DEF vars
  <1> QED BY <1>2, <1>3, <1>4, <1>5, <1>6, <1>7, <1>8 DEF Next, Proceed

(* VersionsTellChanges: no change of a tensor's copies keeps its version, but
   that of a new registration. *)
THEOREM VersionsGrow == Spec => VersionsTellChanges
  <1>1. IInv /\ [Next]_vars =>
          [\A x \in DOMAIN tensors \cap DOMAIN tensors' :
             tensors'[x].placed # tensors[x].placed =>
               tensors'[x].version > tensors[x].version \/ tensors'[x].version = 1]_vars
    BY NextTellsChanges
  <1> QED BY <1>1, Invariance, PTL DEF Spec, VersionsTellChanges

-----------------------------------------------------------------------------
(* The directory implements AtomicDirectory. *)

LEMMA WhereIs ==
  \A x \in Tensors :
    /\ Where[x] = IF x \in DOMAIN tensors
                  THEN {n \in Nodes : tensors[x].placed[n] > 0} ELSE {}
    /\ Where'[x] = IF x \in DOMAIN tensors'
                   THEN {n \in Nodes : tensors'[x].placed[n] > 0} ELSE {}
  BY DEF Where

LEMMA CopyAt ==
  ASSUME NEW x \in Tensors
  PROVE  /\ \A n : n \in Where[x] <=>
                 x \in DOMAIN tensors /\ n \in Nodes /\ tensors[x].placed[n] > 0
         /\ \A n : n \in Where'[x] <=>
                 x \in DOMAIN tensors' /\ n \in Nodes /\ tensors'[x].placed[n] > 0
  <1>1. CASE x \in DOMAIN tensors /\ x \in DOMAIN tensors'
    BY <1>1, WhereIs
  <1>2. CASE x \in DOMAIN tensors /\ x \notin DOMAIN tensors'
    BY <1>2, WhereIs
  <1>3. CASE x \notin DOMAIN tensors /\ x \in DOMAIN tensors'
    BY <1>3, WhereIs
  <1>4. CASE x \notin DOMAIN tensors /\ x \notin DOMAIN tensors'
    BY <1>4, WhereIs
  <1> QED BY <1>1, <1>2, <1>3, <1>4

LEMMA CopiesBecome ==
  ASSUME NEW x \in Tensors, NEW nodes,
         \A n : n \in nodes <=>
                x \in DOMAIN tensors' /\ n \in Nodes /\ tensors'[x].placed[n] > 0
  PROVE  Where'[x] = nodes
  <1>1. \A n : n \in Where'[x] <=> n \in nodes
    BY CopyAt
  <1> QED BY <1>1

LEMMA CopiesStay ==
  ASSUME NEW x \in Tensors, x \in DOMAIN tensors' <=> x \in DOMAIN tensors,
         x \in DOMAIN tensors => tensors'[x] = tensors[x]
  PROVE  Where'[x] = Where[x]
  <1>1. \A n : n \in Where'[x] <=> n \in Where[x]
    BY CopyAt
  <1> QED BY <1>1

\* A tensor is registered exactly if it has a copy somewhere.
LEMMA RegisteredSomewhere ==
  ASSUME IInv, NEW x \in Tensors
  PROVE  x \in DOMAIN tensors <=> Where[x] # {}
  BY DEF IInv, Data, IndexAddsUp, Nowhere, Where, Entry

LEMMA DoneIs ==
  \A t \in Tasks :
    /\ Done[t] = (stage[t] = "second" /\ call[t].kind \in {"register", "add", "remove"})
    /\ Done'[t] = (stage'[t] = "second" /\ call'[t].kind \in {"register", "add", "remove"})
  BY DEF Done

LEMMA HiddenIs ==
  /\ \A n \in Nodes : \A x : x \in Hidden[n] <=> x \in Tensors /\ missed[n][x] > 0
  /\ \A n \in Nodes : \A x : x \in Hidden'[n] <=> x \in Tensors /\ missed'[n][x] > 0
  BY DEF Hidden

LEMMA HiddenStays ==
  ASSUME missed' = missed PROVE Hidden' = Hidden
  BY DEF Hidden

LEMMA AtomicInit == Init => Atomic!Init
  <1> SUFFICES ASSUME Init PROVE Atomic!Init
    OBVIOUS
  <1>1. Where = [x \in Tensors |-> {}] /\ Done = [t \in Tasks |-> FALSE]
    BY DEF Init, Where, Done
  <1>2. \A n \in Nodes : {x \in Tensors : missed[n][x] > 0} = {}
    BY DEF Init
  <1>3. Hidden = [n \in Nodes |-> {}]
    BY <1>2 DEF Hidden
  <1> QED BY <1>1, <1>3 DEF Init, Atomic!Init

\* The step that changes `tensors' is the one in which the call takes effect.
LEMMA Effective ==
  ASSUME IInv, NEW t \in Tasks, HasFirst(t, {"register", "add", "remove"}), AskSecond(t),
         NEW nodes,
         \A y \in Tensors : Where'[y] = IF y = call[t].tensor THEN nodes ELSE Where[y]
  PROVE  Atomic!Effect(t, nodes) /\ ~Done[t]
  <1>1. /\ stage[t] = "first" /\ call[t].kind \in {"register", "add", "remove"} /\ call' = call
        /\ \A u \in Tasks : stage'[u] = IF u = t THEN "second" ELSE stage[u]
    BY DEF HasFirst, AskSecond, IInv, Control
  <1>2. Done' = [Done EXCEPT ![t] = TRUE] /\ ~Done[t]
    BY <1>1 DEF Done
  <1>3. Where' = [Where EXCEPT ![call[t].tensor] = nodes]
    BY DEF Where
  <1> QED BY <1>1, <1>2, <1>3 DEF Atomic!Effect

LEMMA RegisterIsAtomic ==
  ASSUME IInv, NEW t \in Tasks, RegisterTensor(t)
  PROVE  Atomic!Register(t)
  <1> DEFINE x == call[t].tensor
             entry == [placed |-> [n \in Nodes |-> IF n = call[t].node THEN 1 ELSE 0],
                       version |-> 1]
  <1>1. /\ HasFirst(t, {"register", "add", "remove"}) /\ call[t].kind = "register"
        /\ AskSecond(t) /\ Put(x, entry) /\ Forget(x, Nodes)
    BY DEF RegisterTensor, HasFirst
  <1>2. x \in Tensors /\ call[t].node \in Nodes
    BY <1>1, InACall, CallFacts DEF IInv, TensorCalls, HasFirst
  <1>3. \A n \in Nodes : entry.placed[n] = IF n = call[t].node THEN 1 ELSE 0
    OBVIOUS
  <1> HIDE DEF entry
  <1>4. /\ x \in DOMAIN tensors' /\ tensors'[x] = entry
        /\ \A y \in Tensors : y # x =>
             /\ y \in DOMAIN tensors' <=> y \in DOMAIN tensors
             /\ y \in DOMAIN tensors => tensors'[y] = tensors[y]
    BY <1>1 DEF Put
  <1>5. Where'[x] = {call[t].node}
    <2>1. \A n : n \in {call[t].node} <=> n \in Nodes /\ entry.placed[n] > 0
      BY <1>2, <1>3
    <2> QED BY <1>2, <1>4, <2>1, CopiesBecome
  <1>6. \A y \in Tensors : Where'[y] = IF y = x THEN {call[t].node} ELSE Where[y]
    BY <1>4, <1>5, CopiesStay
  <1>7. Hidden' = [n \in Nodes |-> Hidden[n] \ {x}]
    <2>1. \A n \in Nodes : \A y \in Tensors :
            missed'[n][y] = IF y = x THEN 0 ELSE missed[n][y]
      BY <1>1, <1>2, ForgetFacts DEF IInv
    <2>2. ASSUME NEW n \in Nodes PROVE Hidden'[n] = Hidden[n] \ {x}
      <3>1. \A y : y \in Hidden'[n] <=> y \in Hidden[n] \ {x}
        BY <2>1, HiddenIs
      <3> QED BY <3>1
    <2> QED BY <2>2 DEF Hidden
  <1> QED BY <1>1, <1>6, <1>7, Effective DEF Atomic!Register, Atomic!Pending

LEMMA AddIsAtomic ==
  ASSUME IInv, NEW t \in Tasks, AddPlacement(t)
  PROVE  Atomic!Add(t)
  <1> DEFINE x == call[t].tensor
             n == call[t].node
             entry == Placed(tensors[x], n)
  <1>1. /\ HasFirst(t, {"register", "add", "remove"}) /\ call[t].kind = "add"
        /\ AskSecond(t) /\ Put(x, entry) /\ x \in DOMAIN tensors /\ missed' = missed
    BY DEF AddPlacement, HasFirst, Known, history
  <1>2. x \in Tensors /\ n \in Nodes
    BY <1>1, InACall, CallFacts DEF IInv, TensorCalls, HasFirst
  <1>3. tensors[x].placed \in [Nodes -> Nat]
    BY <1>1 DEF IInv, Data, Entry
  <1>4. entry.placed = [tensors[x].placed EXCEPT ![n] = @ + 1]
    BY DEF Placed
  <1>5. \A m \in Nodes : entry.placed[m] > 0 <=> m = n \/ tensors[x].placed[m] > 0
    BY <1>2, <1>3, <1>4
  <1> HIDE DEF entry
  <1>6. /\ x \in DOMAIN tensors' /\ tensors'[x] = entry
        /\ \A y \in Tensors : y # x =>
             /\ y \in DOMAIN tensors' <=> y \in DOMAIN tensors
             /\ y \in DOMAIN tensors => tensors'[y] = tensors[y]
    BY <1>1 DEF Put
  <1>7. Where'[x] = Where[x] \cup {n} /\ Where[x] # {}
    <2>1. \A m : m \in Where[x] \cup {n} <=> m \in Nodes /\ entry.placed[m] > 0
      BY <1>1, <1>2, <1>5, CopyAt
    <2>2. Where'[x] = Where[x] \cup {n}
      BY <1>2, <1>6, <2>1, CopiesBecome
    <2> QED BY <1>1, <1>2, <2>2, RegisteredSomewhere
  <1>8. \A y \in Tensors : Where'[y] = IF y = x THEN Where[x] \cup {n} ELSE Where[y]
    BY <1>6, <1>7, CopiesStay
  <1> QED BY <1>1, <1>7, <1>8, Effective, HiddenStays
          DEF Atomic!Add, Atomic!Pending, Atomic!Registered

LEMMA RemoveIsAtomic ==
  ASSUME IInv, NEW t \in Tasks, RemovePlacement(t)
  PROVE  Atomic!Remove(t)
  <1> DEFINE x == call[t].tensor
             n == call[t].node
             left == Without(tensors[x].placed, n)
             entry == [placed |-> left, version |-> tensors[x].version + 1]
  <1>1. /\ HasFirst(t, {"register", "add", "remove"}) /\ call[t].kind = "remove"
        /\ AskSecond(t) /\ x \in DOMAIN tensors
        /\ \/ Nowhere(left) /\ tensors' = [y \in DOMAIN tensors \ {x} |-> tensors[y]]
           \/ Put(x, entry)
        /\ Forget(x, {n})
    BY DEF RemovePlacement, HasFirst, Known
  <1>2. x \in Tensors /\ n \in Nodes
    BY <1>1, InACall, CallFacts DEF IInv, TensorCalls, HasFirst
  <1>3. tensors[x].placed \in [Nodes -> Nat]
    BY <1>1 DEF IInv, Data, Entry
  <1>4. \A m \in Nodes : left[m] > 0 <=> m # n /\ tensors[x].placed[m] > 0
    BY <1>2, <1>3, WithoutFacts
  <1> HIDE DEF left
  <1>5. entry.placed = left
    OBVIOUS
  <1> HIDE DEF entry
  <1>6. \A y \in Tensors : y # x =>
             /\ y \in DOMAIN tensors' <=> y \in DOMAIN tensors
             /\ y \in DOMAIN tensors => tensors'[y] = tensors[y]
    BY <1>1 DEF Put
  <1>7. Where'[x] = Where[x] \ {n}
    <2>1. \A m : m \in Where[x] \ {n} <=> m \in Nodes /\ left[m] > 0
      BY <1>1, <1>2, <1>4, CopyAt
    <2>2. CASE Nowhere(left) /\ tensors' = [y \in DOMAIN tensors \ {x} |-> tensors[y]]
      <3>1. x \notin DOMAIN tensors' /\ \A m \in Nodes : ~(left[m] > 0)
        BY <2>2 DEF Nowhere
      <3> QED BY <1>2, <2>1, <3>1, CopiesBecome
    <2>3. CASE Put(x, entry)
      <3>1. x \in DOMAIN tensors' /\ tensors'[x] = entry
        BY <2>3 DEF Put
      <3> QED BY <1>2, <1>5, <2>1, <3>1, CopiesBecome
    <2> QED BY <1>1, <2>2, <2>3
  <1>8. \A y \in Tensors : Where'[y] = IF y = x THEN Where[x] \ {n} ELSE Where[y]
    BY <1>6, <1>7, CopiesStay
  <1>9. Where[x] # {}
    BY <1>1, <1>2, RegisteredSomewhere
  <1>10. Hidden' = [Hidden EXCEPT ![n] = @ \ {x}]
    <2>1. \A m \in Nodes : \A y \in Tensors :
            missed'[m][y] = IF y = x /\ m = n THEN 0 ELSE missed[m][y]
      BY <1>1, <1>2, ForgetFacts DEF IInv
    <2>2. ASSUME NEW m \in Nodes
          PROVE  Hidden'[m] = IF m = n THEN Hidden[m] \ {x} ELSE Hidden[m]
      <3>1. \A y : y \in Hidden'[m] <=> y \in IF m = n THEN Hidden[m] \ {x} ELSE Hidden[m]
        BY <2>1, HiddenIs
      <3> QED BY <3>1
    <2>3. Hidden = [m \in Nodes |-> Hidden[m]] /\ Hidden' = [m \in Nodes |-> Hidden'[m]]
      BY DEF Hidden
    <2> QED BY <2>2, <2>3, Zenon
  <1> QED BY <1>1, <1>8, <1>9, <1>10, Effective
          DEF Atomic!Remove, Atomic!Pending, Atomic!Registered

\* Who returns without having changed `tensors' in a step of its own.
LEMMA ReturnDone ==
  ASSUME IInv, NEW t \in Tasks, NEW lock \in Locks, Granted(t, lock), Return(t, lock)
  PROVE  /\ Atomic!Return(t) /\ ~Done'[t]
         /\ \A u \in Tasks : u # t => Done'[u] = Done[u]
  <1>1. /\ stage' = [stage EXCEPT ![t] = "idle"] /\ call' = [call EXCEPT ![t] = NoCall]
    BY DEF Return
  <1> QED BY <1>1, DoneIs DEF Atomic!Return, IInv, Control

LEMMA FinishIsAtomic ==
  ASSUME IInv, NEW t \in Tasks, IndexPlacement(t) \/ UnindexPlacement(t)
  PROVE  Atomic!Finish(t)
  <1>1. /\ stage[t] = "second" /\ call[t].kind \in {"register", "add", "remove"}
        /\ Granted(t, Other(FirstLock(call[t].kind))) /\ ReturnSecond(t)
        /\ tensors' = tensors /\ missed' = missed
    BY DEF IndexPlacement, UnindexPlacement, HasBoth, history
  <1>2. /\ Atomic!Return(t) /\ ~Done'[t]
        /\ \A u \in Tasks : u # t => Done'[u] = Done[u]
    BY <1>1, LockFacts, ReturnDone DEF ReturnSecond
  <1>3. Done[t] /\ Done' = [Done EXCEPT ![t] = FALSE]
    BY <1>1, <1>2 DEF Done
  <1>4. Where' = Where
    BY <1>1 DEF Where
  <1> QED BY <1>1, <1>2, <1>3, <1>4, HiddenStays DEF Atomic!Finish

\* Whoever is dropped half-way has had its effect; nobody indexes its copy.
LEMMA DropIsAtomic ==
  ASSUME IInv, NEW t \in Tasks, DropCall(t)
  PROVE  Atomic!GiveUp(t)
  <1>1. /\ stage' = [stage EXCEPT ![t] = "idle"] /\ call' = [call EXCEPT ![t] = NoCall]
        /\ tensors' = tensors
        /\ missed' = [n \in Nodes |-> [x \in Tensors |->
                       IF Indexes(t, x, n) THEN missed[n][x] + 1 ELSE missed[n][x]]]
        /\ stage[t] # "idle"
    BY DEF DropCall, maps, WaitsFor
  <1>2. call[t] # NoCall /\ Atomic!Return(t)
    BY <1>1 DEF IInv, Control, Atomic!Return
  <1>3. Done' = [Done EXCEPT ![t] = FALSE]
    <2>1. \A u \in Tasks : Done'[u] = IF u = t THEN FALSE ELSE Done[u]
      BY <1>1, DoneIs DEF IInv, Control
    <2> QED BY <2>1 DEF Done
  <1>4. Where' = Where
    BY <1>1 DEF Where
  <1>5. Hidden' = [n \in Nodes |->
                    IF Done[t] /\ call[t].kind \in {"register", "add"} /\ call[t].node = n
                    THEN Hidden[n] \cup {call[t].tensor} ELSE Hidden[n]]
    <2> SUFFICES ASSUME NEW n \in Nodes
                 PROVE  Hidden'[n] =
                    IF Done[t] /\ call[t].kind \in {"register", "add"} /\ call[t].node = n
                    THEN Hidden[n] \cup {call[t].tensor} ELSE Hidden[n]
      BY DEF Hidden
    <2>1. \A x \in Tensors : Indexes(t, x, n) <=>
            /\ Done[t] /\ call[t].kind \in {"register", "add"} /\ call[t].node = n
            /\ call[t].tensor = x
      BY DoneIs DEF Indexes
    <2>2. \A x \in Tensors : missed[n][x] \in Nat
      BY DEF IInv, Data, Counts
    <2>3. \A x \in Tensors :
            missed'[n][x] = IF Indexes(t, x, n) THEN missed[n][x] + 1 ELSE missed[n][x]
      BY <1>1
    <2>4. \A x \in Tensors : missed'[n][x] > 0 <=> Indexes(t, x, n) \/ missed[n][x] > 0
      BY <2>2, <2>3
    <2>5. Done[t] /\ call[t].kind \in {"register", "add"} => call[t].tensor \in Tensors
      BY <1>1, InACall, CallFacts DEF IInv, TensorCalls
    <2>6. \A x : x \in Hidden'[n] <=> x \in
                    IF Done[t] /\ call[t].kind \in {"register", "add"} /\ call[t].node = n
                    THEN Hidden[n] \cup {call[t].tensor} ELSE Hidden[n]
      BY <2>1, <2>4, <2>5, HiddenIs
    <2> QED BY <2>6
  <1> QED BY <1>2, <1>3, <1>4, <1>5 DEF Atomic!GiveUp

\* What an eviction overlooks is what the list does not name, hence what is
\* missed and nothing else.
LEMMA EvictIsAtomic ==
  ASSUME IInv, NEW t \in Tasks, EvictFromNode(t)
  PROVE  Atomic!Evict(t)
  <1> DEFINE n == call[t].node
             overlooked == {x \in Tensors : missed[n][x] > 0 /\ node_tensors[n][x] = 0}
  <1>1. /\ stage[t] = "second" /\ call[t].kind = "evict" /\ n \in Nodes
        /\ \A u \in Tasks : ~Holds(u, "tensors")
        /\ ReturnSecond(t) /\ Granted(t, "tensors")
        /\ DOMAIN tensors' \subseteq DOMAIN tensors
        /\ \A x \in Tensors, m \in Nodes :
             Copies(x, m)' = IF m = n /\ node_tensors[n][x] > 0 THEN 0 ELSE Copies(x, m)
        /\ missed' = [missed EXCEPT ![n] =
                       [x \in Tensors |-> IF node_tensors[n][x] > 0 THEN 0 ELSE @[x]]]
    BY Evicted
  <1>2. /\ Atomic!Return(t) /\ ~Done'[t]
        /\ \A u \in Tasks : u # t => Done'[u] = Done[u]
    BY <1>1, ReturnDone DEF ReturnSecond, FirstLock, Other, Locks
  <1>3. ~Done[t] /\ Done' = Done
    BY <1>1, <1>2 DEF Done
  <1>4. ASSUME NEW x \in Tensors
        PROVE  /\ node_tensors[n][x] \in Nat /\ missed[n][x] \in Nat /\ Copies(x, n) \in Nat
               /\ node_tensors[n][x] = 0 => missed[n][x] = Copies(x, n)
    <2>1. /\ node_tensors[n][x] \in Nat /\ missed[n][x] \in Nat /\ stale[n][x] \in Nat
          /\ Copies(x, n) \in Nat /\ Indexing(x, n) = 0
      BY <1>1, CopiesAreNat, NobodyBetween DEF IInv, Data, Counts
    <2>2. Agree(x, n)
      BY <1>1, PairsAgree DEF IInv
    <2> QED BY <2>1, <2>2 DEF Agree
  <1>5. ASSUME NEW x \in Tensors
        PROVE  Where'[x] = IF x \in overlooked THEN Where[x] ELSE Where[x] \ {n}
    <2>1. \A m : m \in Where[x] <=> m \in Nodes /\ Copies(x, m) > 0
      BY CopyAt DEF Copies
    <2>2. \A m : m \in Where'[x] <=> m \in Nodes /\ Copies(x, m)' > 0
      BY CopyAt DEF Copies
    <2>3. \A m \in Nodes :
            Copies(x, m)' = IF m = n /\ node_tensors[n][x] > 0 THEN 0 ELSE Copies(x, m)
      BY <1>1
    <2>4. CASE x \in overlooked
      <3>1. \A m : m \in Where'[x] <=> m \in Where[x]
        BY <2>1, <2>2, <2>3, <2>4
      <3> QED BY <2>4, <3>1
    <2>5. CASE x \notin overlooked
      <3>1. \A m \in Nodes : m = n => Copies(x, m)' = 0
        <4>1. node_tensors[n][x] > 0 \/ Copies(x, n) = 0
          BY <1>4, <2>5
        <4> QED BY <2>3, <4>1
      <3>2. \A m \in Nodes : m # n => Copies(x, m)' = Copies(x, m)
        BY <2>3
      <3>3. \A m : m \in Where'[x] <=> m \in Where[x] \ {n}
        BY <2>1, <2>2, <3>1, <3>2
      <3> QED BY <2>5, <3>3
    <2> QED BY <2>4, <2>5
  <1>6. Where' = [x \in Tensors |-> IF x \in overlooked THEN Where[x] ELSE Where[x] \ {n}]
    BY <1>5 DEF Where
  <1>7. overlooked \subseteq Hidden[n]
    BY <1>1, HiddenIs
  <1>8. Hidden' = [Hidden EXCEPT ![n] = overlooked]
    <2>1. missed \in Counts
      BY DEF IInv, Data
    <2>2. \A m \in Nodes : \A x \in Tensors :
            missed'[m][x] = IF m = n /\ node_tensors[n][x] > 0 THEN 0 ELSE missed[m][x]
      BY <1>1, <2>1 DEF Counts
    <2>3. ASSUME NEW m \in Nodes
          PROVE  Hidden'[m] = IF m = n THEN overlooked ELSE Hidden[m]
      <3>1. \A x : x \in Hidden'[m] <=> x \in IF m = n THEN overlooked ELSE Hidden[m]
        BY <1>4, <2>2, HiddenIs
      <3> QED BY <3>1
    <2> QED BY <2>3 DEF Hidden
  <1> HIDE DEF overlooked
  <1>9. \E o \in SUBSET Hidden[n] :
          /\ Where' = [x \in Tensors |-> IF x \in o THEN Where[x] ELSE Where[x] \ {n}]
          /\ Hidden' = [Hidden EXCEPT ![n] = o]
    BY <1>6, <1>7, <1>8
  <1> QED BY <1>1, <1>2, <1>3, <1>9 DEF Atomic!Evict, Atomic!Pending

LEMMA QuietIsAtomic ==
  ASSUME IInv, NEW t \in Tasks,
         NotFound(t) \/ HoldFirst(t) \/ Read(t) \/ ReadBoth(t) \/ VerifySource(t)
  PROVE  Atomic!Next \/ UNCHANGED <<Where, call, Done, Hidden>>
  <1> DEFINE x == call[t].tensor
  <1>1. Where' = Where /\ Hidden' = Hidden
    BY DEF NotFound, HoldFirst, Read, ReadBoth, VerifySource, maps, history, Where, Hidden
  <1>2. CASE HoldFirst(t)
    <2>1. /\ stage[t] = "first" /\ call[t].kind \in {"evict", "on_node", "stats"}
          /\ call' = call /\ stage' = [stage EXCEPT ![t] = "second"]
      BY <1>2 DEF HoldFirst, HasFirst, AskSecond
    <2>2. Done' = Done
      BY <2>1 DEF Done, IInv, Control
    <2> QED BY <1>1, <2>1, <2>2
  <1>3. CASE VerifySource(t)
    <2>1. /\ stage' = stage /\ stage[t] = "first"
          /\ call[t].kind = "transfer" /\ call[t] \in Calls
          /\ call' = [call EXCEPT ![t] = Call("add", x, call[t].to, NoNode)]
      <3>1. DOMAIN tensors \subseteq Tensors
        BY DEF IInv, Data
      <3> QED BY <1>3, <3>1, VerifyControl DEF IInv
    <2>2. x \in Tensors /\ call[t].node \in Nodes /\ call[t].to \in Nodes
      BY <2>1, CallFacts DEF TensorCalls
    <2>3. Done' = Done /\ ~Done[t]
      BY <2>1 DEF Done, IInv, Control
    <2>4. call[t].node \in Where[x]
      <3>1. x \in DOMAIN tensors /\ tensors[x].placed[call[t].node] > 0
        BY <1>3 DEF VerifySource, OnSource, Known
      <3>2. Where[x] = {n \in Nodes : tensors[x].placed[n] > 0}
        BY <2>2, <3>1, WhereIs
      <3> QED BY <2>2, <3>1, <3>2
    <2>5. \E c \in Calls : /\ c.kind = "add" /\ c.tensor = x /\ c.node = call[t].to
                           /\ call' = [call EXCEPT ![t] = c]
      <3> DEFINE add == Call("add", x, call[t].to, NoNode)
      <3>1. add \in Calls /\ add.kind = "add" /\ add.tensor = x /\ add.node = call[t].to
        BY <2>2, AddIsACall
      <3>2. call' = [call EXCEPT ![t] = add]
        BY <2>1
      <3> HIDE DEF add
      <3> QED BY <3>1, <3>2
    <2>6. Atomic!Verify(t)
      BY <1>1, <2>1, <2>3, <2>4, <2>5
         DEF Atomic!Verify, Atomic!Pending, Atomic!OnSource
    <2> QED BY <2>6 DEF Atomic!Next
  <1>4. CASE NotFound(t) \/ Read(t) \/ ReadBoth(t)
    <2>1. PICK lock \in Locks : Granted(t, lock) /\ Return(t, lock)
      BY <1>4, LockFacts DEF NotFound, Read, ReadBoth, HasFirst, HasBoth, ReturnFirst, ReturnSecond
    <2>2. /\ Atomic!Return(t) /\ ~Done'[t]
          /\ \A u \in Tasks : u # t => Done'[u] = Done[u]
      BY <2>1, ReturnDone
    <2>3. ~Done[t]
      BY <1>4 DEF Done, NotFound, Read, ReadBoth, HasFirst, HasBoth
    <2>4. Done' = Done
      BY <2>2, <2>3 DEF Done
    <2>5. CASE Read(t) \/ ReadBoth(t)
      <3>1. Atomic!Read(t)
        BY <1>1, <2>2, <2>3, <2>4, <2>5
           DEF Read, ReadBoth, HasFirst, HasBoth, Atomic!Read, Atomic!Pending
      <3> QED BY <3>1 DEF Atomic!Next
    <2>6. CASE NotFound(t)
      <3>1. /\ stage[t] = "first"
            /\ \/ call[t].kind \in {"add", "remove"} /\ x \notin DOMAIN tensors
               \/ call[t].kind = "transfer" /\ ~OnSource(t)
        BY <2>6 DEF NotFound, HasFirst, Known
      <3>2. x \in Tensors /\ call[t].node \in Nodes
        BY <3>1, InACall, CallFacts DEF IInv, TensorCalls
      <3>3. \/ call[t].kind \in {"add", "remove"} /\ Where[x] = {}
            \/ call[t].kind = "transfer" /\ call[t].node \notin Where[x]
        BY <3>1, <3>2, WhereIs DEF OnSource, Known
      <3>4. Atomic!NotFound(t)
        BY <1>1, <2>2, <2>3, <2>4, <3>3
           DEF Atomic!NotFound, Atomic!Pending, Atomic!Registered, Atomic!OnSource
      <3> QED BY <3>4 DEF Atomic!Next
    <2> QED BY <1>4, <2>5, <2>6
  <1> QED BY <1>2, <1>3, <1>4

LEMMA NextIsAtomicStep ==
  IInv /\ [Next]_vars => [Atomic!Next]_(Atomic!vars)
  <1> SUFFICES ASSUME IInv, [Next]_vars
               PROVE  Atomic!Next \/ UNCHANGED <<Where, call, Done, Hidden>>
    BY DEF Atomic!vars
  <1>1. ASSUME NEW t \in Tasks, NEW c \in Calls, Begin(t, c)
        PROVE  Atomic!Next
    <2>1. /\ stage[t] = "idle" /\ call' = [call EXCEPT ![t] = c]
          /\ stage' = [stage EXCEPT ![t] = "first"] /\ UNCHANGED <<maps, history>>
      BY <1>1 DEF Begin
    <2>2. call[t] = NoCall
      BY <2>1 DEF IInv, Control
    <2>3. Done' = Done
      BY <2>1 DEF Done, IInv, Control
    <2>4. Where' = Where /\ Hidden' = Hidden
      BY <2>1 DEF Where, Hidden, maps, history
    <2>5. Atomic!Begin(t, c)
      BY <2>1, <2>2, <2>3, <2>4 DEF Atomic!Begin
    <2> QED BY <2>5 DEF Atomic!Next
  <1>2. ASSUME NEW t \in Tasks, Proceed(t)
        PROVE  Atomic!Next \/ UNCHANGED <<Where, call, Done, Hidden>>
    BY <1>2, RegisterIsAtomic, AddIsAtomic, RemoveIsAtomic, FinishIsAtomic, EvictIsAtomic,
       QuietIsAtomic DEF Proceed, Atomic!Next
  <1>3. CASE UNCHANGED vars
    BY <1>3 DEF vars, Where, Done, Hidden
  <1>4. ASSUME NEW t \in Tasks, DropCall(t) PROVE Atomic!Next
    BY <1>4, DropIsAtomic DEF Atomic!Next
  <1> QED BY <1>1, <1>2, <1>3, <1>4 DEF Next

(* CallsAreAtomic: every call takes effect in one step on one map, whatever
   other callers do between the moments it obtains its locks, and whoever of
   them is dropped then; an eviction overlooks only copies whose caller was. *)
THEOREM ImplementsAtomic == Spec => CallsAreAtomic
  <1>1. Init => IInv
    BY InitIInv
  <1>2. IInv /\ [Next]_vars => IInv'
    BY NextIInv
  <1>3. Init => Atomic!Init
    BY AtomicInit
  <1>4. IInv /\ [Next]_vars => [Atomic!Next]_(Atomic!vars)
    BY NextIsAtomicStep
  <1> QED BY <1>1, <1>2, <1>3, <1>4, PTL DEF Spec, CallsAreAtomic, Atomic!Spec

-----------------------------------------------------------------------------
(* The queues *)

Waiters(lock) == {t \in Tasks : WaitsFor(t, lock)}

\* q names the members of S, each once, and nobody else.
Lists(q, S) ==
  /\ q \in Seq(Tasks)
  /\ \A i \in 1..Len(q) : q[i] \in S
  /\ \A t \in S : \E i \in 1..Len(q) : q[i] = t
  /\ \A i, j \in 1..Len(q) : q[i] = q[j] => i = j

\* Nobody is lost from a queue, or is in two.
Queues == \A lock \in Locks : Lists(waiting[lock], Waiters(lock))

LEMMA ListsMore ==
  ASSUME NEW q, NEW S, Lists(q, S), NEW t \in Tasks, t \notin S
  PROVE  Lists(Append(q, t), S \cup {t})
  <1>1. /\ Append(q, t) \in Seq(Tasks) /\ Len(Append(q, t)) = Len(q) + 1
        /\ Len(q) \in Nat
        /\ \A i \in 1..Len(q) : Append(q, t)[i] = q[i]
        /\ Append(q, t)[Len(q) + 1] = t
    BY DEF Lists
  <1>2. \A i \in 1..(Len(q) + 1) : i \in 1..Len(q) \/ i = Len(q) + 1
    BY <1>1
  <1>3. \A u \in S \cup {t} : \E i \in 1..(Len(q) + 1) : Append(q, t)[i] = u
    <2>1. ASSUME NEW u \in S
          PROVE  \E i \in 1..(Len(q) + 1) : Append(q, t)[i] = u
      <3>1. PICK i \in 1..Len(q) : q[i] = u
        BY DEF Lists
      <3>2. i \in 1..(Len(q) + 1)
        BY <1>1
      <3> QED BY <1>1, <3>1, <3>2
    <2>2. Len(q) + 1 \in 1..(Len(q) + 1)
      BY <1>1
    <2> QED BY <1>1, <2>1, <2>2
  <1>4. \A i \in 1..(Len(q) + 1) : Append(q, t)[i] \in S \cup {t}
    BY <1>1, <1>2 DEF Lists
  <1>5. \A i, j \in 1..(Len(q) + 1) : Append(q, t)[i] = Append(q, t)[j] => i = j
    BY <1>1, <1>2 DEF Lists
  <1> QED BY <1>1, <1>3, <1>4, <1>5 DEF Lists

LEMMA ListsFewer ==
  ASSUME NEW q, NEW S, Lists(q, S), q # <<>>
  PROVE  Head(q) \in S /\ Lists(Tail(q), S \ {Head(q)})
  <1>1. /\ Tail(q) \in Seq(Tasks) /\ Len(Tail(q)) = Len(q) - 1 /\ Head(q) = q[1]
        /\ Len(q) \in Nat \ {0}
        /\ \A i \in 1..(Len(q) - 1) : Tail(q)[i] = q[i + 1]
    BY DEF Lists
  <1>2. \A i \in 1..(Len(q) - 1) : i + 1 \in 1..Len(q) /\ i + 1 # 1
    BY <1>1
  <1>3. 1 \in 1..Len(q)
    BY <1>1
  <1>4. ASSUME NEW t \in S \ {Head(q)}
        PROVE  \E i \in 1..(Len(q) - 1) : Tail(q)[i] = t
    <2>1. PICK j \in 1..Len(q) : q[j] = t
      BY DEF Lists
    <2>2. j # 1
      BY <1>1, <2>1
    <2>3. j - 1 \in 1..(Len(q) - 1) /\ (j - 1) + 1 = j
      BY <1>1, <2>2
    <2> QED BY <1>1, <2>1, <2>3
  <1>5. \A i \in 1..(Len(q) - 1) : Tail(q)[i] \in S \ {Head(q)}
    BY <1>1, <1>2, <1>3 DEF Lists
  <1>6. \A i, j \in 1..(Len(q) - 1) : Tail(q)[i] = Tail(q)[j] => i = j
    <2> SUFFICES ASSUME NEW i \in 1..(Len(q) - 1), NEW j \in 1..(Len(q) - 1),
                        q[i + 1] = q[j + 1]
                 PROVE  i = j
      BY <1>1
    <2>1. i + 1 = j + 1
      BY <1>2 DEF Lists
    <2> QED BY <1>1, <2>1
  <1> QED BY <1>1, <1>3, <1>4, <1>5, <1>6 DEF Lists

LEMMA ListsWithout ==
  ASSUME NEW q, NEW S, Lists(q, S), NEW k \in 1..Len(q)
  PROVE  Lists(RemoveAt(q, k), S \ {q[k]})
  <1> DEFINE r == RemoveAt(q, k)
             at(i) == IF i < k THEN i ELSE i + 1
  <1>1. /\ r \in Seq(Tasks) /\ Len(r) = Len(q) - 1 /\ Len(q) \in Nat
        /\ \A i \in 1..(Len(q) - 1) : r[i] = q[at(i)]
    <2>1. /\ r \in Seq(Tasks) /\ Len(r) = Len(q) - 1
          /\ \A i \in 1..(Len(q) - 1) : r[i] = IF i < k THEN q[i] ELSE q[i + 1]
      BY RemoveAtIs DEF Lists
    <2> HIDE DEF r
    <2> QED BY <2>1 DEF Lists
  <1> HIDE DEF r
  <1>2. \A i \in 1..(Len(q) - 1) : at(i) \in 1..Len(q) /\ at(i) # k
    BY <1>1
  <1>3. \A i, j \in 1..(Len(q) - 1) : at(i) = at(j) => i = j
    BY <1>1
  <1>4. \A j \in 1..Len(q) : j # k => \E i \in 1..(Len(q) - 1) : at(i) = j
    <2> SUFFICES ASSUME NEW j \in 1..Len(q), j # k
                 PROVE  \E i \in 1..(Len(q) - 1) : at(i) = j
      OBVIOUS
    <2>1. CASE j < k
      <3>1. j \in 1..(Len(q) - 1) /\ at(j) = j
        BY <1>1, <2>1
      <3> QED BY <3>1
    <2>2. CASE ~(j < k)
      <3>1. j - 1 \in 1..(Len(q) - 1) /\ at(j - 1) = j
        BY <1>1, <2>2
      <3> QED BY <3>1
    <2> QED BY <2>1, <2>2
  <1> HIDE DEF at
  <1>5. \A i \in 1..(Len(q) - 1) : r[i] \in S \ {q[k]}
    BY <1>1, <1>2 DEF Lists
  <1>6. ASSUME NEW t \in S \ {q[k]}
        PROVE  \E i \in 1..(Len(q) - 1) : r[i] = t
    <2>1. PICK j \in 1..Len(q) : q[j] = t
      BY DEF Lists
    <2>2. j # k
      BY <2>1
    <2>3. PICK i \in 1..(Len(q) - 1) : at(i) = j
      BY <1>4, <2>2
    <2> QED BY <1>1, <2>1, <2>3
  <1>7. \A i, j \in 1..(Len(q) - 1) : r[i] = r[j] => i = j
    <2> SUFFICES ASSUME NEW i \in 1..(Len(q) - 1), NEW j \in 1..(Len(q) - 1), r[i] = r[j]
                 PROVE  i = j
      OBVIOUS
    <2>1. q[at(i)] = q[at(j)] /\ at(i) \in 1..Len(q) /\ at(j) \in 1..Len(q)
      BY <1>1, <1>2
    <2>2. at(i) = at(j)
      BY <2>1 DEF Lists
    <2> QED BY <1>3, <2>2
  <1>8. Lists(r, S \ {q[k]})
    BY <1>1, <1>5, <1>6, <1>7 DEF Lists
  <1> QED BY <1>8 DEF r

LEMMA InitQueues == Init => Queues
  BY DEF Init, Queues, Lists, Waiters, WaitsFor

LEMMA BeginQueues ==
  ASSUME Control, Queues, NEW t \in Tasks, NEW c \in Calls, Begin(t, c)
  PROVE  Queues'
  <1> DEFINE first == FirstLock(c.kind)
  <1>1. /\ stage[t] = "idle" /\ first \in Locks
        /\ \A u \in Tasks : call'[u] = IF u = t THEN c ELSE call[u]
        /\ \A u \in Tasks : stage'[u] = IF u = t THEN "first" ELSE stage[u]
    BY LockFacts DEF Begin, Control
  <1>2. \A lock \in Locks :
          waiting'[lock] = IF lock = first THEN Append(waiting[lock], t) ELSE waiting[lock]
    BY <1>1 DEF Begin, Control
  <1>3. \A lock \in Locks : t \notin Waiters(lock)
    BY <1>1 DEF Waiters, WaitsFor
  <1>4. \A lock \in Locks :
          Waiters(lock)' = IF lock = first THEN Waiters(lock) \cup {t} ELSE Waiters(lock)
    BY <1>1 DEF Waiters, WaitsFor
  <1> QED BY <1>2, <1>3, <1>4, ListsMore DEF Queues

\* Whoever is granted a lock is the head of its queue.
LEMMA LeaveQueue ==
  ASSUME Queues, NEW t \in Tasks, NEW lock \in Locks, Granted(t, lock)
  PROVE  /\ t \in Waiters(lock)
         /\ Lists(Tail(waiting[lock]), Waiters(lock) \ {t})
  BY ListsFewer DEF Queues, Granted

LEMMA AskQueues ==
  ASSUME Control, Queues, NEW t \in Tasks, HasFirst(t, TwoLocked), AskSecond(t)
  PROVE  Queues'
  <1> DEFINE first == FirstLock(call[t].kind)
  <1>1. /\ stage[t] = "first" /\ Granted(t, first) /\ call' = call
        /\ first \in Locks /\ Other(first) \in Locks /\ first # Other(first)
        /\ \A u \in Tasks : stage'[u] = IF u = t THEN "second" ELSE stage[u]
    BY LockFacts DEF HasFirst, AskSecond, Control
  <1>2. /\ waiting'[first] = Tail(waiting[first])
        /\ waiting'[Other(first)] = Append(waiting[Other(first)], t)
        /\ \A lock \in Locks : lock = first \/ lock = Other(first)
    <2>1. waiting' = [waiting EXCEPT ![first] = Tail(@), ![Other(first)] = Append(@, t)]
      BY DEF AskSecond
    <2> HIDE DEF first
    <2>2. \A lock \in Locks : lock = first \/ lock = Other(first)
      BY <1>1 DEF Locks, Other
    <2> QED BY <1>1, <2>1, <2>2 DEF Control
  <1>3. t \notin Waiters(Other(first))
    BY <1>1 DEF Waiters, WaitsFor
  <1>4. \A lock \in Locks :
          Waiters(lock)' = IF lock = first THEN Waiters(lock) \ {t}
                           ELSE Waiters(lock) \cup {t}
    BY <1>1, <1>2 DEF Waiters, WaitsFor
  <1>5. Lists(Tail(waiting[first]), Waiters(first) \ {t})
    BY <1>1, LeaveQueue
  <1>6. Lists(Append(waiting[Other(first)], t), Waiters(Other(first)) \cup {t})
    BY <1>1, <1>3, ListsMore DEF Queues
  <1> HIDE DEF first
  <1> QED BY <1>2, <1>4, <1>5, <1>6 DEF Queues

LEMMA ReturnQueues ==
  ASSUME Control, Queues, NEW t \in Tasks, NEW lock \in Locks,
         Granted(t, lock), Return(t, lock)
  PROVE  Queues'
  <1>1. /\ \A u \in Tasks : stage'[u] = IF u = t THEN "idle" ELSE stage[u]
        /\ \A u \in Tasks : u # t => call'[u] = call[u]
        /\ \A l \in Locks : waiting'[l] = IF l = lock THEN Tail(waiting[l]) ELSE waiting[l]
    BY DEF Return, Control
  <1>2. t \in Waiters(lock) /\ Lists(Tail(waiting[lock]), Waiters(lock) \ {t})
    BY LeaveQueue
  <1>3. \A l \in Locks : t \in Waiters(l) => l = lock
    BY <1>2 DEF Waiters, WaitsFor, Other, Locks
  <1>4. \A l \in Locks : Waiters(l)' = Waiters(l) \ {t}
    BY <1>1 DEF Waiters, WaitsFor
  <1>5. \A l \in Locks : l # lock => Waiters(l)' = Waiters(l)
    BY <1>3, <1>4
  <1> QED BY <1>1, <1>2, <1>4, <1>5 DEF Queues

LEMMA VerifyQueues ==
  ASSUME Control, Queues, NEW t \in Tasks, VerifySource(t)
  PROVE  Queues'
  <1>1. /\ stage[t] = "first" /\ stage' = stage /\ Granted(t, "tensors")
        /\ call[t].kind = "transfer" /\ "tensors" \in Locks
        /\ waiting' = [waiting EXCEPT !["tensors"] = Append(Tail(@), t)]
    BY DEF VerifySource, HasFirst, FirstLock, Locks
  <1>2. /\ call'[t].kind = "add"
        /\ \A u \in Tasks : u # t => call'[u] = call[u]
    BY DEF VerifySource, Control, Call
  <1>3. \A lock \in Locks : Waiters(lock)' = Waiters(lock)
    BY <1>1, <1>2 DEF Waiters, WaitsFor, FirstLock
  <1>4. t \in Waiters("tensors")
        /\ Lists(Tail(waiting["tensors"]), Waiters("tensors") \ {t})
    BY <1>1, LeaveQueue
  <1>5. Lists(Append(Tail(waiting["tensors"]), t), (Waiters("tensors") \ {t}) \cup {t})
    BY <1>4, ListsMore
  <1>6. (Waiters("tensors") \ {t}) \cup {t} = Waiters("tensors")
    BY <1>4
  <1>7. \A lock \in Locks :
          waiting'[lock] = IF lock = "tensors" THEN Append(Tail(waiting[lock]), t)
                           ELSE waiting[lock]
    BY <1>1 DEF Control
  <1> QED BY <1>3, <1>5, <1>6, <1>7 DEF Queues

LEMMA DropQueues ==
  ASSUME Control, Queues, NEW t \in Tasks, DropCall(t)
  PROVE  Queues'
  <1>1. PICK lock \in Locks : \E i \in 1..Len(waiting[lock]) :
          /\ WaitsFor(t, lock) /\ waiting[lock][i] = t
          /\ waiting' = [waiting EXCEPT ![lock] = RemoveAt(@, i)]
    BY DEF DropCall
  <1>2. PICK i \in 1..Len(waiting[lock]) :
          /\ WaitsFor(t, lock) /\ waiting[lock][i] = t
          /\ waiting' = [waiting EXCEPT ![lock] = RemoveAt(@, i)]
    BY <1>1
  <1>3. /\ \A u \in Tasks : stage'[u] = IF u = t THEN "idle" ELSE stage[u]
        /\ \A u \in Tasks : u # t => call'[u] = call[u]
    BY DEF DropCall, Control
  <1>4. \A l \in Locks : waiting'[l] = IF l = lock THEN RemoveAt(waiting[l], i)
                                       ELSE waiting[l]
    BY <1>2 DEF Control
  <1>5. Lists(RemoveAt(waiting[lock], i), Waiters(lock) \ {t})
    BY <1>2, ListsWithout DEF Queues
  <1>6. \A l \in Locks : WaitsFor(t, l) => l = lock
    BY <1>2 DEF WaitsFor, Other, Locks
  <1>7. \A l \in Locks : Waiters(l)' = Waiters(l) \ {t}
    BY <1>3 DEF Waiters, WaitsFor
  <1>8. \A l \in Locks : l # lock => Waiters(l)' = Waiters(l)
    BY <1>6, <1>7 DEF Waiters
  <1> QED BY <1>4, <1>5, <1>7, <1>8 DEF Queues

LEMMA NextQueues == IInv /\ Queues /\ [Next]_vars => Queues'
  <1> SUFFICES ASSUME IInv, Queues, [Next]_vars PROVE Queues'
    OBVIOUS
  <1>0. Control
    BY DEF IInv
  <1>1. ASSUME NEW t \in Tasks, NEW c \in Calls, Begin(t, c) PROVE Queues'
    BY <1>0, <1>1, BeginQueues
  <1>2. ASSUME NEW t \in Tasks, Proceed(t) PROVE Queues'
    <2>1. CASE RegisterTensor(t) \/ AddPlacement(t) \/ RemovePlacement(t) \/ HoldFirst(t)
      <3>1. HasFirst(t, TwoLocked) /\ AskSecond(t)
        BY <2>1 DEF RegisterTensor, AddPlacement, RemovePlacement, HoldFirst, HasFirst,
                    TwoLocked
      <3> QED BY <1>0, <3>1, AskQueues
    <2>2. CASE IndexPlacement(t) \/ UnindexPlacement(t) \/ EvictFromNode(t) \/ ReadBoth(t)
      <3>1. Granted(t, Other(FirstLock(call[t].kind)))
            /\ Return(t, Other(FirstLock(call[t].kind)))
        BY <2>2 DEF IndexPlacement, UnindexPlacement, EvictFromNode, ReadBoth, HasBoth,
                    ReturnSecond
      <3> QED BY <1>0, <3>1, LockFacts, ReturnQueues
    <2>3. CASE NotFound(t) \/ Read(t)
      <3>1. Granted(t, FirstLock(call[t].kind)) /\ Return(t, FirstLock(call[t].kind))
        BY <2>3 DEF NotFound, Read, HasFirst, ReturnFirst
      <3> QED BY <1>0, <3>1, LockFacts, ReturnQueues
    <2>4. CASE VerifySource(t)
      BY <1>0, <2>4, VerifyQueues
    <2> QED BY <1>2, <2>1, <2>2, <2>3, <2>4 DEF Proceed
  <1>3. CASE UNCHANGED vars
    BY <1>3 DEF vars, Queues, Lists, Waiters, WaitsFor
  <1>4. ASSUME NEW t \in Tasks, DropCall(t) PROVE Queues'
    BY <1>0, <1>4, DropQueues
  <1> QED BY <1>1, <1>2, <1>3, <1>4 DEF Next

\* A lock that nobody holds and somebody waits for is granted to somebody.
LEMMA FreeLockIsGranted ==
  ASSUME Control, Queues, NEW lock \in Locks, \A u \in Tasks : ~Holds(u, lock),
         NEW t \in Tasks, WaitsFor(t, lock)
  PROVE  \E u \in Tasks : HasFirst(u, {call[u].kind}) \/ HasBoth(u, {call[u].kind})
  <1>1. Lists(waiting[lock], Waiters(lock)) /\ t \in Waiters(lock)
    BY DEF Queues, Waiters
  <1>2. waiting[lock] # <<>>
    BY <1>1 DEF Lists
  <1> DEFINE u == Head(waiting[lock])
  <1>3. u \in Tasks /\ WaitsFor(u, lock)
    <2>1. u \in Waiters(lock)
      BY <1>1, <1>2, ListsFewer
    <2> QED BY <2>1 DEF Waiters
  <1>4. Granted(u, lock)
    BY <1>2 DEF Granted, Holders, Holds
  <1> QED BY <1>3, <1>4 DEF WaitsFor, HasFirst, HasBoth

LEMMA CallsProceed ==
  ASSUME Control, Queues
  PROVE  OrderedCallsProceed
  <1>1. CASE \E t \in Tasks : Holds(t, "tensors")
    <2>1. CASE \E u \in Tasks : Holds(u, "node_tensors")
      BY <1>1, <2>1 DEF OrderedCallsProceed, Holds, FirstLock
    <2>2. CASE \A u \in Tasks : ~Holds(u, "node_tensors")
      <3>1. \E t \in Tasks : WaitsFor(t, "node_tensors")
        BY <1>1 DEF Holds, WaitsFor, Other
      <3> QED BY <2>2, <3>1, FreeLockIsGranted DEF OrderedCallsProceed, Locks
    <2> QED BY <2>1, <2>2
  <1>2. CASE \A t \in Tasks : ~Holds(t, "tensors")
    <2>1. CASE \E t \in Tasks : WaitsFor(t, "tensors")
      BY <1>2, <2>1, FreeLockIsGranted DEF OrderedCallsProceed, Locks
    <2>2. CASE \A t \in Tasks : ~WaitsFor(t, "tensors")
      <3>1. \A t \in Tasks : stage[t] # "second"
        BY <1>2, <2>2 DEF Holds, WaitsFor, Other, FirstLock
      <3>2. \A t \in Tasks : stage[t] = "first" => WaitsFor(t, "node_tensors")
        BY <2>2 DEF WaitsFor, FirstLock
      <3>3. \A t \in Tasks : ~Holds(t, "node_tensors")
        BY <3>1 DEF Holds
      <3>4. \A t \in Tasks : stage[t] \in {"idle", "first", "second"}
        BY DEF Control
      <3>5. CASE \E t \in Tasks : stage[t] = "first"
        BY <3>2, <3>3, <3>5, FreeLockIsGranted DEF OrderedCallsProceed, Locks
      <3> QED BY <3>1, <3>4, <3>5 DEF OrderedCallsProceed
    <2> QED BY <2>1, <2>2
  <1> QED BY <1>1, <1>2

(* OrderedCallsProceed: whoever waits is in the queue of its lock, and the head
   of the queue of a lock that nobody holds obtains it.  Only two calls that
   hold a lock each and took them in opposite orders can block the service. *)
THEOREM OnlyCrossingCallsBlock == Spec => []OrderedCallsProceed
  <1>1. Init => IInv /\ Queues
    BY InitIInv, InitQueues
  <1>2. IInv /\ Queues /\ [Next]_vars => (IInv /\ Queues)'
    BY NextIInv, NextQueues
  <1>3. IInv /\ Queues => OrderedCallsProceed
    BY CallsProceed DEF IInv
  <1> QED BY <1>1, <1>2, <1>3, PTL DEF Spec

-----------------------------------------------------------------------------
(* What a crossing does.  An eviction has the index and waits for the        *)
(* tensors, another call has the tensors and waits for the index.            *)

Crossed(t, u) ==
  /\ stage[t] = "second" /\ call[t].kind = "evict"
  /\ stage[u] = "second" /\ call[u].kind \notin {"evict", "on_node"}

LEMMA CrossedBlocksWriters ==
  ASSUME NEW t \in Tasks, NEW u \in Tasks, Crossed(t, u),
         NEW w \in Tasks, NEW lock \in Locks, Granted(w, lock)
  PROVE  lock = "tensors" /\ Reads(call[w].kind)
  <1>1. Holds(t, "node_tensors") /\ Holds(u, "tensors")
    BY DEF Crossed, Holds, FirstLock
  <1>2. ~Reads(call[t].kind)
    BY DEF Crossed, Reads
  <1>3. lock # "node_tensors"
    BY <1>1, <1>2, GrantedReading
  <1>4. lock = "tensors"
    BY <1>3 DEF Locks
  <1> QED BY <1>1, <1>4, GrantedReading

\* So what still runs are calls that read the tensors alone, or get them for
\* reading before they wait for the index in their turn.
LEMMA CrossedStep ==
  ASSUME Control, NEW t \in Tasks, NEW u \in Tasks, Crossed(t, u),
         NEW w \in Tasks, Proceed(w)
  PROVE  UNCHANGED maps /\ Crossed(t, u)'
  <1>1. \A lock \in Locks : Granted(w, lock) =>
          lock = "tensors" /\ Reads(call[w].kind)
    BY CrossedBlocksWriters
  <1>2. /\ FirstLock(call[w].kind) \in Locks
        /\ Other(FirstLock(call[w].kind)) \in Locks
    BY LockFacts
  <1>3. ~RegisterTensor(w) /\ ~AddPlacement(w) /\ ~RemovePlacement(w)
    BY <1>1, <1>2 DEF RegisterTensor, AddPlacement, RemovePlacement, HasFirst, Reads
  <1>4. ~IndexPlacement(w) /\ ~UnindexPlacement(w) /\ ~EvictFromNode(w)
    BY <1>1, <1>2 DEF IndexPlacement, UnindexPlacement, EvictFromNode, HasBoth, Reads
  <1>5. UNCHANGED maps
    BY <1>3, <1>4 DEF Proceed, VerifySource, NotFound, HoldFirst, Read, ReadBoth
  <1>6. w # t /\ w # u
    <2>1. CASE stage[w] = "first"
      BY <2>1 DEF Crossed
    <2>2. CASE stage[w] # "first"
      <3>1. HasBoth(w, {"on_node", "stats"})
        BY <1>3, <1>4, <2>2 DEF Proceed, VerifySource, NotFound, HoldFirst, Read,
           ReadBoth, HasFirst
      <3>2. Other(FirstLock(call[w].kind)) = "tensors"
        BY <1>1, <1>2, <3>1 DEF HasBoth
      <3>3. call[w].kind = "on_node"
        BY <3>1, <3>2 DEF HasBoth, FirstLock, Other
      <3> QED BY <3>3 DEF Crossed
    <2> QED BY <2>1, <2>2
  <1>7. \A v \in Tasks \ {w} : stage'[v] = stage[v] /\ call'[v] = call[v]
    BY <1>3, <1>4 DEF Control, Proceed, VerifySource, NotFound, HoldFirst, Read,
       ReadBoth, AskSecond, Return, ReturnFirst, ReturnSecond
  <1> QED BY <1>5, <1>6, <1>7 DEF Crossed

(* Finding 2 lasts: once an eviction and a call of the usual lock order hold a
   lock each, no step changes the directory, whatever is called later, and only
   the drop of one of the two callers ends it. *)
THEOREM CrossingsLast ==
  Spec => [][\A t, u \in Tasks :
               Crossed(t, u) =>
                 /\ UNCHANGED maps
                 /\ Crossed(t, u)' \/ DropCall(t) \/ DropCall(u)]_vars
  <1>1. Init => IInv
    BY InitIInv
  <1>2. IInv /\ [Next]_vars => IInv'
    BY NextIInv
  <1>3. IInv /\ [Next]_vars =>
          [\A t, u \in Tasks :
             Crossed(t, u) =>
               /\ UNCHANGED maps
               /\ Crossed(t, u)' \/ DropCall(t) \/ DropCall(u)]_vars
    <2> SUFFICES ASSUME Control, Next, NEW t \in Tasks, NEW u \in Tasks,
                        Crossed(t, u)
                 PROVE  /\ UNCHANGED maps
                        /\ Crossed(t, u)' \/ DropCall(t) \/ DropCall(u)
      BY DEF IInv
    <2>1. ASSUME NEW w \in Tasks, Proceed(w)
          PROVE  UNCHANGED maps /\ Crossed(t, u)'
      BY <2>1, CrossedStep
    <2>2. ASSUME NEW w \in Tasks, NEW c \in Calls, Begin(w, c)
          PROVE  UNCHANGED maps /\ Crossed(t, u)'
      <3>1. w # t /\ w # u
        BY <2>2 DEF Begin, Crossed
      <3>2. \A v \in Tasks \ {w} : stage'[v] = stage[v] /\ call'[v] = call[v]
        BY <2>2 DEF Begin, Control
      <3> QED BY <2>2, <3>1, <3>2 DEF Begin, Crossed
    <2>3. ASSUME NEW w \in Tasks, DropCall(w), w # t, w # u
          PROVE  UNCHANGED maps /\ Crossed(t, u)'
      BY <2>3 DEF DropCall, Control, Crossed
    <2>4. ASSUME NEW w \in Tasks, DropCall(w) PROVE UNCHANGED maps
      BY <2>4 DEF DropCall
    <2> QED BY <2>1, <2>2, <2>3, <2>4 DEF Next
  <1> QED BY <1>1, <1>2, <1>3, PTL DEF Spec

-----------------------------------------------------------------------------
(* The steps a call has left. *)

Left(t) ==
  CASE stage[t] = "idle" -> 0
    [] stage[t] = "second" -> 1
    [] stage[t] = "first" /\ call[t].kind \in {"get", "scan"} -> 1
    [] stage[t] = "first" /\ call[t].kind \in TwoLocked -> 2
    [] stage[t] = "first" /\ call[t].kind = "transfer" -> 3

LEMMA LeftIs ==
  ASSUME Control, NEW t \in Tasks
  PROVE  Left(t) \in Nat /\ (Left(t) = 0 <=> stage[t] = "idle")
  <1>1. CASE stage[t] = "idle"
    BY <1>1 DEF Left
  <1>2. CASE stage[t] = "second"
    BY <1>2 DEF Left
  <1>3. CASE stage[t] = "first"
    <2>1. call[t].kind \in TwoLocked \cup {"get", "scan", "transfer"}
      BY <1>3, InACall, CallFacts DEF TwoLocked, TensorCalls
    <2> QED BY <1>3, <2>1 DEF Left, TwoLocked
  <1> QED BY <1>1, <1>2, <1>3 DEF Control

LEMMA OthersLeft ==
  ASSUME Control, NEW w \in Tasks,
         Proceed(w) \/ DropCall(w) \/ \E c \in Calls : Begin(w, c)
  PROVE  \A v \in Tasks \ {w} : Left(v)' = Left(v)
  <1>1. \A v \in Tasks \ {w} : stage'[v] = stage[v] /\ call'[v] = call[v]
    <2>1. CASE AskSecond(w) \/ ReturnFirst(w) \/ ReturnSecond(w)
      BY <2>1 DEF Control, AskSecond, Return, ReturnFirst, ReturnSecond
    <2>2. CASE VerifySource(w)
      BY <2>2 DEF Control, VerifySource
    <2>3. CASE \E c \in Calls : Begin(w, c)
      BY <2>3 DEF Control, Begin
    <2>4. CASE DropCall(w)
      BY <2>4 DEF Control, DropCall
    <2> QED BY <2>1, <2>2, <2>3, <2>4 DEF Proceed, RegisterTensor, AddPlacement,
               IndexPlacement, RemovePlacement, UnindexPlacement, NotFound,
               HoldFirst, EvictFromNode, Read, ReadBoth
  <1> QED BY <1>1 DEF Left

LEMMA OwnStepLeft ==
  ASSUME Control, NEW t \in Tasks, Proceed(t) \/ DropCall(t)
  PROVE  Left(t)' \in Nat /\ Left(t)' < Left(t)
  <1>1. CASE RegisterTensor(t) \/ AddPlacement(t) \/ RemovePlacement(t)
             \/ HoldFirst(t)
    <2>1. stage[t] = "first" /\ call[t].kind \in TwoLocked /\ AskSecond(t)
      BY <1>1 DEF RegisterTensor, AddPlacement, RemovePlacement, HoldFirst,
         HasFirst, TwoLocked
    <2>2. Left(t) = 2
      BY <2>1 DEF Left, TwoLocked
    <2>3. stage'[t] = "second"
      BY <2>1 DEF AskSecond, Control
    <2>4. Left(t)' = 1
      BY <2>3 DEF Left
    <2> QED BY <2>2, <2>4
  <1>2. CASE VerifySource(t)
    <2>1. stage[t] = "first" /\ call[t].kind = "transfer"
      BY <1>2 DEF VerifySource, HasFirst
    <2>2. Left(t) = 3
      BY <2>1 DEF Left, TwoLocked
    <2>3. stage'[t] = "first" /\ call'[t].kind = "add"
      BY <1>2, <2>1 DEF VerifySource, Call, Control
    <2>4. Left(t)' = 2
      BY <2>3 DEF Left, TwoLocked
    <2> QED BY <2>2, <2>4
  <1>3. CASE ReturnFirst(t) \/ ReturnSecond(t) \/ DropCall(t)
    <2>1. stage'[t] = "idle"
      BY <1>3 DEF ReturnFirst, ReturnSecond, Return, DropCall, Control
    <2>2. Left(t)' = 0
      BY <2>1 DEF Left
    <2>3. stage[t] # "idle"
      BY DEF DropCall, WaitsFor, Proceed, RegisterTensor, AddPlacement, IndexPlacement,
         RemovePlacement, UnindexPlacement, VerifySource, NotFound, HoldFirst,
         EvictFromNode, Read, ReadBoth, HasFirst, HasBoth
    <2> QED BY <2>2, <2>3, LeftIs
  <1> QED BY <1>1, <1>2, <1>3 DEF Proceed, IndexPlacement, UnindexPlacement,
             NotFound, EvictFromNode, Read, ReadBoth

(* Each step of a call, and its being dropped, makes the number of steps it has
   left smaller, which is a natural number and 0 only when it has returned or
   was dropped, and no other call changes it: no call is sent back to a queue it has been through.  With
   OrderedCallsProceed, by which somebody can go on, all calls return unless
   an eviction or a listing crosses a call of the usual lock order. *)
THEOREM CallsRunOut ==
  Spec => /\ [](\A t \in Tasks : Left(t) \in Nat /\ (Left(t) = 0 <=> stage[t] = "idle"))
          /\ [][\A t \in Tasks :
                  /\ Proceed(t) \/ DropCall(t) => Left(t)' < Left(t)
                  /\ Left(t)' > Left(t) => stage[t] = "idle"]_vars
  <1>1. Init => IInv
    BY InitIInv
  <1>2. IInv /\ [Next]_vars => IInv'
    BY NextIInv
  <1>3. IInv => \A t \in Tasks : Left(t) \in Nat /\ (Left(t) = 0 <=> stage[t] = "idle")
    BY LeftIs DEF IInv
  <1>4. IInv /\ [Next]_vars =>
          [\A t \in Tasks :
             /\ Proceed(t) \/ DropCall(t) => Left(t)' < Left(t)
             /\ Left(t)' > Left(t) => stage[t] = "idle"]_vars
    <2> SUFFICES ASSUME IInv, Next, NEW t \in Tasks
                 PROVE  /\ Proceed(t) \/ DropCall(t) => Left(t)' < Left(t)
                        /\ Left(t)' > Left(t) => stage[t] = "idle"
      OBVIOUS
    <2>0. Control /\ Left(t) \in Nat
      BY LeftIs DEF IInv
    <2>1. Proceed(t) \/ DropCall(t) => Left(t)' \in Nat /\ Left(t)' < Left(t)
      BY <2>0, OwnStepLeft
    <2>2. ASSUME NEW w \in Tasks, Proceed(w) \/ DropCall(w) \/ \E c \in Calls : Begin(w, c)
          PROVE  Left(t)' > Left(t) => stage[t] = "idle"
      <3>1. CASE w # t
        BY <2>0, <2>2, <3>1, OthersLeft
      <3>2. CASE w = t /\ (Proceed(t) \/ DropCall(t))
        BY <2>0, <2>1, <3>2
      <3>3. CASE w = t /\ \E c \in Calls : Begin(t, c)
        BY <3>3 DEF Begin
      <3> QED BY <2>2, <3>1, <3>2, <3>3
    <2> QED BY <2>1, <2>2 DEF Next
  <1> QED BY <1>1, <1>2, <1>3, <1>4, PTL DEF Spec
=============================================================================
