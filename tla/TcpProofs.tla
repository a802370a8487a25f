----------------------------- MODULE TcpProofs ------------------------------
(***************************************************************************)
(* Proofs about TcpTransport for every number of connections and every     *)
(* length, unit and buffer size.                                           *)
(***************************************************************************)
EXTENDS TcpTransport, FiniteSetTheorems, TLAPS

\* The connections the count is about.
Occupies(c) == handler[c].pc \in {"header", "transfer", "ping", "uncount", "failed"}
Occupying == {c \in Connections : Occupies(c)}

\* A handler has read what was sent, at most what the header announces; it
\* acknowledges when it has read that much, and does not go on after it.
ConnectionOK(c) ==
  /\ handler[c].received <= peer[c].sent
  /\ peer[c].sent <= peer[c].header.length
  /\ handler[c].pc \in {"off", "spawned", "header"} => handler[c].received = 0
  /\ At(c, "transfer") =>
       peer[c].header # NoHeader /\ handler[c].received <= PayloadLength(c)
  /\ peer[c].acked =>
       /\ peer[c].header # NoHeader
       /\ handler[c].pc \in {"uncount", "done"}
       /\ handler[c].received = PayloadLength(c)

IInv ==
  /\ handler \in [Connections -> HandlerState]
  /\ peer \in [Connections -> PeerState]
  /\ \A c \in Connections : ConnectionOK(c)
  /\ CountIsAccounted

-----------------------------------------------------------------------------
(* Numbers *)

LEMMA Constants ==
  /\ LengthUnit \in Nat \ {0} /\ BufferSize \in Nat \ {0} /\ MaxLength \in Nat
  /\ IsFiniteSet(Connections) /\ Clients \subseteq Connections
  BY TcpAssumption

\* Leaving the lowest digit of a length out makes it shorter by less than one
\* unit.
LEMMA RoundedDown ==
  ASSUME NEW length \in Nat
  PROVE  /\ (length \div LengthUnit) * LengthUnit \in Nat
         /\ (length \div LengthUnit) * LengthUnit <= length
         /\ length - (length \div LengthUnit) * LengthUnit < LengthUnit
  BY Constants

\* What a read can return.
LEMMA LeastOfThree ==
  ASSUME NEW x \in Int, NEW y \in Int, NEW z \in Int, NEW n \in 1..Min({x, y, z})
  PROVE  n \in Nat /\ n <= x /\ n <= y /\ n <= z
  <1>1. \E w \in {x, y, z} : \A v \in {x, y, z} : w <= v
    OBVIOUS
  <1>2. Min({x, y, z}) \in {x, y, z} /\ \A v \in {x, y, z} : Min({x, y, z}) <= v
    BY <1>1 DEF Min
  <1> QED BY <1>2

LEMMA HeaderLength ==
  ASSUME NEW h \in Headers \cup {NoHeader}
  PROVE  h.length \in 0..MaxLength
  BY Constants DEF Headers, NoHeader

LEMMA InitIInv == Init => IInv
  <1> SUFFICES ASSUME Init PROVE IInv
    OBVIOUS
  <1>1. NoHeader.length = 0 /\ NoHeader \in Headers \cup {NoHeader} /\ 0 \in 0..MaxLength
    BY Constants DEF NoHeader
  <1>2. handler \in [Connections -> HandlerState] /\ peer \in [Connections -> PeerState]
    BY <1>1 DEF Init, HandlerState, PeerState
  <1>3. \A c \in Connections : ConnectionOK(c)
    BY <1>1 DEF Init, ConnectionOK, At
  <1>4. {c \in Connections : Counted(c) \/ At(c, "failed")} = {}
    BY DEF Init, Counted, At
  <1>5. CountIsAccounted
    BY <1>4, FS_EmptySet DEF Init, CountIsAccounted
  <1> QED BY <1>2, <1>3, <1>5 DEF IInv

-----------------------------------------------------------------------------
(* One connection moves at a time. *)

LEMMA CountedAre == CountIsAccounted <=> active_connections = Cardinality(Occupying)
  <1>1. Occupying = {c \in Connections : Counted(c) \/ At(c, "failed")}
    BY DEF Occupying, Occupies, Counted, At
  <1> QED BY <1>1 DEF CountIsAccounted

LEMMA OneConnection ==
  ASSUME IInv, NEW c \in Connections, NEW h \in HandlerState, NEW p \in PeerState,
         handler' = [handler EXCEPT ![c] = h], peer' = [peer EXCEPT ![c] = p],
         ConnectionOK(c)',
         \/ active_connections' = active_connections /\ Occupies(c)' = Occupies(c)
         \/ active_connections' = active_connections + 1 /\ ~Occupies(c) /\ Occupies(c)'
         \/ active_connections' = OneLess(active_connections)
            /\ Occupies(c) /\ ~Occupies(c)'
  PROVE  IInv'
  <1>1. handler' \in [Connections -> HandlerState] /\ peer' \in [Connections -> PeerState]
    BY DEF IInv
  <1>2. ASSUME NEW d \in Connections, d # c
        PROVE  /\ handler'[d] = handler[d] /\ peer'[d] = peer[d]
               /\ ConnectionOK(d)' /\ Occupies(d)' = Occupies(d)
    BY <1>2 DEF IInv, ConnectionOK, At, PayloadLength, Occupies
  <1>3. active_connections = Cardinality(Occupying)
    BY CountedAre DEF IInv
  <1>4. IsFiniteSet(Occupying) /\ Cardinality(Occupying) \in Nat
    <2>1. Occupying \in SUBSET Connections
      BY DEF Occupying
    <2>2. IsFiniteSet(Occupying)
      BY <2>1, Constants, FS_Subset
    <2> QED BY <2>2, FS_CardinalityType
  <1>5. active_connections' = Cardinality(Occupying')
    <2>1. CASE active_connections' = active_connections /\ Occupies(c)' = Occupies(c)
      <3>1. Occupying' = Occupying
        BY <1>2, <2>1 DEF Occupying
      <3> QED BY <1>3, <2>1, <3>1
    <2>2. CASE active_connections' = active_connections + 1 /\ ~Occupies(c) /\ Occupies(c)'
      <3>1. Occupying' = Occupying \cup {c} /\ c \notin Occupying
        BY <1>2, <2>2 DEF Occupying
      <3>2. Cardinality(Occupying \cup {c}) = Cardinality(Occupying) + 1
        BY <1>4, <3>1, FS_AddElement
      <3> QED BY <1>3, <2>2, <3>1, <3>2
    <2>3. CASE /\ active_connections' = OneLess(active_connections)
               /\ Occupies(c) /\ ~Occupies(c)'
      <3>1. Occupying' = Occupying \ {c} /\ c \in Occupying
        BY <1>2, <2>3 DEF Occupying
      <3>2. Cardinality(Occupying \ {c}) = Cardinality(Occupying) - 1
        BY <1>4, <3>1, FS_RemoveElement
      <3>3. Occupying # {}
        BY <3>1
      <3>4. Cardinality(Occupying) # 0
        BY <1>4, <3>3, FS_EmptySet
      <3> QED BY <1>3, <1>4, <2>3, <3>1, <3>2, <3>4 DEF OneLess
    <2> QED BY <2>1, <2>2, <2>3
  <1>6. CountIsAccounted'
    <2>1. Occupying' = {d \in Connections : Counted(d) \/ At(d, "failed")}'
      BY DEF Occupying, Occupies, Counted, At
    <2> QED BY <1>5, <2>1 DEF CountIsAccounted
  <1>7. \A d \in Connections : ConnectionOK(d)'
    BY <1>2
  <1> QED BY <1>1, <1>6, <1>7 DEF IInv

-----------------------------------------------------------------------------
(* Server *)

\* A handler goes on to x, and its peer sees nothing of it.
LEMMA GotoStep ==
  ASSUME IInv, NEW c \in Connections,
         NEW x \in {"spawned", "header", "transfer", "ping", "uncount", "done", "failed"},
         Goto(c, x), UNCHANGED peer,
         x \in {"spawned", "header", "transfer"} => handler[c].received = 0,
         x = "transfer" => peer[c].header # NoHeader,
         peer[c].acked => x \in {"uncount", "done"},
         \/ /\ active_connections' = active_connections
            /\ Occupies(c) <=> x \notin {"spawned", "done"}
         \/ /\ active_connections' = active_connections + 1
            /\ ~Occupies(c) /\ x \notin {"spawned", "done"}
         \/ /\ active_connections' = OneLess(active_connections)
            /\ Occupies(c) /\ x \in {"spawned", "done"}
  PROVE  IInv'
  <1> DEFINE h == [handler[c] EXCEPT !.pc = x]
  <1>1. /\ handler[c] \in HandlerState /\ peer[c] \in PeerState /\ ConnectionOK(c)
        /\ handler \in [Connections -> HandlerState]
        /\ peer \in [Connections -> PeerState]
    BY DEF IInv
  <1>2. /\ h \in HandlerState /\ h.pc = x /\ h.received = handler[c].received
        /\ handler' = [handler EXCEPT ![c] = h] /\ handler'[c] = h
        /\ peer' = [peer EXCEPT ![c] = peer[c]]
    BY <1>1 DEF HandlerState, Goto
  <1> HIDE DEF h
  <1>3. peer[c].header.length \in Nat
    BY <1>1, Constants, HeaderLength DEF PeerState
  <1>4. PayloadLength(c) \in Nat /\ PayloadLength(c)' = PayloadLength(c)
    BY <1>3, RoundedDown DEF PayloadLength
  <1>5. ConnectionOK(c)'
    BY <1>1, <1>2, <1>4 DEF ConnectionOK, At, HandlerState
  <1>6. Occupies(c)' <=> x \notin {"spawned", "done"}
    BY <1>2 DEF Occupies
  <1>7. \/ active_connections' = active_connections /\ Occupies(c)' = Occupies(c)
        \/ active_connections' = active_connections + 1 /\ ~Occupies(c) /\ Occupies(c)'
        \/ active_connections' = OneLess(active_connections)
           /\ Occupies(c) /\ ~Occupies(c)'
    BY <1>6 DEF Occupies
  <1> QED BY <1>1, <1>2, <1>5, <1>7, OneConnection

LEMMA FailStep ==
  ASSUME IInv, NEW c \in Connections, Fail(c),
         handler[c].pc \in {"header", "transfer", "ping"}
  PROVE  IInv'
  <1>1. ~peer[c].acked
    BY DEF IInv, ConnectionOK
  <1>2. Occupies(c)
    BY DEF Occupies
  <1> QED BY <1>1, <1>2, GotoStep DEF Fail

LEMMA NextForTypes ==
  ASSUME NEW h \in Headers
  PROVE  /\ NextFor(h.type) \in {"transfer", "ping", "uncount", "failed"}
  BY DEF NextFor

LEMMA ReadPayloadStep ==
  ASSUME IInv, NEW c \in Connections, ReadPayload(c)
  PROVE  IInv'
  <1>1. /\ handler[c] \in HandlerState /\ peer[c] \in PeerState /\ ConnectionOK(c)
        /\ handler \in [Connections -> HandlerState]
        /\ peer \in [Connections -> PeerState]
    BY DEF IInv
  <1>2. /\ handler[c].received \in 0..MaxLength /\ handler[c].received \in Nat
        /\ peer[c].sent \in 0..MaxLength /\ peer[c].sent \in Nat
        /\ peer[c].header.length \in Nat
    BY <1>1, Constants, HeaderLength DEF HandlerState, PeerState
  <1>3. PayloadLength(c) \in Nat
    BY <1>2, RoundedDown DEF PayloadLength
  <1>4. PICK n \in 1..Min({BufferSize, PayloadLength(c) - handler[c].received,
                           peer[c].sent - handler[c].received}) :
          handler' = [handler EXCEPT ![c].received = @ + n]
    BY Zenon DEF ReadPayload
  <1>5. /\ n \in Nat /\ n <= PayloadLength(c) - handler[c].received
        /\ n <= peer[c].sent - handler[c].received
    <2>1. /\ BufferSize \in Int /\ PayloadLength(c) - handler[c].received \in Int
          /\ peer[c].sent - handler[c].received \in Int
      BY <1>2, <1>3, Constants
    <2> QED BY <2>1, LeastOfThree, Zenon
  <1> DEFINE h == [handler[c] EXCEPT !.received = handler[c].received + n]
  <1>6. /\ h \in HandlerState /\ h.pc = "transfer"
        /\ h.received = handler[c].received + n
        /\ handler' = [handler EXCEPT ![c] = h] /\ handler'[c] = h
        /\ peer' = [peer EXCEPT ![c] = peer[c]] /\ peer' = peer
        /\ active_connections' = active_connections /\ handler[c].pc = "transfer"
    <2>1. handler[c].pc = "transfer" /\ UNCHANGED <<active_connections, peer>>
      BY DEF ReadPayload, Receiving, At
    <2>2. handler[c].received + n \in 0..MaxLength
      BY <1>2, <1>5, Constants
    <2>3. h \in HandlerState /\ h.pc = "transfer" /\ h.received = handler[c].received + n
      BY <1>1, <2>1, <2>2 DEF HandlerState
    <2> QED BY <1>1, <1>4, <2>1, <2>3
  <1> HIDE DEF h
  <1>7. PayloadLength(c)' = PayloadLength(c)
    BY <1>6 DEF PayloadLength
  <1>8. ConnectionOK(c)'
    BY <1>1, <1>2, <1>3, <1>5, <1>6, <1>7 DEF ConnectionOK, At
  <1>9. Occupies(c)' = Occupies(c)
    BY <1>6 DEF Occupies
  <1> QED BY <1>1, <1>6, <1>8, <1>9, OneConnection

LEMMA SendAckStep ==
  ASSUME IInv, NEW c \in Connections, SendAck(c)
  PROVE  IInv'
  <1>1. /\ handler[c] \in HandlerState /\ peer[c] \in PeerState /\ ConnectionOK(c)
        /\ handler \in [Connections -> HandlerState]
        /\ peer \in [Connections -> PeerState]
    BY DEF IInv
  <1> DEFINE h == [handler[c] EXCEPT !.pc = "uncount"]
             p == [peer[c] EXCEPT !.acked = TRUE]
  <1>2. /\ h \in HandlerState /\ h.pc = "uncount" /\ h.received = handler[c].received
        /\ handler' = [handler EXCEPT ![c] = h] /\ handler'[c] = h
        /\ p \in PeerState /\ p.header = peer[c].header /\ p.sent = peer[c].sent
        /\ peer' = [peer EXCEPT ![c] = p] /\ peer'[c] = p
        /\ active_connections' = active_connections /\ handler[c].pc = "transfer"
        /\ ~More(c)
    BY <1>1 DEF SendAck, Goto, HandlerState, PeerState, Receiving, At
  <1> HIDE DEF h, p
  <1>3. PayloadLength(c)' = PayloadLength(c)
    BY <1>2 DEF PayloadLength
  <1>4. PayloadLength(c) \in Nat /\ handler[c].received \in Nat
    BY <1>1, Constants, HeaderLength, RoundedDown DEF PayloadLength, PeerState, HandlerState
  <1>5. handler[c].received = PayloadLength(c) /\ peer[c].header # NoHeader
    BY <1>1, <1>2, <1>4 DEF ConnectionOK, At, More
  <1>6. ConnectionOK(c)'
    BY <1>1, <1>2, <1>3, <1>5 DEF ConnectionOK, At
  <1>7. Occupies(c)' = Occupies(c)
    BY <1>2 DEF Occupies
  <1> QED BY <1>1, <1>2, <1>6, <1>7, OneConnection

LEMMA HandleStep ==
  ASSUME IInv, NEW c \in Connections, Handle(c)
  PROVE  IInv'
  <1> USE DEF At
  <1>0. ConnectionOK(c) /\ peer[c] \in PeerState
    BY DEF IInv
  <1>1. CASE Accept(c)
    BY <1>0, <1>1, GotoStep DEF Accept, Occupies, ConnectionOK
  <1>2. CASE CountConnection(c)
    BY <1>0, <1>2, GotoStep DEF CountConnection, Occupies, ConnectionOK
  <1>3. CASE ReadHeader(c)
    <2>1. peer[c].header \in Headers
      BY <1>0, <1>3 DEF ReadHeader, PeerState
    <2>2. NextFor(peer[c].header.type) \in {"transfer", "ping", "uncount", "failed"}
      BY <2>1, NextForTypes
    <2> QED BY <1>0, <1>3, <2>2, GotoStep DEF ReadHeader, Occupies, ConnectionOK
  <1>4. CASE HeaderFails(c)
    BY <1>4, FailStep DEF HeaderFails
  <1>5. CASE ReadPayload(c)
    BY <1>5, ReadPayloadStep
  <1>6. CASE StreamEnds(c)
    BY <1>6, FailStep DEF StreamEnds, Receiving, EndOfStream, Fail
  <1>7. CASE PayloadFails(c)
    BY <1>7, FailStep DEF PayloadFails, Receiving
  <1>8. CASE SendAck(c)
    BY <1>8, SendAckStep
  <1>9. CASE AckFails(c)
    BY <1>9, FailStep DEF AckFails
  <1>10. CASE HandlePing(c)
    BY <1>10, FailStep DEF HandlePing
  <1>11. CASE UncountConnection(c)
    BY <1>0, <1>11, GotoStep DEF UncountConnection, Occupies, ConnectionOK
  <1> QED
    BY <1>1, <1>2, <1>3, <1>4, <1>5, <1>6, <1>7, <1>8, <1>9, <1>10, <1>11 DEF Handle

-----------------------------------------------------------------------------
(* Peers *)

\* The peer of c changes its link, or sends more of its message.
LEMMA PeerMoves ==
  ASSUME IInv, NEW c \in Connections, NEW p \in PeerState,
         UNCHANGED <<active_connections, handler>>,
         peer' = [peer EXCEPT ![c] = p],
         p.header = peer[c].header \/ peer[c].header = NoHeader,
         p.header = peer[c].header => p.sent >= peer[c].sent,
         p.header # peer[c].header => p.sent = peer[c].sent,
         p.sent <= p.header.length, p.acked = peer[c].acked
  PROVE  IInv'
  <1>1. /\ handler[c] \in HandlerState /\ peer[c] \in PeerState /\ ConnectionOK(c)
        /\ handler \in [Connections -> HandlerState]
        /\ peer \in [Connections -> PeerState]
    BY DEF IInv
  <1>2. handler' = [handler EXCEPT ![c] = handler[c]] /\ handler' = handler
        /\ peer'[c] = p /\ active_connections' = active_connections
    BY <1>1
  <1>3. p.header = peer[c].header => PayloadLength(c)' = PayloadLength(c)
    BY <1>2 DEF PayloadLength
  <1>4. /\ handler[c].received \in Nat /\ p.sent \in Nat /\ peer[c].sent \in Nat
    BY <1>1, Constants DEF HandlerState, PeerState
  <1>5. ConnectionOK(c)'
    BY <1>1, <1>2, <1>3, <1>4 DEF ConnectionOK, At
  <1>6. Occupies(c)' = Occupies(c)
    BY <1>2 DEF Occupies
  <1> QED BY <1>1, <1>2, <1>5, <1>6, OneConnection

LEMMA PeerStep ==
  ASSUME IInv, NEW c \in Connections, Peer(c)
  PROVE  IInv'
  <1>1. /\ peer[c] \in PeerState /\ peer[c].sent \in Nat /\ peer[c].header.length \in 0..MaxLength
        /\ peer[c].sent <= peer[c].header.length
    BY Constants, HeaderLength DEF IInv, PeerState, ConnectionOK
  <1>2. ASSUME NEW link \in {"open", "closed", "reset"},
               UNCHANGED <<active_connections, handler>>,
               peer' = [peer EXCEPT ![c].link = link]
        PROVE  IInv'
    <2> DEFINE p == [peer[c] EXCEPT !.link = link]
    <2>1. /\ p \in PeerState /\ p.header = peer[c].header /\ p.sent = peer[c].sent
          /\ p.acked = peer[c].acked /\ peer' = [peer EXCEPT ![c] = p]
      BY <1>1, <1>2 DEF PeerState
    <2>2. p.sent >= peer[c].sent /\ p.sent <= p.header.length
      BY <1>1, <2>1
    <2> HIDE DEF p
    <2> QED BY <1>2, <2>1, <2>2, PeerMoves
  <1>3. CASE PeerSendsHeader(c)
    <2>1. PICK h \in Headers : peer' = [peer EXCEPT ![c].header = h]
      BY <1>3 DEF PeerSendsHeader
    <2>2. peer[c].header = NoHeader /\ peer[c].sent = 0 /\ h.length >= 0
      BY <1>1, <1>3, HeaderLength DEF PeerSendsHeader, NoHeader
    <2> DEFINE p == [peer[c] EXCEPT !.header = h]
    <2>3. /\ p \in PeerState /\ p.header = h /\ p.sent = 0 /\ p.acked = peer[c].acked
          /\ peer' = [peer EXCEPT ![c] = p] /\ UNCHANGED <<active_connections, handler>>
      BY <1>1, <1>3, <2>1, <2>2 DEF PeerState, PeerSendsHeader
    <2>4. /\ p.header = peer[c].header \/ peer[c].header = NoHeader
          /\ p.header = peer[c].header => p.sent >= peer[c].sent
          /\ p.header # peer[c].header => p.sent = peer[c].sent
          /\ p.sent <= p.header.length
      BY <2>2, <2>3
    <2> HIDE DEF p
    <2> QED BY <2>3, <2>4, PeerMoves
  <1>4. CASE PeerSendsPayload(c)
    <2>1. PICK n \in (peer[c].sent + 1)..peer[c].header.length :
            peer' = [peer EXCEPT ![c].sent = n]
      BY <1>4 DEF PeerSendsPayload
    <2>2. n \in 0..MaxLength /\ n >= peer[c].sent /\ n <= peer[c].header.length
      BY <1>1, Constants
    <2> DEFINE p == [peer[c] EXCEPT !.sent = n]
    <2>3. /\ p \in PeerState /\ p.header = peer[c].header /\ p.sent = n
          /\ p.acked = peer[c].acked
          /\ peer' = [peer EXCEPT ![c] = p] /\ UNCHANGED <<active_connections, handler>>
      BY <1>1, <1>4, <2>1, <2>2 DEF PeerState, PeerSendsPayload
    <2>4. /\ p.header = peer[c].header \/ peer[c].header = NoHeader
          /\ p.header = peer[c].header => p.sent >= peer[c].sent
          /\ p.header # peer[c].header => p.sent = peer[c].sent
          /\ p.sent <= p.header.length
      BY <2>2, <2>3
    <2> HIDE DEF p
    <2> QED BY <2>3, <2>4, PeerMoves
  <1> QED
    BY <1>2, <1>3, <1>4 DEF Peer, Connect, ClientPanics, PeerLeaves

LEMMA NextIInv == IInv /\ [Next]_vars => IInv'
  <1> SUFFICES ASSUME IInv, [Next]_vars PROVE IInv'
    OBVIOUS
  <1>1. CASE Next
    BY <1>1, HandleStep, PeerStep DEF Next
  <1>2. CASE UNCHANGED vars
    BY <1>2
       DEF vars, IInv, ConnectionOK, At, PayloadLength, CountIsAccounted, Counted
  <1> QED BY <1>1, <1>2

-----------------------------------------------------------------------------
(* TypeOK: no handler is ever in a state the code has no branch for. *)
THEOREM TypeCorrect == Spec => []TypeOK
  <1>1. Init => IInv
    BY InitIInv
  <1>2. IInv /\ [Next]_vars => IInv'
    BY NextIInv
  <1>3. IInv => TypeOK
    <2> SUFFICES ASSUME IInv PROVE TypeOK
      OBVIOUS
    <2>1. Occupying \in SUBSET Connections
      BY DEF Occupying
    <2>2. IsFiniteSet(Occupying)
      BY <2>1, Constants, FS_Subset
    <2>3. active_connections \in Nat
      BY <2>2, CountedAre, FS_CardinalityType DEF IInv
    <2> QED BY <2>3 DEF IInv, TypeOK
  <1> QED BY <1>1, <1>2, <1>3, PTL DEF Spec

(* CountIsAccounted: what get_stats shows is the connections that are handled
   and those whose handling has failed. *)
THEOREM CountIsKept == Spec => []CountIsAccounted
  <1>1. Init => IInv
    BY InitIInv
  <1>2. IInv /\ [Next]_vars => IInv'
    BY NextIInv
  <1>3. IInv => CountIsAccounted
    BY DEF IInv
  <1> QED BY <1>1, <1>2, <1>3, PTL DEF Spec

(* AckedIsRead: a tensor is acknowledged only when all of it was read but less
   than one unit. *)
THEOREM AcksAreEarned == Spec => []AckedIsRead
  <1>1. Init => IInv
    BY InitIInv
  <1>2. IInv /\ [Next]_vars => IInv'
    BY NextIInv
  <1>3. IInv => AckedIsRead
    <2> SUFFICES ASSUME IInv, NEW c \in Connections, peer[c].acked
                 PROVE  /\ handler[c].received = PayloadLength(c)
                        /\ peer[c].header.length - handler[c].received < LengthUnit
      BY DEF AckedIsRead
    <2>1. handler[c].received = PayloadLength(c)
      BY DEF IInv, ConnectionOK
    <2>2. peer[c].header.length \in Nat
      BY Constants, HeaderLength DEF IInv, PeerState
    <2> QED BY <2>1, <2>2, RoundedDown DEF PayloadLength
  <1> QED BY <1>1, <1>2, <1>3, PTL DEF Spec

-----------------------------------------------------------------------------
(* What HandlersEnd rests on, but for the fairness: a handler with nothing  *)
(* to wait for has a step, nothing takes that from it, and every step of it *)
(* leaves less to do.                                                       *)

\* A step of the handler can be taken: the guards of Handle.
Ready(c) ==
  \/ At(c, "off") /\ peer[c].link # "none"
  \/ handler[c].pc \in {"spawned", "ping", "uncount"}
  \/ At(c, "header") /\ (peer[c].link \in {"closed", "reset"} \/ peer[c].header # NoHeader)
  \/ Receiving(c) /\ (\/ peer[c].link \in {"closed", "reset"}
                      \/ handler[c].received < peer[c].sent)
  \/ At(c, "transfer") /\ ~Receiving(c)

WaitsForNothing == \A c \in Connections : NothingToCome(c) => Ended(c) \/ Ready(c)

\* How many steps a handler can take at most.
Work(c) ==
  CASE At(c, "off") -> MaxLength + 5
    [] At(c, "spawned") -> MaxLength + 4
    [] At(c, "header") -> MaxLength + 3
    [] At(c, "transfer") -> MaxLength - handler[c].received + 2
    [] handler[c].pc \in {"ping", "uncount"} -> 1
    [] OTHER -> 0

WorkGetsLess ==
  \A c \in Connections :
    /\ Handle(c) => Work(c)' < Work(c)
    /\ Work(c)' \in Nat /\ Work(c)' <= Work(c)
    /\ NothingToCome(c) => NothingToCome(c)'

\* Only a connection that is made has a message on it, or a handler.
Unconnected ==
  \A c \in Connections :
    peer[c].link = "none" => At(c, "off") /\ peer[c].header = NoHeader

LEMMA InitUnconnected == Init => Unconnected
  BY DEF Init, Unconnected, At

LEMMA NextUnconnected ==
  ASSUME IInv, Unconnected, [Next]_vars
  PROVE  Unconnected'
  <1> USE DEF Unconnected, At
  <1>0. handler \in [Connections -> HandlerState] /\ peer \in [Connections -> PeerState]
    BY DEF IInv
  <1>1. ASSUME NEW c \in Connections, Handle(c)
        PROVE  Unconnected'
    <2>1. peer[c].link # "none"
      BY <1>1 DEF Handle, Accept, CountConnection, ReadHeader, HeaderFails, ReadPayload,
                  Receiving, StreamEnds, PayloadFails, SendAck, AckFails, HandlePing,
                  UncountConnection
    <2>2. \A d \in Connections : d # c => handler'[d] = handler[d]
      BY <1>0, <1>1
         DEF Handle, Accept, CountConnection, ReadHeader, HeaderFails, ReadPayload, StreamEnds,
             PayloadFails, SendAck, AckFails, HandlePing, UncountConnection, Goto, Fail
    <2>3. \A d \in Connections :
            peer'[d].link = peer[d].link /\ peer'[d].header = peer[d].header
      <3>1. CASE SendAck(c)
        BY <1>0, <3>1 DEF SendAck, PeerState
      <3>2. CASE peer' = peer
        BY <3>2
      <3> QED
        BY <1>1, <3>1, <3>2
           DEF Handle, Accept, CountConnection, ReadHeader, HeaderFails, ReadPayload, StreamEnds,
               PayloadFails, AckFails, HandlePing, UncountConnection, Fail
    <2> QED BY <2>1, <2>2, <2>3
  <1>2. ASSUME NEW c \in Connections, Peer(c)
        PROVE  Unconnected'
    <2>1. handler' = handler /\ peer'[c].link # "none"
      BY <1>0, <1>2
         DEF Peer, Connect, ClientPanics, PeerSendsHeader, PeerSendsPayload, PeerLeaves, Sends,
             PeerState
    <2>2. \A d \in Connections : d # c => peer'[d] = peer[d]
      BY <1>0, <1>2
         DEF Peer, Connect, ClientPanics, PeerSendsHeader, PeerSendsPayload, PeerLeaves
    <2> QED BY <2>1, <2>2
  <1>3. CASE UNCHANGED vars
    BY <1>3 DEF vars
  <1> QED BY <1>1, <1>2, <1>3 DEF Next

LEMMA ReadyUnlessWaiting ==
  ASSUME IInv, Unconnected
  PROVE  WaitsForNothing
  <1> SUFFICES ASSUME NEW c \in Connections, NothingToCome(c), ~Ended(c)
               PROVE  Ready(c)
    BY DEF WaitsForNothing
  <1>1. handler[c] \in HandlerState /\ peer[c] \in PeerState /\ ConnectionOK(c)
    BY DEF IInv
  <1>2. peer[c].link # "none"
    BY <1>1 DEF NothingToCome, Unconnected
  <1>3. CASE Receiving(c) /\ peer[c].link = "open"
    <2>1. peer[c].sent = peer[c].header.length
      BY <1>3 DEF NothingToCome
    <2>2. peer[c].header.length \in Nat
      BY <1>1, Constants, HeaderLength DEF PeerState
    <2>3. PayloadLength(c) \in Nat /\ PayloadLength(c) <= peer[c].sent
      BY <2>1, <2>2, RoundedDown DEF PayloadLength
    <2>4. handler[c].received < peer[c].sent
      BY <1>1, <1>3, <2>1, <2>2, <2>3 DEF Receiving, More, HandlerState
    <2> QED BY <1>3, <2>4 DEF Ready
  <1>4. CASE Receiving(c) /\ peer[c].link # "open"
    BY <1>1, <1>2, <1>4 DEF Ready, PeerState
  <1>5. CASE ~Receiving(c)
    BY <1>1, <1>2, <1>5 DEF Ready, NothingToCome, Ended, At, HandlerState
  <1> QED BY <1>3, <1>4, <1>5

\* A step of a handler is a step of it alone, and down.
LEMMA HandleIsWork ==
  ASSUME IInv, NEW c \in Connections, Handle(c)
  PROVE  /\ Work(c)' < Work(c)
         /\ \A d \in Connections : d # c => handler'[d] = handler[d]
         /\ peer'[c].link = peer[c].link /\ peer'[c].header = peer[c].header
         /\ peer'[c].sent = peer[c].sent
         /\ \A d \in Connections : d # c => peer'[d] = peer[d]
  <1> USE DEF At
  <1>0. /\ handler \in [Connections -> HandlerState] /\ peer \in [Connections -> PeerState]
        /\ handler[c] \in HandlerState /\ peer[c] \in PeerState
        /\ MaxLength \in Nat /\ handler[c].received \in 0..MaxLength
        /\ ConnectionOK(c)
    BY Constants DEF IInv, HandlerState
  <1>1. ASSUME NEW x \in {"spawned", "header", "transfer", "ping", "uncount", "done", "failed"},
               Goto(c, x)
        PROVE  /\ handler'[c].pc = x /\ handler'[c].received = handler[c].received
               /\ \A d \in Connections : d # c => handler'[d] = handler[d]
    BY <1>0, <1>1 DEF Goto, HandlerState
  <1>2. CASE Accept(c)
    BY <1>0, <1>1, <1>2 DEF Accept, Work
  <1>3. CASE CountConnection(c)
    BY <1>0, <1>1, <1>3 DEF CountConnection, Work
  <1>4. CASE ReadHeader(c)
    <2>1. NextFor(peer[c].header.type) \in {"transfer", "ping", "uncount", "failed"}
      BY <1>0, <1>4, NextForTypes DEF ReadHeader, PeerState
    <2> QED BY <1>0, <1>1, <1>4, <2>1 DEF ReadHeader, Work, ConnectionOK
  <1>5. CASE HeaderFails(c)
    BY <1>0, <1>1, <1>5 DEF HeaderFails, Fail, Work
  <1>6. CASE ReadPayload(c)
    <2>1. PICK n \in 1..Min({BufferSize, PayloadLength(c) - handler[c].received,
                             peer[c].sent - handler[c].received}) :
            handler' = [handler EXCEPT ![c].received = @ + n]
      BY <1>6, Zenon DEF ReadPayload
    <2>2. /\ peer[c].sent \in Nat /\ peer[c].sent <= peer[c].header.length
          /\ peer[c].header.length \in 0..MaxLength
      BY <1>0, Constants, HeaderLength DEF PeerState, ConnectionOK
    <2>3. PayloadLength(c) \in Nat
      BY <2>2, RoundedDown DEF PayloadLength
    <2>4. /\ BufferSize \in Int /\ PayloadLength(c) - handler[c].received \in Int
          /\ peer[c].sent - handler[c].received \in Int
      BY <1>0, <2>2, <2>3, Constants
    <2>5. n \in Nat /\ n >= 1 /\ n <= peer[c].sent - handler[c].received
      BY <2>4, LeastOfThree
    <2>6. /\ handler'[c].received = handler[c].received + n
          /\ handler'[c].pc = handler[c].pc /\ handler[c].pc = "transfer"
          /\ peer' = peer
          /\ \A d \in Connections : d # c => handler'[d] = handler[d]
      BY <1>0, <1>6, <2>1 DEF ReadPayload, Receiving, HandlerState
    <2> QED BY <1>0, <2>2, <2>5, <2>6 DEF Work
  <1>7. CASE StreamEnds(c)
    BY <1>0, <1>1, <1>7 DEF StreamEnds, EndOfStream, Receiving, Work
  <1>8. CASE PayloadFails(c)
    BY <1>0, <1>1, <1>8 DEF PayloadFails, Fail, Receiving, Work
  <1>9. CASE SendAck(c)
    <2>1. Work(c)' < Work(c)
      BY <1>0, <1>1, <1>9 DEF SendAck, Work
    <2>2. \A d \in Connections : d # c => handler'[d] = handler[d]
      BY <1>1, <1>9 DEF SendAck
    <2> QED BY <1>0, <1>9, <2>1, <2>2 DEF SendAck, PeerState
  <1>10. CASE AckFails(c)
    BY <1>0, <1>1, <1>10 DEF AckFails, Fail, Work
  <1>11. CASE HandlePing(c)
    BY <1>0, <1>1, <1>11 DEF HandlePing, Fail, Work
  <1>12. CASE UncountConnection(c)
    BY <1>0, <1>1, <1>12 DEF UncountConnection, Work
  <1> QED
    BY <1>2, <1>3, <1>4, <1>5, <1>6, <1>7, <1>8, <1>9, <1>10, <1>11, <1>12 DEF Handle

\* A peer takes back nothing of what it has sent, and adds nothing to all.
LEMMA PeerIsNoWork ==
  ASSUME IInv, NEW c \in Connections, Peer(c)
  PROVE  /\ handler' = handler
         /\ \A d \in Connections : d # c => peer'[d] = peer[d]
         /\ NothingToCome(c) => NothingToCome(c)'
  <1>0. peer \in [Connections -> PeerState] /\ peer[c] \in PeerState
    BY DEF IInv
  <1>1. peer[c].sent \in Nat /\ peer[c].header.length \in Nat
    BY <1>0, Constants, HeaderLength DEF PeerState
  <1>2. CASE Connect(c) \/ ClientPanics(c) \/ PeerLeaves(c)
    BY <1>0, <1>2 DEF Connect, ClientPanics, PeerLeaves, NothingToCome, PeerState
  <1>3. CASE PeerSendsHeader(c)
    BY <1>0, <1>3 DEF PeerSendsHeader, Sends, NothingToCome, PeerState
  <1>4. CASE PeerSendsPayload(c)
    BY <1>0, <1>1, <1>4 DEF PeerSendsPayload, Sends, NothingToCome, PeerState
  <1> QED BY <1>2, <1>3, <1>4 DEF Peer

LEMMA StepsAreWork ==
  ASSUME IInv, [Next]_vars
  PROVE  WorkGetsLess
  <1>0. /\ MaxLength \in Nat
        /\ \A c \in Connections : Work(c) \in Nat
    BY Constants DEF IInv, Work, At, HandlerState
  <1>1. \A c \in Connections : Work(c)' \in Nat
    <2>1. IInv'
      BY NextIInv
    <2> QED BY <2>1, Constants DEF IInv, Work, At, HandlerState
  <1>2. ASSUME NEW c \in Connections, handler'[c] = handler[c]
        PROVE  Work(c)' = Work(c)
    BY <1>2 DEF Work, At
  <1>3. ASSUME NEW c \in Connections, peer'[c] = peer[c]
        PROVE  NothingToCome(c) => NothingToCome(c)'
    BY <1>3 DEF NothingToCome
  <1> SUFFICES ASSUME NEW c \in Connections
               PROVE  /\ Handle(c) => Work(c)' < Work(c)
                      /\ Work(c)' <= Work(c)
                      /\ NothingToCome(c) => NothingToCome(c)'
    BY <1>1 DEF WorkGetsLess
  <1>4. CASE Handle(c)
    BY <1>0, <1>1, <1>4, HandleIsWork DEF NothingToCome
  <1>5. ASSUME NEW d \in Connections, d # c, Handle(d) \/ Peer(d), ~Handle(c)
        PROVE  /\ Work(c)' <= Work(c)
               /\ NothingToCome(c) => NothingToCome(c)'
    BY <1>0, <1>2, <1>3, <1>5, HandleIsWork, PeerIsNoWork
  <1>6. CASE Peer(c) /\ ~Handle(c)
    BY <1>0, <1>2, <1>6, PeerIsNoWork
  <1>7. CASE UNCHANGED vars /\ ~Handle(c)
    BY <1>0, <1>2, <1>3, <1>7 DEF vars
  <1> QED BY <1>4, <1>5, <1>6, <1>7 DEF Next

(* WaitsForNothing: a handler is held up only by a connection that is open and
   has not brought its whole message: whenever there is nothing more to come, a
   handler that has not ended has a step to take. *)
THEOREM HandlersAreReady == Spec => []WaitsForNothing
  <1>1. Init => IInv /\ Unconnected
    BY InitIInv, InitUnconnected
  <1>2. IInv /\ Unconnected /\ [Next]_vars => (IInv /\ Unconnected)'
    BY NextIInv, NextUnconnected
  <1>3. IInv /\ Unconnected => WaitsForNothing
    BY ReadyUnlessWaiting
  <1> QED BY <1>1, <1>2, <1>3, PTL DEF Spec

(* WorkGetsLess: every step of a handler leaves fewer for it, whatever peers
   and other handlers do in between, and nothing more to come stays that way:
   there is no loop in which a handler could go round for ever. *)
THEOREM HandlersWearOut == Spec => [][WorkGetsLess]_vars
  <1>1. Init => IInv
    BY InitIInv
  <1>2. IInv /\ [Next]_vars => IInv'
    BY NextIInv
  <1>3. IInv /\ [Next]_vars => WorkGetsLess
    BY StepsAreWork
  <1> QED BY <1>1, <1>2, <1>3, PTL DEF Spec

-----------------------------------------------------------------------------
(* What becomes of a TcpClient and of a ping *)

GetsNowhere(c) ==
  /\ peer[c].header = NoHeader /\ ~peer[c].acked
  /\ handler[c].pc \in {"off", "spawned", "header", "failed"}

PingsFail ==
  \A c \in Connections : At(c, "ping") => handler'[c].pc \in {"ping", "failed"}

LEMMA ClientStep ==
  ASSUME IInv, NEW c \in Clients, GetsNowhere(c), NEW d \in Connections,
         Handle(d) \/ Peer(d)
  PROVE  GetsNowhere(c)'
  <1>0. /\ c \in Connections
        /\ handler \in [Connections -> HandlerState]
        /\ peer \in [Connections -> PeerState]
    BY Constants DEF IInv
  <1>1. CASE d # c
    <2>1. handler'[c] = handler[c] /\ peer'[c] = peer[c]
      BY <1>0, <1>1 DEF Handle, Peer, Accept, CountConnection, ReadHeader,
         HeaderFails, ReadPayload, StreamEnds, PayloadFails, SendAck, AckFails,
         HandlePing, UncountConnection, Fail, Goto, Connect, ClientPanics,
         PeerSendsHeader, PeerSendsPayload, PeerLeaves
    <2> QED BY <2>1 DEF GetsNowhere
  <1>2. CASE d = c /\ Handle(c)
    <2>1. Accept(c) \/ CountConnection(c) \/ HeaderFails(c)
      BY <1>2 DEF Handle, GetsNowhere, At, ReadHeader, ReadPayload, StreamEnds,
         PayloadFails, SendAck, AckFails, HandlePing, UncountConnection, Receiving
    <2>2. handler'[c].pc \in {"spawned", "header", "failed"} /\ peer' = peer
      BY <1>0, <2>1 DEF Accept, CountConnection, HeaderFails, Fail, Goto, HandlerState
    <2> QED BY <2>2 DEF GetsNowhere
  <1>3. CASE d = c /\ Peer(c)
    <2>1. Connect(c) \/ ClientPanics(c)
      BY <1>3 DEF Peer, PeerSendsHeader, PeerSendsPayload, PeerLeaves, Sends
    <2>2. /\ handler' = handler
          /\ peer'[c].header = peer[c].header /\ peer'[c].acked = peer[c].acked
      BY <1>0, <2>1 DEF Connect, ClientPanics, PeerState
    <2> QED BY <2>2 DEF GetsNowhere
  <1> QED BY <1>1, <1>2, <1>3

(* What the panic of write_header comes to, for good ("Send pong response" says
   its caller): a connection of a TcpClient never brings a header, is
   never acknowledged and never gives its place in the count back, since the
   only way out of its handler is to fail; and a ping from any peer ends in
   the failure of its handler. *)
THEOREM ClientsGetNowhere ==
  Spec => /\ [](\A c \in Clients : GetsNowhere(c))
          /\ [][PingsFail]_vars
  <1>1. Init => IInv
    BY InitIInv
  <1>2. IInv /\ [Next]_vars => IInv'
    BY NextIInv
  <1>3. Init => \A c \in Clients : GetsNowhere(c)
    BY Constants DEF Init, GetsNowhere
  <1>4. IInv /\ (\A c \in Clients : GetsNowhere(c)) /\ [Next]_vars
          => (\A c \in Clients : GetsNowhere(c))'
    <2> SUFFICES ASSUME IInv, [Next]_vars, NEW c \in Clients, GetsNowhere(c)
                 PROVE  GetsNowhere(c)'
      OBVIOUS
    <2>1. CASE UNCHANGED vars
      BY <2>1 DEF vars, GetsNowhere
    <2> QED BY <2>1, ClientStep DEF Next
  <1>5. IInv /\ [Next]_vars => [PingsFail]_vars
    <2> SUFFICES ASSUME IInv, NEW d \in Connections, Handle(d) \/ Peer(d),
                        NEW c \in Connections, At(c, "ping")
                 PROVE  handler'[c].pc \in {"ping", "failed"}
      BY DEF Next, PingsFail
    <2>0. handler \in [Connections -> HandlerState]
      BY DEF IInv
    <2>1. CASE d = c /\ Handle(c)
      <3>1. HandlePing(c)
        BY <2>1 DEF Handle, At, Accept, CountConnection, ReadHeader, HeaderFails,
           ReadPayload, StreamEnds, PayloadFails, SendAck, AckFails,
           UncountConnection, Receiving
      <3> QED BY <2>0, <3>1 DEF HandlePing, Fail, Goto, HandlerState
    <2>2. CASE d # c /\ Handle(d)
      <3>1. handler'[c] = handler[c]
        BY <2>0, <2>2 DEF Handle, Accept, CountConnection, ReadHeader, HeaderFails,
           ReadPayload, StreamEnds, PayloadFails, SendAck, AckFails, HandlePing,
           UncountConnection, Fail, Goto
      <3> QED BY <3>1 DEF At
    <2>3. CASE Peer(d)
      <3>1. handler' = handler
        BY <2>3 DEF Peer, Connect, ClientPanics, PeerSendsHeader,
           PeerSendsPayload, PeerLeaves
      <3> QED BY <3>1 DEF At
    <2> QED BY <2>1, <2>2, <2>3
  <1> QED BY <1>1, <1>2, <1>3, <1>4, <1>5, PTL DEF Spec
=============================================================================
