---------------------------- MODULE TcpTransport ----------------------------
(***************************************************************************)
(* The TCP transport (transports/tcp): a server with a task for each       *)
(* connection and a shared count of them, and the client that sends        *)
(* tensors and pings to it.                                                *)
(*                                                                         *)
(* A handler has the lock of the count for one step, so that requests for  *)
(* it do not queue up; it awaits the stream everywhere else, with no time  *)
(* limit, and streams may be closed or reset at any moment.  Peers are     *)
(* TcpClients of this crate and other programs that speak its format.      *)
(* Of a payload only how much of it has arrived is kept.                   *)
(***************************************************************************)
EXTENDS Integers, FiniteSets, FiniteSetsExt

CONSTANTS
  Connections,  \* connections that are made to the server
  Clients,      \* those that TcpClient::connect makes
  LengthUnit,   \* 256 in the code: the lowest length byte is not sent
  BufferSize,   \* config.buffer_size
  MaxLength     \* bound on the length of a tensor

ASSUME TcpAssumption ==
  /\ IsFiniteSet(Connections) /\ Clients \subseteq Connections
  /\ LengthUnit \in Nat \ {0} /\ BufferSize \in Nat \ {0}
  /\ MaxLength \in Nat

VARIABLES
  active_connections,  \* the count, which get_stats returns
  handler,             \* handle_connection of each connection
  peer                 \* the other end, and what of its stream is there

vars == <<active_connections, handler, peer>>

-----------------------------------------------------------------------------
(* Messages *)

MessageTypes == {"TensorTransfer", "Ping", "Ack"}

\* A header as its sender means it; "unknown" is a byte that is no type.
Headers ==
  [type : {"TensorTransfer"}, length : 0..MaxLength]
    \cup [type : {"Ping", "Ack", "unknown"}, length : {0}]
NoHeader == [type |-> "none", length |-> 0]

\* payload_length as read_header puts it together: seven bytes of eight, the
\* lowest one is zero.
PayloadLength(c) == (peer[c].header.length \div LengthUnit) * LengthUnit

Init ==
  /\ active_connections = 0
  /\ handler = [c \in Connections |-> [pc |-> "off", received |-> 0]]
  /\ peer = [c \in Connections |->
               [link |-> "none", header |-> NoHeader, sent |-> 0,
                acked |-> FALSE]]

-----------------------------------------------------------------------------
(* Server *)

At(c, pc) == handler[c].pc = pc
Goto(c, pc) == handler' = [handler EXCEPT ![c].pc = pc]

Ended(c) == handler[c].pc \in {"done", "failed"}
Counted(c) == handler[c].pc \in {"header", "transfer", "ping", "uncount"}

\* accept, and the spawned task.
Accept(c) ==
  /\ At(c, "off") /\ peer[c].link # "none"
  /\ Goto(c, "spawned")
  /\ UNCHANGED <<active_connections, peer>>

CountConnection(c) ==
  /\ At(c, "spawned")
  /\ active_connections' = active_connections + 1
  /\ Goto(c, "header")
  /\ UNCHANGED peer

\* An error that `?' passes on, or a panic: the task ends where it is, and
\* the connection stays counted.
Fail(c) == Goto(c, "failed") /\ UNCHANGED <<active_connections, peer>>

\* What a header of each type leads to; from_u8 rejects unknown types (a bug:
\* it lets them through, to no handler).
NextForAny(type) ==
  CASE type = "TensorTransfer" -> "transfer"
    [] type = "Ping" -> "ping"
    [] type = "Ack" -> "uncount"
    [] OTHER -> "unhandled"
NextFor(type) ==
  CASE type = "TensorTransfer" -> "transfer"
    [] type = "Ping" -> "ping"
    [] type = "Ack" -> "uncount"
    [] OTHER -> "failed"

\* What has arrived can be read although the peer has closed its end since.
ReadHeader(c) ==
  /\ At(c, "header") /\ peer[c].link # "reset" /\ peer[c].header # NoHeader
  /\ Goto(c, NextFor(peer[c].header.type))
  /\ UNCHANGED <<active_connections, peer>>

HeaderFails(c) ==
  /\ At(c, "header")
  /\ \/ peer[c].link = "reset"
     \/ peer[c].link = "closed" /\ peer[c].header = NoHeader
  /\ Fail(c)

\* The loop goes on (a bug: the end of the stream ends it too).
MoreUntilClosed(c) ==
  /\ handler[c].received < PayloadLength(c)
  /\ peer[c].link = "closed" => handler[c].received < peer[c].sent
More(c) == handler[c].received < PayloadLength(c)

Receiving(c) == At(c, "transfer") /\ More(c)

\* A read returns some of what is there, as much as the buffer takes at most.
ReadPayload(c) ==
  LET remaining == PayloadLength(c) - handler[c].received
      there == peer[c].sent - handler[c].received
  IN /\ Receiving(c) /\ peer[c].link # "reset"
     /\ \E n \in 1..Min({BufferSize, remaining, there}) :
          handler' = [handler EXCEPT ![c].received = @ + n]
     /\ UNCHANGED <<active_connections, peer>>

\* A read of 0 bytes: ConnectionClosed (a bug: the loop reads on).
EndUnnoticed == "transfer"
EndOfStream == "failed"

StreamEnds(c) ==
  /\ Receiving(c) /\ peer[c].link = "closed"
  /\ peer[c].sent = handler[c].received
  /\ Goto(c, EndOfStream)
  /\ UNCHANGED <<active_connections, peer>>

PayloadFails(c) == Receiving(c) /\ peer[c].link = "reset" /\ Fail(c)

\* The loop is over; the stream is dropped with whatever was not read of it.
SendAck(c) ==
  /\ At(c, "transfer") /\ ~Receiving(c) /\ peer[c].link # "reset"
  /\ Goto(c, "uncount")
  /\ peer' = [peer EXCEPT ![c].acked = TRUE]
  /\ UNCHANGED active_connections

AckFails(c) ==
  /\ At(c, "transfer") /\ ~Receiving(c) /\ peer[c].link # "open"
  /\ Fail(c)

\* handle_ping: write_header copies the length into bytes 17 to 24 of a
\* buffer that ends at 23, which panics.
HandlePing(c) == At(c, "ping") /\ Fail(c)

\* saturating_sub (a bug: nothing is subtracted).
NotSubtracted(count) == count
OneLess(count) == IF count = 0 THEN 0 ELSE count - 1

UncountConnection(c) ==
  /\ At(c, "uncount")
  /\ active_connections' = OneLess(active_connections)
  /\ Goto(c, "done")
  /\ UNCHANGED peer

Handle(c) ==
  \/ Accept(c) \/ CountConnection(c) \/ ReadHeader(c) \/ HeaderFails(c)
  \/ ReadPayload(c) \/ StreamEnds(c) \/ PayloadFails(c)
  \/ SendAck(c) \/ AckFails(c) \/ HandlePing(c) \/ UncountConnection(c)

-----------------------------------------------------------------------------
(* Peers *)

Connect(c) ==
  /\ peer[c].link = "none"
  /\ peer' = [peer EXCEPT ![c].link = "open"]
  /\ UNCHANGED <<active_connections, handler>>

\* send_tensor and ping begin with write_header, which panics before anything
\* is written; the client is dropped, and its stream with it.
ClientPanics(c) ==
  /\ c \in Clients /\ peer[c].link = "open"
  /\ peer' = [peer EXCEPT ![c].link = "closed"]
  /\ UNCHANGED <<active_connections, handler>>

Sends(c) == c \notin Clients /\ peer[c].link = "open" /\ ~Ended(c)

PeerSendsHeader(c) ==
  /\ Sends(c) /\ peer[c].header = NoHeader
  /\ \E h \in Headers : peer' = [peer EXCEPT ![c].header = h]
  /\ UNCHANGED <<active_connections, handler>>

PeerSendsPayload(c) ==
  /\ Sends(c)
  /\ \E n \in (peer[c].sent + 1)..peer[c].header.length :
       peer' = [peer EXCEPT ![c].sent = n]
  /\ UNCHANGED <<active_connections, handler>>

\* The peer closes its end, or the connection breaks.
PeerLeaves(c) ==
  /\ Sends(c)
  /\ \E link \in {"closed", "reset"} : peer' = [peer EXCEPT ![c].link = link]
  /\ UNCHANGED <<active_connections, handler>>

Peer(c) ==
  \/ Connect(c) \/ ClientPanics(c)
  \/ PeerSendsHeader(c) \/ PeerSendsPayload(c) \/ PeerLeaves(c)

Next == \E c \in Connections : Handle(c) \/ Peer(c)

\* The runtime polls the handlers; no peer has to do anything.
Spec == Init /\ [][Next]_vars /\ \A c \in Connections : WF_vars(Handle(c))

-----------------------------------------------------------------------------
(* Properties *)

HandlerState ==
  [pc : {"off", "spawned", "header", "transfer", "ping", "uncount", "done",
         "failed"},
   received : 0..MaxLength]

PeerState ==
  [link : {"none", "open", "closed", "reset"}, header : Headers \cup {NoHeader},
   sent : 0..MaxLength, acked : BOOLEAN]

TypeOK ==
  /\ active_connections \in Nat
  /\ handler \in [Connections -> HandlerState]
  /\ peer \in [Connections -> PeerState]

\* What get_stats shows is the connections that are being handled and every
\* one whose handling has ever failed: a connection that ends well gives its
\* place back exactly once, the subtraction is never cut off at zero, and only
\* errors and panics leave something behind.
CountIsAccounted ==
  active_connections =
    Cardinality({c \in Connections : Counted(c) \/ At(c, "failed")})

\* A peer has its acknowledgment only for a tensor of which everything was
\* read that its header could announce, which is all but less than one unit
\* of what it meant to send.
AckedIsRead ==
  \A c \in Connections :
    peer[c].acked =>
      /\ handler[c].received = PayloadLength(c)
      /\ peer[c].header.length - handler[c].received < LengthUnit

\* The peer has gone, or it has sent all there is of its message.
NothingToCome(c) ==
  \/ peer[c].link \in {"closed", "reset"}
  \/ peer[c].header # NoHeader /\ peer[c].sent = peer[c].header.length

\* A handler ends once there is nothing more to wait for: it is only an open
\* connection with a part of a message on it that can hold it up, and that for
\* ever, because the configured time limit is not used.
HandlersEnd ==
  \A c \in Connections : NothingToCome(c) ~> Ended(c)

=============================================================================
