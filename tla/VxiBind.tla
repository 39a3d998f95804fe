------------------------------ MODULE VxiBind ------------------------------
(***************************************************************************)
(* How a VXI-11 client finds the instrument: RPC_Bind_Server, which tells  *)
(* it the port by UDP or TCP on port 111, and the listening side of        *)
(* VXI_Server, which serves one client at a time and may move to the next  *)
(* port of a range after each.  Both are run by loop() in main.cpp; what   *)
(* is said over a link is VxiServer's.                                     *)
(*                                                                         *)
(* A client asks for the port, connects to it, and finally destroys its    *)
(* link; when it gets no answer, or is refused, it starts again.           *)
(***************************************************************************)
EXTENDS CyclicPort, Sequences

CONSTANTS
  UdpClients, TcpClients,      \* clients that ask by UDP, by TCP
  NoClient,                    \* VXI_Server::client when there is none
  VXI_PORT_START, VXI_PORT_END,
  MaxMishaps,                  \* bound: things that go wrong with a client
  UPLOADS                      \* whether a firmware upload may begin and fail

Clients == UdpClients \cup TcpClients

ASSUME VxiBindAssumption ==
  /\ UdpClients \cap TcpClients = {}
  /\ NoClient \notin Clients
  /\ VXI_PORT_START \in Nat \ {0}
  /\ VXI_PORT_END \in Nat \ {0}
  /\ MaxMishaps \in Nat
  /\ UPLOADS \in BOOLEAN

VARIABLES
  vxi_port,     \* VXI_Server::vxi_port
  listening,    \* the port tcp_server listens on
  client,       \* VXI_Server::client
  backlog,      \* connections to the VXI server that are not yet accepted
  udp_alive,    \* whether RPC_Bind_Server::udp still receives
  udp_packets,  \* bind requests received by udp and not yet read
  tcp_waiting,  \* clients connected to RPC_Bind_Server::tcp
  udp_request,  \* the request in udp_read_buffer
  tcp_request,  \* the request in tcp_read_buffer
  turn,         \* the part of loop() that is next
  at,           \* where each client is
  request,      \* the bind request each client has made last
  told,         \* the answer to it, when the client has got it
  fresh,        \* clients told the port since it last changed (history)
  mishaps       \* how many things have gone wrong

serverVars == <<vxi_port, listening, client, backlog>>
bindVars == <<udp_alive, udp_packets, tcp_waiting, udp_request, tcp_request>>
clientVars == <<at, request, told, fresh, mishaps>>
vars == <<serverVars, bindVars, clientVars, turn>>

Calls == {"get_port", "other_procedure", "other_program"}
Statuses == {"success", "prog_unavail", "proc_unavail", "garbage_args"}
Places == {"idle", "asked", "told", "open", "leaving", "half_closed", "vanished", "done"}

\* A zeroed buffer: its program is not PORTMAP.
NoRequest == [from |-> NoClient, xid |-> 0, call |-> "other_program"]
NotTold == [status |-> "none", port |-> 0, late |-> FALSE]

\* RPC_Bind_Server::begin and VXI_Server::begin.
Init ==
  /\ vxi_port = Cyclic(VXI_PORT_START, VXI_PORT_END, 0)
  /\ listening = vxi_port.data
  /\ client = NoClient
  /\ backlog = <<>>
  /\ udp_alive = TRUE
  /\ udp_packets = <<>>
  /\ tcp_waiting = <<>>
  /\ udp_request = NoRequest
  /\ tcp_request = NoRequest
  /\ turn = "bind"
  /\ at = [c \in Clients |-> "idle"]
  /\ request = [c \in Clients |-> [NoRequest EXCEPT !.from = c]]
  /\ told = [c \in Clients |-> NotTold]
  /\ fresh = {}
  /\ mishaps = 0

Mishap ==
  /\ mishaps < MaxMishaps
  /\ mishaps' = mishaps + 1

\* WiFiClient's operator bool: the peer is there, or something it sent.
Connected(c) == c # NoClient /\ at[c] \in {"open", "leaving", "half_closed", "vanished"}

-----------------------------------------------------------------------------
(* RPC_Bind_Server                                                         *)

allocate == IF Connected(client) THEN 0 ELSE vxi_port.data

Status(call) ==
  CASE call = "other_program" -> "prog_unavail"
    [] call = "other_procedure" -> "proc_unavail"
    [] call = "get_port" -> IF allocate = 0 THEN "garbage_args" ELSE "success"

\* Mutant: the answer is made from the other transport's buffer.
ProcessOther(onUDP) ==
  LET req == IF onUDP THEN tcp_request' ELSE udp_request'
  IN  [status |-> Status(req.call), port |-> IF req.call = "get_port" THEN allocate ELSE 0]

process_request(onUDP) ==
  LET req == IF onUDP THEN udp_request' ELSE tcp_request'
  IN  [status |-> Status(req.call), port |-> IF req.call = "get_port" THEN allocate ELSE 0]

\* The answer bears the transaction number that is in the buffer.  A client
\* that is told an error, or that its connection ends, asks again.
send_bind_packet(c, xid, answer) ==
  LET own == at[c] = "asked" /\ xid = request[c].xid
      port_known == own /\ answer.status = "success"
  IN  /\ told' = IF own THEN [told EXCEPT ![c] = answer] ELSE told
      /\ at' = IF own \/ (c \in TcpClients /\ at[c] = "asked")
               THEN [at EXCEPT ![c] = IF port_known THEN "told" ELSE "idle"] ELSE at
      /\ fresh' = IF port_known THEN fresh \cup {c} ELSE fresh

NoAnswer(c, xid) ==
  /\ at' = IF at[c] = "asked" /\ xid = request[c].xid THEN [at EXCEPT ![c] = "idle"] ELSE at
  /\ UNCHANGED <<told, fresh>>

AnswerTo(c, onUDP, late) ==
  LET answer == process_request(onUDP)
      xid == IF onUDP THEN udp_request'.xid ELSE tcp_request'.xid
  IN  send_bind_packet(c, xid, [status |-> answer.status, port |-> answer.port, late |-> late])

\* Mutant: the datagram is looked at and not taken.
BindUdpPeek ==
  LET packet == Head(udp_packets)
  IN  /\ udp_request' = packet
      /\ UNCHANGED <<udp_alive, udp_packets, tcp_waiting, tcp_request, mishaps>>
      /\ AnswerTo(packet.from, TRUE, FALSE)

\* get_bind_packet for UDP; the answer may get lost.
BindUdp ==
  LET packet == Head(udp_packets)
  IN  /\ udp_packets' = Tail(udp_packets)
      /\ udp_request' = packet
      /\ UNCHANGED <<udp_alive, tcp_waiting, tcp_request>>
      /\ \/ AnswerTo(packet.from, TRUE, FALSE) /\ UNCHANGED mishaps
         \/ NoAnswer(packet.from, packet.xid) /\ Mishap

\* get_bind_packet for TCP waits a second for the length and a second for the
\* rest.  Without the length it gives up; without the rest the buffer still
\* holds the request before, which is answered.  Either way the connection
\* ends with loop()'s local variable.
BindTcp ==
  LET c == Head(tcp_waiting)
  IN  /\ tcp_waiting' = Tail(tcp_waiting)
      /\ UNCHANGED <<udp_alive, udp_packets, udp_request>>
      /\ \/ /\ tcp_request' = request[c]
            /\ AnswerTo(c, FALSE, FALSE)
            /\ UNCHANGED mishaps
         \/ /\ UNCHANGED tcp_request
            /\ AnswerTo(c, FALSE, TRUE) \/ NoAnswer(c, request[c].xid)
            /\ Mishap

\* The client has aborted since it connected: send_bind_packet finds no room
\* to write in, however long it waits.
BindTcpAborted ==
  LET c == Head(tcp_waiting)
  IN  /\ tcp_waiting' = Tail(tcp_waiting)
      /\ tcp_request' \in {request[c], tcp_request}
      /\ NoAnswer(c, request[c].xid)
      /\ Mishap
      /\ UNCHANGED <<udp_alive, udp_packets, udp_request>>

\* RPC_Bind_Server::loop: nothing is read while the VXI server is in use, and
\* TCP has its turn only when no datagram is there.
Bind ==
  /\ turn = "bind"
  /\ \/ ~Connected(client) /\ udp_packets # <<>> /\ BindUdp /\ turn' = "vxi"
     \/ /\ ~Connected(client) /\ udp_packets = <<>> /\ tcp_waiting # <<>>
        /\ \/ BindTcp /\ turn' = "vxi"
           \/ BindTcpAborted /\ turn' = "held"
     \/ /\ Connected(client) \/ (udp_packets = <<>> /\ tcp_waiting = <<>>)
        /\ UNCHANGED <<bindVars, clientVars>>
        /\ turn' = "vxi"
  /\ UNCHANGED <<serverVars, request>>

-----------------------------------------------------------------------------
(* VXI_Server                                                              *)

Ended == [at EXCEPT ![client] = "done"]

\* Mutant: the server begins to listen before the port has moved on.
BeginNextLate ==
  /\ client' = NoClient
  /\ at' = Ended
  /\ UNCHANGED backlog
  /\ IF IsNoncyclic(vxi_port) THEN UNCHANGED <<vxi_port, listening, fresh>>
     ELSE /\ listening' = vxi_port.data
          /\ vxi_port' = GotoNext(vxi_port)
          /\ fresh' = {}

\* VXI_Server::begin(true).  Whether a stopped server still hands out the
\* connections it has is up to the library; those that it does not begin
\* again, if anybody is still there.
begin_next ==
  /\ client' = NoClient
  /\ IF IsNoncyclic(vxi_port)
     THEN at' = Ended /\ UNCHANGED <<vxi_port, listening, backlog, fresh>>
     ELSE /\ vxi_port' = GotoNext(vxi_port)
          /\ listening' = vxi_port'.data
          /\ fresh' = {}
          /\ \/ at' = Ended /\ UNCHANGED backlog
             \/ /\ backlog' = <<>>
                /\ at' = [c \in Clients |->
                            IF \A i \in DOMAIN backlog : backlog[i] # c THEN Ended[c]
                            ELSE IF at[c] = "open" THEN "idle" ELSE "done"]

Served(c) == at[c] \in {"leaving", "half_closed"}

\* VXI_Server::loop.
Vxi ==
  /\ turn = "vxi"
  /\ \/ /\ ~Connected(client) /\ backlog # <<>>
        /\ client' = Head(backlog)
        /\ backlog' = Tail(backlog)
        /\ UNCHANGED <<vxi_port, listening, clientVars>>
     \/ /\ ~Connected(client) /\ backlog = <<>>
        /\ client' = NoClient
        /\ UNCHANGED <<vxi_port, listening, backlog, clientVars>>
     \* No call is there, or one that does not end the link.
     \/ /\ Connected(client) /\ ~Served(client)
        /\ UNCHANGED <<serverVars, clientVars>>
     \* DESTROY_LINK, or the client is found to be gone.
     \/ /\ Connected(client) /\ Served(client)
        /\ UNCHANGED <<request, told, mishaps>>
        /\ \/ at[client] = "half_closed" /\ at' = Ended /\ UNCHANGED <<serverVars, fresh>>
           \/ begin_next
  /\ turn' = "http"
  /\ UNCHANGED bindVars

\* The same with a call of a client that has aborted since: send_vxi_packet
\* finds no room to write the answer in, however long it waits.
VxiAborted ==
  /\ turn = "vxi"
  /\ Connected(client) /\ at[client] = "half_closed"
  /\ turn' = "held"
  /\ UNCHANGED <<serverVars, bindVars, clientVars>>

\* The wait for room.
Held ==
  /\ turn = "held"
  /\ UNCHANGED vars

\* The web page's disconnect: the client is stopped, and nothing else.
disconnect_client ==
  /\ Connected(client)
  /\ at' = Ended
  /\ client' = NoClient
  /\ UNCHANGED <<vxi_port, listening, backlog, bindVars, request, told, fresh, mishaps>>

\* A firmware upload begins with WiFiUDP::stopAll().  One that succeeds ends
\* in a restart; this one does not.
firmware_upload ==
  /\ UPLOADS
  /\ udp_alive' = FALSE
  /\ udp_packets' = <<>>
  /\ UNCHANGED <<serverVars, clientVars, tcp_waiting, udp_request, tcp_request>>

Http ==
  /\ turn = "http"
  /\ \/ disconnect_client
     \/ firmware_upload
     \/ UNCHANGED <<serverVars, bindVars, clientVars>>
  /\ turn' = "bind"

-----------------------------------------------------------------------------
(* The clients                                                             *)

Ask(c) ==
  /\ at[c] = "idle"
  /\ at' = [at EXCEPT ![c] = "asked"]
  /\ \E call \in Calls :
       /\ request' = [request EXCEPT ![c] = [from |-> c, xid |-> @.xid + 1, call |-> call]]
       /\ IF call = "get_port" THEN UNCHANGED mishaps ELSE Mishap
  /\ told' = [told EXCEPT ![c] = NotTold]
  /\ fresh' = fresh \ {c}
  /\ udp_packets' = IF c \in UdpClients /\ udp_alive
                    THEN Append(udp_packets, request'[c]) ELSE udp_packets
  /\ tcp_waiting' = IF c \in TcpClients THEN Append(tcp_waiting, c) ELSE tcp_waiting
  /\ UNCHANGED <<serverVars, udp_alive, udp_request, tcp_request, turn>>

\* A datagram arrives twice, or the client has waited for too long.
AskAgain(c) ==
  /\ c \in UdpClients /\ udp_alive
  /\ at[c] = "asked"
  /\ Mishap
  /\ udp_packets' = Append(udp_packets, request[c])
  /\ UNCHANGED <<serverVars, udp_alive, tcp_waiting, udp_request, tcp_request, turn,
                 at, request, told, fresh>>

\* Refused, when nobody listens on that port any more.
Connect(c) ==
  /\ at[c] = "told"
  /\ IF told[c].port = listening
     THEN at' = [at EXCEPT ![c] = "open"] /\ backlog' = Append(backlog, c)
     ELSE at' = [at EXCEPT ![c] = "idle"] /\ UNCHANGED backlog
  /\ UNCHANGED <<vxi_port, listening, client, bindVars, turn, request, told, fresh, mishaps>>

Goes(c, place) ==
  /\ at' = [at EXCEPT ![c] = place]
  /\ UNCHANGED <<serverVars, bindVars, turn, request, told, fresh>>

\* DESTROY_LINK, or only the port was of interest.
Leave(c) ==
  /\ \/ at[c] = "open" /\ client = c /\ Goes(c, "leaving")
     \/ at[c] = "told" /\ Goes(c, "done")
  /\ UNCHANGED mishaps

\* It closes or aborts, with a call unread or none, or falls silent.
Fail(c) ==
  /\ at[c] = "open"
  /\ \E place \in {"done", "half_closed", "vanished"} : Goes(c, place)
  /\ Mishap

\* Only a user can free the server of a client that has fallen silent.
DisconnectSilent ==
  /\ Connected(client) /\ at[client] = "vanished"
  /\ turn = "http" /\ turn' = "bind"
  /\ disconnect_client

Next ==
  \/ Bind
  \/ Vxi
  \/ VxiAborted
  \/ Held
  \/ Http
  \/ \E c \in Clients : Ask(c) \/ AskAgain(c) \/ Connect(c) \/ Leave(c) \/ Fail(c)

\* The thread runs; clients do what they came for; and somebody disconnects
\* a client that has fallen silent: there is no timeout for that.
Fairness ==
  /\ WF_vars(Bind) /\ WF_vars(Vxi \/ VxiAborted) /\ WF_vars(Http)
  /\ SF_vars(DisconnectSilent)
  /\ \A c \in Clients :
       WF_vars(Ask(c)) /\ WF_vars(Connect(c)) /\ WF_vars(Leave(c))

Spec == Init /\ [][Next]_vars

FairSpec == Spec /\ Fairness

-----------------------------------------------------------------------------
(* Properties                                                              *)

\* All variables have their types, and the port stays in its range.
TypeOK ==
  /\ vxi_port \in [start : Nat, end : Nat, data : Nat]
  /\ vxi_port.start = Cyclic(VXI_PORT_START, VXI_PORT_END, 0).start
  /\ vxi_port.end = Cyclic(VXI_PORT_START, VXI_PORT_END, 0).end
  /\ vxi_port.data \in vxi_port.start..vxi_port.end
  /\ listening \in Nat
  /\ client \in Clients \cup {NoClient}
  /\ backlog \in Seq(Clients)
  /\ udp_alive \in BOOLEAN
  /\ udp_packets \in Seq([from : UdpClients, xid : Nat, call : Calls])
  /\ tcp_waiting \in Seq(TcpClients)
  /\ {udp_request, tcp_request} \subseteq
       [from : Clients \cup {NoClient}, xid : Nat, call : Calls]
  /\ turn \in {"bind", "vxi", "http", "held"}
  /\ at \in [Clients -> Places]
  /\ request \in [Clients -> [from : Clients, xid : Nat, call : Calls]]
  /\ told \in [Clients -> [status : Statuses \cup {"none"}, port : Nat, late : BOOLEAN]]
  /\ fresh \subseteq Clients
  /\ mishaps \in 0..MaxMishaps

\* Whatever transports and duplicates are under way, what a client takes for
\* the answer to its bind request is the answer to it: it is told a port if
\* and only if it asked for one, and never the error that process_request
\* keeps for a server that has become unavailable.  The exception is a TCP
\* request whose rest came too late: the one before it is answered again.
AnswersOwnRequest ==
  \A c \in Clients :
    told[c] # NotTold /\ ~told[c].late =>
      /\ told[c].status = "success" <=> request[c].call = "get_port"
      /\ told[c].status = "proc_unavail" <=> request[c].call = "other_procedure"
      /\ told[c].status = "prog_unavail" <=> request[c].call = "other_program"

\* The VXI server listens on the port a client has been told, until a link
\* has ended since; on a range of one port (the default) always.
ToldPortListened ==
  \A c \in Clients :
    told[c].status = "success" /\ (c \in fresh \/ VXI_PORT_START = VXI_PORT_END) =>
      told[c].port = listening

\* While one client is served the bind server reads nothing, datagrams go
\* before connections, and the port may move on: every client still gets its
\* link, or gives up; a UDP client only as long as no firmware upload has
\* begun, and all of them only as long as no client aborts between its call
\* and the answer, for which the thread then waits forever (rpc_packets.cpp:148).
ClientsServed ==
  \A c \in Clients :
    <>(at[c] = "done" \/ (c \in UdpClients /\ ~udp_alive) \/ turn = "held")
=============================================================================
