--------------------------- MODULE VxiBindProofs ---------------------------
(***************************************************************************)
(* Proofs about CyclicPort and VxiBind, for any range of ports and any     *)
(* number of clients and mishaps.                                          *)
(***************************************************************************)
EXTENDS VxiBind, TLAPS

-----------------------------------------------------------------------------
(* The cyclic counter                                                      *)

InRange(c) ==
  /\ c \in [start : Nat, end : Nat, data : Nat]
  /\ c.start <= c.end
  /\ c.data >= c.start /\ c.data <= c.end

\* However the ends are given, and whatever the first value, the counter
\* begins in its range.
LEMMA CyclicBegins ==
  ASSUME NEW s \in Nat, NEW e \in Nat, NEW v \in Nat
  PROVE  InRange(Cyclic(s, e, v))
  BY DEF Cyclic, InRange

LEMMA NextStays ==
  ASSUME NEW c, InRange(c)
  PROVE  /\ InRange(GotoNext(c))
         /\ GotoNext(c).start = c.start /\ GotoNext(c).end = c.end
  BY DEF InRange, GotoNext

LEMMA PrevStays ==
  ASSUME NEW c, InRange(c)
  PROVE  /\ InRange(GotoPrev(c))
         /\ GotoPrev(c).start = c.start /\ GotoPrev(c).end = c.end
  BY DEF InRange, GotoPrev

\* The counter goes round: ++ and -- undo each other, also at the ends of the
\* range, and ++ moves unless there is one value only.
THEOREM CyclicGoesRound ==
  ASSUME NEW c, InRange(c)
  PROVE  /\ GotoPrev(GotoNext(c)) = c
         /\ GotoNext(GotoPrev(c)) = c
         /\ IsNoncyclic(c) <=> GotoNext(c).data = c.data
<1>1. c = [start |-> c.start, end |-> c.end, data |-> c.data]
  BY DEF InRange
<1>2. /\ GotoPrev(GotoNext(c)).data = c.data
      /\ GotoNext(GotoPrev(c)).data = c.data
  BY DEF InRange, GotoNext, GotoPrev
<1>3. /\ GotoPrev(GotoNext(c)) = [start |-> c.start, end |-> c.end,
                                  data |-> GotoPrev(GotoNext(c)).data]
      /\ GotoNext(GotoPrev(c)) = [start |-> c.start, end |-> c.end,
                                  data |-> GotoNext(GotoPrev(c)).data]
  <2>1. \A d \in [start : Nat, end : Nat, data : Nat] :
          d = [start |-> d.start, end |-> d.end, data |-> d.data]
    OBVIOUS
  <2> QED
    BY <2>1, NextStays, PrevStays DEF InRange
<1>4. IsNoncyclic(c) <=> GotoNext(c).data = c.data
  BY DEF InRange, GotoNext, IsNoncyclic
<1> QED
  BY <1>1, <1>2, <1>3, <1>4

-----------------------------------------------------------------------------
(* Types                                                                   *)

ServerTypeOK ==
  /\ vxi_port \in [start : Nat, end : Nat, data : Nat]
  /\ vxi_port.start = Cyclic(VXI_PORT_START, VXI_PORT_END, 0).start
  /\ vxi_port.end = Cyclic(VXI_PORT_START, VXI_PORT_END, 0).end
  /\ vxi_port.data \in vxi_port.start..vxi_port.end
  /\ listening \in Nat
  /\ client \in Clients \cup {NoClient}
  /\ backlog \in Seq(Clients)

BindTypeOK ==
  /\ udp_alive \in BOOLEAN
  /\ udp_packets \in Seq([from : UdpClients, xid : Nat, call : Calls])
  /\ tcp_waiting \in Seq(TcpClients)
  /\ {udp_request, tcp_request} \subseteq
       [from : Clients \cup {NoClient}, xid : Nat, call : Calls]

ClientTypeOK ==
  /\ at \in [Clients -> Places]
  /\ request \in [Clients -> [from : Clients, xid : Nat, call : Calls]]
  /\ told \in [Clients -> [status : Statuses \cup {"none"}, port : Nat, late : BOOLEAN]]
  /\ fresh \subseteq Clients
  /\ mishaps \in 0..MaxMishaps

\* A client's request says whose it is.
OwnRequest == \A c \in Clients : request[c].from = c

TypeInv ==
  /\ ServerTypeOK
  /\ BindTypeOK
  /\ ClientTypeOK
  /\ turn \in {"bind", "vxi", "http", "held"}
  /\ OwnRequest

LEMMA TypeInvGives == TypeInv => TypeOK
  BY DEF TypeInv, TypeOK, ServerTypeOK, BindTypeOK, ClientTypeOK

LEMMA PortRange ==
  ASSUME ServerTypeOK
  PROVE  InRange(vxi_port) /\ vxi_port.data > 0
<1>1. InRange(Cyclic(VXI_PORT_START, VXI_PORT_END, 0))
  BY VxiBindAssumption, CyclicBegins
<1>2. Cyclic(VXI_PORT_START, VXI_PORT_END, 0).start > 0
  BY VxiBindAssumption DEF Cyclic
<1> QED
  BY <1>1, <1>2 DEF ServerTypeOK, InRange

LEMMA AppendType ==
  ASSUME NEW S, NEW s \in Seq(S), NEW e \in S
  PROVE  Append(s, e) \in Seq(S)
  OBVIOUS

LEMMA TailType ==
  ASSUME NEW S, NEW s \in Seq(S), s # <<>>
  PROVE  /\ Head(s) \in S /\ Tail(s) \in Seq(S)
         /\ Head(s) = s[1] /\ 1 \in 1..Len(s)
         /\ \A i \in 1..Len(Tail(s)) : i + 1 \in 1..Len(s) /\ Tail(s)[i] = s[i + 1]
  OBVIOUS

LEMMA ElementType ==
  ASSUME NEW S, NEW s \in Seq(S), NEW i \in 1..Len(s)
  PROVE  s[i] \in S
  OBVIOUS

LEMMA EmptyType ==
  ASSUME NEW S
  PROVE  <<>> \in Seq(S)
  OBVIOUS

LEMMA MishapType ==
  ASSUME mishaps \in 0..MaxMishaps, Mishap
  PROVE  mishaps' \in 0..MaxMishaps
  BY VxiBindAssumption DEF Mishap

-----------------------------------------------------------------------------
(* An answer of the bind server                                            *)

\* With no client on the VXI server there is a port to tell.
LEMMA StatusIs ==
  ASSUME ServerTypeOK, ~Connected(client), NEW call \in Calls
  PROVE  /\ allocate = vxi_port.data /\ allocate \in Nat
         /\ Status(call) \in Statuses
         /\ Status(call) = "success" <=> call = "get_port"
         /\ Status(call) = "proc_unavail" <=> call = "other_procedure"
         /\ Status(call) = "prog_unavail" <=> call = "other_program"
<1>1. allocate = vxi_port.data /\ allocate \in Nat /\ allocate # 0
  BY PortRange DEF allocate, InRange
<1>2. CASE call = "get_port"
  BY <1>1, <1>2 DEF Status, Statuses
<1>3. CASE call = "other_procedure"
  BY <1>1, <1>3 DEF Status, Statuses
<1>4. CASE call = "other_program"
  BY <1>1, <1>4 DEF Status, Statuses
<1> QED
  BY <1>1, <1>2, <1>3, <1>4 DEF Calls

Answers == [status : Statuses, port : Nat, late : BOOLEAN]

\* At most the client it is sent to takes it, and only for its last request.
LEMMA SendEffect ==
  ASSUME ClientTypeOK, NEW c \in Clients, NEW xid, NEW answer \in Answers,
         send_bind_packet(c, xid, answer)
  PROVE  /\ at' \in [Clients -> Places]
         /\ told' \in [Clients -> [status : Statuses \cup {"none"}, port : Nat, late : BOOLEAN]]
         /\ fresh' \subseteq Clients
         /\ \A d \in Clients :
              \/ told'[d] = told[d] /\ (d \in fresh' => d \in fresh)
              \/ d = c /\ told'[d] = answer /\ xid = request[c].xid
<1> DEFINE own == at[c] = "asked" /\ xid = request[c].xid
           known == own /\ answer.status = "success"
           A == [status : Statuses \cup {"none"}, port : Nat, late : BOOLEAN]
<1>1. answer \in A
  BY DEF Answers
<1>2. /\ told' = IF own THEN [told EXCEPT ![c] = answer] ELSE told
      /\ at' = IF own \/ (c \in TcpClients /\ at[c] = "asked")
               THEN [at EXCEPT ![c] = IF known THEN "told" ELSE "idle"] ELSE at
      /\ fresh' = IF known THEN fresh \cup {c} ELSE fresh
  BY DEF send_bind_packet
<1>3. told \in [Clients -> A] /\ at \in [Clients -> Places] /\ fresh \subseteq Clients
  BY DEF ClientTypeOK
<1>4. at' \in [Clients -> Places]
  BY <1>2, <1>3 DEF Places
<1> HIDE DEF A
<1>5. told' \in [Clients -> A] /\ fresh' \subseteq Clients
  BY <1>1, <1>2, <1>3
<1>6. \A d \in Clients :
        \/ told'[d] = told[d] /\ (d \in fresh' => d \in fresh)
        \/ d = c /\ told'[d] = answer /\ xid = request[c].xid
  BY <1>1, <1>2, <1>3
<1> QED
  BY <1>4, <1>5, <1>6 DEF A

\* The answer to the request r that is in the buffer.
Fits(answer, r) ==
  /\ answer \in Answers
  /\ answer.status = "success" => answer.port = vxi_port.data
  /\ answer.status = "success" <=> r.call = "get_port"
  /\ answer.status = "proc_unavail" <=> r.call = "other_procedure"
  /\ answer.status = "prog_unavail" <=> r.call = "other_program"

LEMMA AnswerFits ==
  ASSUME ServerTypeOK, ClientTypeOK, ~Connected(client), NEW c \in Clients,
         NEW onUDP \in BOOLEAN, NEW late \in BOOLEAN, NEW r,
         r = IF onUDP THEN udp_request' ELSE tcp_request', r.call \in Calls,
         AnswerTo(c, onUDP, late)
  PROVE  \E answer \in Answers :
           /\ Fits(answer, r) /\ answer.late = late
           /\ send_bind_packet(c, r.xid, answer)
<1> DEFINE answer == [status |-> Status(r.call),
                      port |-> IF r.call = "get_port" THEN allocate ELSE 0, late |-> late]
<1>1. /\ allocate = vxi_port.data /\ allocate \in Nat
      /\ Status(r.call) \in Statuses
      /\ Status(r.call) = "success" <=> r.call = "get_port"
      /\ Status(r.call) = "proc_unavail" <=> r.call = "other_procedure"
      /\ Status(r.call) = "prog_unavail" <=> r.call = "other_program"
  BY StatusIs
<1>2. /\ process_request(onUDP).status = Status(r.call)
      /\ process_request(onUDP).port = IF r.call = "get_port" THEN allocate ELSE 0
  BY DEF process_request
<1>3. send_bind_packet(c, r.xid, answer)
  BY <1>2 DEF AnswerTo
<1>4. answer \in Answers
  BY <1>1 DEF Answers
<1>5. Fits(answer, r)
  BY <1>1, <1>4 DEF Fits
<1> QED
  BY <1>3, <1>4, <1>5

-----------------------------------------------------------------------------
(* What a turn of the bind server does                                     *)

\* A datagram under way is its sender's last request, or an older one.
PacketInv ==
  \A i \in 1..Len(udp_packets) :
    LET p == udp_packets[i]
    IN  /\ p.xid <= request[p.from].xid
        /\ p.xid = request[p.from].xid => p.call = request[p.from].call

\* What a client is told is right for its request, unless that was late.
Right(c) ==
  /\ told'[c].status = "success" => told'[c].port = vxi_port.data
  /\ ~told'[c].late =>
       /\ told'[c].status = "success" <=> request[c].call = "get_port"
       /\ told'[c].status = "proc_unavail" <=> request[c].call = "other_procedure"
       /\ told'[c].status = "prog_unavail" <=> request[c].call = "other_program"

ToldRight ==
  \A c \in Clients : \/ told'[c] = told[c] /\ (c \in fresh' => c \in fresh)
                     \/ Right(c)

LEMMA BindEffect ==
  ASSUME TypeInv, PacketInv, Bind
  PROVE  TypeInv' /\ PacketInv' /\ ToldRight /\ UNCHANGED <<serverVars, request>>
<1> USE DEF TypeInv
<1>0. UNCHANGED <<serverVars, request>> /\ turn' \in {"vxi", "held"}
  BY DEF Bind
<1>1. ServerTypeOK' /\ OwnRequest'
  BY <1>0 DEF serverVars, ServerTypeOK, OwnRequest
<1>2. ASSUME ~Connected(client), udp_packets # <<>>, BindUdp
      PROVE  BindTypeOK' /\ ClientTypeOK' /\ PacketInv' /\ ToldRight
  <2> DEFINE p == Head(udp_packets)
  <2>1. /\ p \in [from : UdpClients, xid : Nat, call : Calls]
        /\ Tail(udp_packets) \in Seq([from : UdpClients, xid : Nat, call : Calls])
        /\ p = udp_packets[1] /\ 1 \in 1..Len(udp_packets)
        /\ \A i \in 1..Len(Tail(udp_packets)) :
             i + 1 \in 1..Len(udp_packets) /\ Tail(udp_packets)[i] = udp_packets[i + 1]
    BY <1>2, TailType DEF BindTypeOK
  <2>2. /\ udp_packets' = Tail(udp_packets) /\ udp_request' = p
        /\ UNCHANGED <<udp_alive, tcp_waiting, tcp_request>>
    BY <1>2 DEF BindUdp
  <2>3. p.from \in Clients /\ p.call \in Calls /\ p.xid \in Nat
        /\ p \in [from : Clients \cup {NoClient}, xid : Nat, call : Calls]
    BY <2>1 DEF Clients
  <2>4. p.xid = request[p.from].xid => p.call = request[p.from].call
    BY <2>1 DEF PacketInv
  <2> HIDE DEF p
  <2>5. BindTypeOK' /\ PacketInv'
    <3>1. BindTypeOK'
      BY <2>1, <2>2, <2>3 DEF BindTypeOK
    <3>2. PacketInv'
      BY <1>0, <2>1, <2>2 DEF PacketInv
    <3> QED
      BY <3>1, <3>2
  <2>6. CASE AnswerTo(p.from, TRUE, FALSE) /\ UNCHANGED mishaps
    <3>1. PICK answer \in Answers :
            /\ Fits(answer, p) /\ answer.late = FALSE
            /\ send_bind_packet(p.from, p.xid, answer)
      BY <1>2, <2>2, <2>3, <2>6, AnswerFits
    <3>2. ToldRight
      BY <2>3, <2>4, <3>1, SendEffect DEF ToldRight, Right, Fits
    <3>3. ClientTypeOK'
      BY <1>0, <2>3, <2>6, <3>1, SendEffect DEF ClientTypeOK
    <3> QED
      BY <2>5, <3>2, <3>3
  <2>7. CASE NoAnswer(p.from, p.xid) /\ Mishap
    <3>1. ToldRight
      BY <2>7 DEF NoAnswer, ToldRight
    <3>2. at' \in [Clients -> Places]
      BY <2>3, <2>7 DEF NoAnswer, ClientTypeOK, Places
    <3>3. ClientTypeOK'
      BY <1>0, <2>7, <3>2, MishapType DEF NoAnswer, ClientTypeOK
    <3> QED
      BY <2>5, <3>1, <3>3
  <2> QED
    BY <1>2, <2>6, <2>7 DEF BindUdp, p
<1>3. ASSUME ~Connected(client), tcp_waiting # <<>>, BindTcp \/ BindTcpAborted
      PROVE  BindTypeOK' /\ ClientTypeOK' /\ PacketInv' /\ ToldRight
  <2> DEFINE c == Head(tcp_waiting)
  <2>1. /\ c \in TcpClients /\ Tail(tcp_waiting) \in Seq(TcpClients)
        /\ tcp_waiting' = Tail(tcp_waiting)
        /\ UNCHANGED <<udp_alive, udp_packets, udp_request>>
    BY <1>3, TailType DEF BindTypeOK, BindTcp, BindTcpAborted
  <2>2. c \in Clients
    BY <2>1 DEF Clients
  <2> HIDE DEF c
  <2>3. PacketInv'
    BY <1>0, <2>1 DEF PacketInv
  <2>4. /\ request[c] \in [from : Clients \cup {NoClient}, xid : Nat, call : Calls]
        /\ request[c].call \in Calls /\ tcp_request.call \in Calls
    BY <2>2 DEF ClientTypeOK, BindTypeOK
  <2>5. ASSUME tcp_request' \in {request[c], tcp_request} PROVE BindTypeOK'
    BY <2>1, <2>4, <2>5 DEF BindTypeOK
  <2>6. CASE /\ tcp_request' = request[c] /\ AnswerTo(c, FALSE, FALSE)
             /\ UNCHANGED mishaps
    <3>1. PICK answer \in Answers :
            /\ Fits(answer, request[c]) /\ answer.late = FALSE
            /\ send_bind_packet(c, request[c].xid, answer)
      BY <1>3, <2>2, <2>4, <2>6, AnswerFits
    <3>2. ToldRight
      BY <2>2, <3>1, SendEffect DEF ToldRight, Right, Fits
    <3>3. ClientTypeOK'
      BY <1>0, <2>2, <2>6, <3>1, SendEffect DEF ClientTypeOK
    <3> QED
      BY <2>3, <2>5, <2>6, <3>2, <3>3
  <2>7. CASE UNCHANGED tcp_request /\ AnswerTo(c, FALSE, TRUE) /\ Mishap
    <3>1. PICK answer \in Answers :
            /\ Fits(answer, tcp_request) /\ answer.late = TRUE
            /\ send_bind_packet(c, tcp_request.xid, answer)
      BY <1>3, <2>2, <2>4, <2>7, AnswerFits
    <3>2. ToldRight
      BY <2>2, <3>1, SendEffect DEF ToldRight, Right, Fits
    <3>3. ClientTypeOK'
      BY <1>0, <2>2, <2>7, <3>1, SendEffect, MishapType DEF ClientTypeOK
    <3> QED
      BY <2>3, <2>5, <2>7, <3>2, <3>3
  <2>8. CASE /\ tcp_request' \in {request[c], tcp_request}
             /\ NoAnswer(c, request[c].xid) /\ Mishap
    <3>1. ToldRight
      BY <2>8 DEF NoAnswer, ToldRight
    <3>2. at' \in [Clients -> Places]
      BY <2>2, <2>8 DEF NoAnswer, ClientTypeOK, Places
    <3>3. ClientTypeOK'
      BY <1>0, <2>8, <3>2, MishapType DEF NoAnswer, ClientTypeOK
    <3> QED
      BY <2>3, <2>5, <2>8, <3>1, <3>3
  <2> QED
    BY <1>3, <2>6, <2>7, <2>8 DEF BindTcp, BindTcpAborted, c
<1>4. CASE UNCHANGED <<bindVars, clientVars>>
  <2>1. BindTypeOK' /\ ClientTypeOK'
    BY <1>4 DEF bindVars, clientVars, BindTypeOK, ClientTypeOK
  <2>2. PacketInv' /\ ToldRight
    BY <1>4 DEF bindVars, clientVars, PacketInv, ToldRight
  <2> QED
    BY <1>0, <1>1, <2>1, <2>2
<1> QED
  BY <1>0, <1>1, <1>2, <1>3, <1>4 DEF Bind

-----------------------------------------------------------------------------
(* The other turns and the clients                                         *)

LEMMA EndedType ==
  ASSUME ClientTypeOK
  PROVE  Ended \in [Clients -> Places]
  BY DEF ClientTypeOK, Ended, Places

\* The server listens where the counter stands, whatever has ended.
Listens == listening = vxi_port.data

LEMMA BeginNextEffect ==
  ASSUME ServerTypeOK, ClientTypeOK, Listens, begin_next
  PROVE  /\ ServerTypeOK' /\ Listens' /\ at' \in [Clients -> Places]
         /\ fresh' \subseteq Clients
         /\ \/ UNCHANGED <<listening, fresh>>
            \/ fresh' = {} /\ VXI_PORT_START # VXI_PORT_END
<1> DEFINE C == Cyclic(VXI_PORT_START, VXI_PORT_END, 0)
<1>1. CASE IsNoncyclic(vxi_port)
  BY <1>1, EndedType DEF begin_next, ServerTypeOK, ClientTypeOK, Listens
<1>2. CASE ~IsNoncyclic(vxi_port)
  <2>1. /\ vxi_port' = GotoNext(vxi_port) /\ listening' = vxi_port'.data /\ client' = NoClient
        /\ fresh' = {}
        /\ \/ at' = Ended /\ backlog' = backlog
           \/ /\ backlog' = <<>>
              /\ at' = [c \in Clients |->
                          IF \A i \in DOMAIN backlog : backlog[i] # c THEN Ended[c]
                          ELSE IF at[c] = "open" THEN "idle" ELSE "done"]
    BY <1>2 DEF begin_next
  <2>2. at' \in [Clients -> Places]
    BY <2>1, EndedType DEF Places
  <2>3. InRange(vxi_port') /\ vxi_port'.start = vxi_port.start /\ vxi_port'.end = vxi_port.end
    BY <2>1, PortRange, NextStays
  <2>4. backlog' \in Seq(Clients)
    BY <2>1, EmptyType DEF ServerTypeOK
  <2>5. ServerTypeOK' /\ Listens'
    BY <2>1, <2>3, <2>4 DEF ServerTypeOK, InRange, Listens
  <2>6. VXI_PORT_START # VXI_PORT_END
    BY <1>2 DEF IsNoncyclic, ServerTypeOK, Cyclic
  <2> QED
    BY <2>1, <2>2, <2>5, <2>6
<1> QED
  BY <1>1, <1>2

LEMMA VxiEffect ==
  ASSUME TypeInv, PacketInv, Listens, Vxi
  PROVE  /\ TypeInv' /\ PacketInv' /\ Listens' /\ UNCHANGED <<told, request>>
         /\ \/ UNCHANGED <<listening, fresh>>
            \/ fresh' = {} /\ VXI_PORT_START # VXI_PORT_END
<1> USE DEF TypeInv
<1>1. UNCHANGED bindVars /\ turn' = "http" /\ UNCHANGED <<told, request, mishaps>>
  BY DEF Vxi, clientVars
<1>2. BindTypeOK' /\ PacketInv' /\ OwnRequest'
  BY <1>1 DEF bindVars, BindTypeOK, PacketInv, OwnRequest
<1>3. CASE ~Connected(client) /\ UNCHANGED <<vxi_port, listening, clientVars>>
           /\ \/ backlog # <<>> /\ client' = Head(backlog) /\ backlog' = Tail(backlog)
              \/ client' = NoClient /\ UNCHANGED backlog
  <2>1. client' \in Clients \cup {NoClient} /\ backlog' \in Seq(Clients)
    <3>1. backlog \in Seq(Clients)
      BY DEF ServerTypeOK
    <3>2. CASE backlog # <<>> /\ client' = Head(backlog) /\ backlog' = Tail(backlog)
      BY <3>1, <3>2, TailType
    <3>3. CASE client' = NoClient /\ UNCHANGED backlog
      BY <3>1, <3>3
    <3> QED
      BY <1>3, <3>2, <3>3
  <2>2. ServerTypeOK' /\ Listens'
    BY <1>3, <2>1 DEF ServerTypeOK, Listens
  <2>3. ClientTypeOK' /\ UNCHANGED fresh
    BY <1>3 DEF ClientTypeOK, clientVars
  <2> QED
    BY <1>1, <1>2, <1>3, <2>2, <2>3
<1>4. CASE UNCHANGED <<serverVars, clientVars>>
  <2>1. ServerTypeOK' /\ Listens' /\ UNCHANGED listening
    BY <1>4 DEF serverVars, ServerTypeOK, Listens
  <2>2. ClientTypeOK' /\ UNCHANGED fresh
    BY <1>4 DEF ClientTypeOK, clientVars
  <2> QED
    BY <1>1, <1>2, <2>1, <2>2
<1>5. CASE at' = Ended /\ UNCHANGED <<serverVars, fresh>>
  <2>1. ServerTypeOK' /\ Listens' /\ UNCHANGED listening
    BY <1>5 DEF serverVars, ServerTypeOK, Listens
  <2>2. ClientTypeOK'
    BY <1>1, <1>5, EndedType DEF ClientTypeOK
  <2> QED
    BY <1>1, <1>2, <1>5, <2>1, <2>2
<1>6. CASE begin_next
  <2>1. /\ ServerTypeOK' /\ Listens' /\ at' \in [Clients -> Places] /\ fresh' \subseteq Clients
        /\ \/ UNCHANGED <<listening, fresh>>
           \/ fresh' = {} /\ VXI_PORT_START # VXI_PORT_END
    BY <1>6, BeginNextEffect
  <2>2. ClientTypeOK'
    BY <1>1, <2>1 DEF ClientTypeOK
  <2> QED
    BY <1>1, <1>2, <2>1, <2>2
<1> QED
  BY <1>3, <1>4, <1>5, <1>6 DEF Vxi

LEMMA HttpEffect ==
  ASSUME TypeInv, PacketInv, Listens, Http
  PROVE  /\ TypeInv' /\ PacketInv' /\ Listens'
         /\ UNCHANGED <<listening, told, request, fresh>>
<1> USE DEF TypeInv
<1>1. turn' = "bind" /\ UNCHANGED <<vxi_port, listening, backlog, tcp_waiting,
        udp_request, tcp_request, told, request, fresh, mishaps>>
  BY DEF Http, disconnect_client, firmware_upload, serverVars, clientVars, bindVars
<1>2. /\ client' \in {client, NoClient} /\ at' \in {at, Ended}
      /\ \/ UNCHANGED <<udp_packets, udp_alive>>
         \/ udp_packets' = <<>> /\ udp_alive' = FALSE
  BY DEF Http, disconnect_client, firmware_upload, serverVars, clientVars, bindVars
<1>3. ServerTypeOK' /\ Listens' /\ OwnRequest'
  BY <1>1, <1>2 DEF ServerTypeOK, Listens, OwnRequest
<1>4. ClientTypeOK'
  BY <1>1, <1>2, EndedType DEF ClientTypeOK
<1>5. BindTypeOK'
  BY <1>1, <1>2, EmptyType DEF BindTypeOK
<1>6. PacketInv'
  BY <1>1, <1>2 DEF PacketInv
<1> QED
  BY <1>1, <1>3, <1>4, <1>5, <1>6

LEMMA AskEffect ==
  ASSUME TypeInv, PacketInv, Listens, NEW c \in Clients, Ask(c)
  PROVE  /\ TypeInv' /\ PacketInv' /\ Listens' /\ UNCHANGED listening
         /\ told'[c] = NotTold /\ fresh' = fresh \ {c}
         /\ \A d \in Clients \ {c} : told'[d] = told[d] /\ request'[d] = request[d]
<1> USE DEF TypeInv
<1> DEFINE R == [from : Clients, xid : Nat, call : Calls]
           P == [from : UdpClients, xid : Nat, call : Calls]
<1>1. PICK call \in Calls :
        /\ request' = [request EXCEPT ![c] = [from |-> c, xid |-> @.xid + 1, call |-> call]]
        /\ IF call = "get_port" THEN UNCHANGED mishaps ELSE Mishap
  BY DEF Ask
<1> DEFINE r == [from |-> c, xid |-> request[c].xid + 1, call |-> call]
<1>2. r \in R /\ r.xid = request[c].xid + 1 /\ r.from = c /\ request[c].xid \in Nat
  BY DEF ClientTypeOK
<1>3. request' = [request EXCEPT ![c] = r] /\ request \in [Clients -> R]
  BY <1>1 DEF ClientTypeOK
<1>4. c \in UdpClients => r \in P
  BY <1>2
<1> HIDE DEF r, R
<1>5. /\ request' \in [Clients -> R] /\ request'[c] = r
      /\ \A d \in Clients \ {c} : request'[d] = request[d]
  BY <1>2, <1>3
<1>6. ServerTypeOK' /\ Listens' /\ UNCHANGED <<listening, turn>>
  BY DEF Ask, serverVars, ServerTypeOK, Listens
<1>7. ClientTypeOK' /\ fresh' = fresh \ {c}
  <2>1. mishaps' \in 0..MaxMishaps
    BY <1>1, MishapType DEF ClientTypeOK
  <2>2. at' \in [Clients -> Places]
    BY DEF Ask, ClientTypeOK, Places
  <2>3. NotTold \in [status : Statuses \cup {"none"}, port : Nat, late : BOOLEAN]
    BY DEF NotTold
  <2>4. told' \in [Clients -> [status : Statuses \cup {"none"}, port : Nat, late : BOOLEAN]]
    BY <2>3 DEF Ask, ClientTypeOK
  <2> QED
    BY <1>5, <2>1, <2>2, <2>4 DEF Ask, ClientTypeOK, R
<1>8. told'[c] = NotTold /\ \A d \in Clients \ {c} : told'[d] = told[d]
  BY DEF Ask, ClientTypeOK
<1>9. OwnRequest'
  BY <1>2, <1>5 DEF OwnRequest
<1>10. BindTypeOK'
  <2>1. udp_packets' \in Seq(P)
    BY <1>4, <1>5, AppendType DEF Ask, BindTypeOK
  <2>2. tcp_waiting' \in Seq(TcpClients)
    BY AppendType DEF Ask, BindTypeOK
  <2> QED
    BY <2>1, <2>2 DEF Ask, BindTypeOK
<1>11. PacketInv'
  <2>1. \A i \in 1..Len(udp_packets) :
          /\ udp_packets[i] \in P /\ udp_packets[i].from \in Clients
          /\ udp_packets[i].xid <= request[udp_packets[i].from].xid
          /\ udp_packets[i].xid = request[udp_packets[i].from].xid
               => udp_packets[i].call = request[udp_packets[i].from].call
    <3>1. \A i \in 1..Len(udp_packets) : udp_packets[i] \in P
      BY ElementType DEF BindTypeOK
    <3>2. \A q \in P : q.from \in Clients
      BY DEF Clients
    <3> QED
      BY <3>1, <3>2 DEF PacketInv
  <2>2. \A i \in 1..Len(udp_packets) :
          /\ udp_packets[i].xid <= request'[udp_packets[i].from].xid
          /\ udp_packets[i].xid = request'[udp_packets[i].from].xid
               => udp_packets[i].call = request'[udp_packets[i].from].call
    <3> SUFFICES ASSUME NEW i \in 1..Len(udp_packets)
                 PROVE  /\ udp_packets[i].xid <= request'[udp_packets[i].from].xid
                        /\ udp_packets[i].xid = request'[udp_packets[i].from].xid
                             => udp_packets[i].call = request'[udp_packets[i].from].call
      OBVIOUS
    <3>1. udp_packets[i].xid \in Nat
      BY <2>1
    <3>2. CASE udp_packets[i].from = c
      BY <1>2, <1>5, <2>1, <3>1, <3>2
    <3>3. CASE udp_packets[i].from # c
      BY <1>5, <2>1, <3>3
    <3> QED
      BY <3>2, <3>3
  <2>3. CASE udp_packets' = udp_packets
    BY <2>2, <2>3 DEF PacketInv
  <2>4. CASE udp_packets' = Append(udp_packets, request'[c])
    <3>1. /\ Len(udp_packets') = Len(udp_packets) + 1 /\ Len(udp_packets) \in Nat
          /\ \A i \in 1..Len(udp_packets) : udp_packets'[i] = udp_packets[i]
          /\ udp_packets'[Len(udp_packets) + 1] = r
      BY <1>5, <2>4 DEF BindTypeOK
    <3>2. \A i \in 1..Len(udp_packets') : i \in 1..Len(udp_packets) \/ i = Len(udp_packets) + 1
      BY <3>1
    <3>3. r.xid <= r.xid
      BY <1>2
    <3> QED
      BY <1>2, <1>5, <2>2, <3>1, <3>2, <3>3 DEF PacketInv
  <2> QED
    BY <2>3, <2>4 DEF Ask
<1> QED
  BY <1>6, <1>7, <1>8, <1>5, <1>9, <1>10, <1>11

LEMMA AskAgainEffect ==
  ASSUME TypeInv, PacketInv, Listens, NEW c \in Clients, AskAgain(c)
  PROVE  /\ TypeInv' /\ PacketInv' /\ Listens'
         /\ UNCHANGED <<listening, told, request, fresh>>
<1> USE DEF TypeInv
<1> DEFINE P == [from : UdpClients, xid : Nat, call : Calls]
<1>1. /\ c \in UdpClients /\ Mishap /\ udp_packets' = Append(udp_packets, request[c])
      /\ UNCHANGED <<serverVars, udp_alive, tcp_waiting, udp_request, tcp_request, turn,
                     at, request, told, fresh>>
  BY DEF AskAgain
<1>2. request[c] \in P /\ request[c].from = c /\ request[c].xid \in Nat
  BY <1>1 DEF ClientTypeOK, OwnRequest
<1>3. ServerTypeOK' /\ Listens' /\ OwnRequest' /\ UNCHANGED listening
  BY <1>1 DEF serverVars, ServerTypeOK, Listens, OwnRequest
<1>4. ClientTypeOK'
  BY <1>1, MishapType DEF ClientTypeOK
<1>5. BindTypeOK'
  BY <1>1, <1>2, AppendType DEF BindTypeOK
<1>6. PacketInv'
  <2>1. /\ Len(udp_packets') = Len(udp_packets) + 1 /\ Len(udp_packets) \in Nat
        /\ \A i \in 1..Len(udp_packets) : udp_packets'[i] = udp_packets[i]
        /\ udp_packets'[Len(udp_packets) + 1] = request[c]
    BY <1>1, <1>2 DEF BindTypeOK
  <2>2. \A i \in 1..Len(udp_packets') : i \in 1..Len(udp_packets) \/ i = Len(udp_packets) + 1
    BY <2>1
  <2>3. request[c].xid <= request[c].xid
    BY <1>2
  <2> QED
    BY <1>1, <1>2, <2>1, <2>2, <2>3 DEF PacketInv
<1> QED
  BY <1>1, <1>3, <1>4, <1>5, <1>6

LEMMA ClientEffect ==
  ASSUME TypeInv, PacketInv, Listens, NEW c \in Clients, Connect(c) \/ Leave(c) \/ Fail(c)
  PROVE  /\ TypeInv' /\ PacketInv' /\ Listens'
         /\ UNCHANGED <<listening, told, request, fresh>>
<1> USE DEF TypeInv
<1>1. /\ UNCHANGED <<vxi_port, listening, client, bindVars, turn, request, told, fresh>>
      /\ backlog' \in {backlog, Append(backlog, c)}
      /\ \E place \in Places : at' = [at EXCEPT ![c] = place]
      /\ UNCHANGED mishaps \/ Mishap
  BY DEF Connect, Leave, Fail, Goes, serverVars, Places
<1>2. backlog' \in Seq(Clients)
  BY <1>1, AppendType DEF ServerTypeOK
<1>3. ServerTypeOK' /\ Listens' /\ OwnRequest'
  BY <1>1, <1>2 DEF ServerTypeOK, Listens, OwnRequest
<1>4. at' \in [Clients -> Places] /\ mishaps' \in 0..MaxMishaps
  BY <1>1, MishapType DEF ClientTypeOK
<1>5. ClientTypeOK'
  BY <1>1, <1>4 DEF ClientTypeOK
<1>6. BindTypeOK' /\ PacketInv'
  BY <1>1 DEF bindVars, BindTypeOK, PacketInv
<1> QED
  BY <1>1, <1>3, <1>5, <1>6

-----------------------------------------------------------------------------
(* The theorems                                                            *)

\* A port once told is one of the range.
ToldInRange ==
  \A c \in Clients :
    told[c].status = "success" => told[c].port \in vxi_port.start..vxi_port.end

FreshListened ==
  \A c \in fresh : told[c].status = "success" => told[c].port = listening

Inv == TypeInv /\ PacketInv /\ Listens /\ ToldInRange /\ FreshListened /\ AnswersOwnRequest

LEMMA InvInit == Init => Inv
<1> SUFFICES ASSUME Init PROVE Inv
  OBVIOUS
<1>1. InRange(Cyclic(VXI_PORT_START, VXI_PORT_END, 0))
  BY VxiBindAssumption, CyclicBegins
<1>2. ServerTypeOK /\ Listens
  BY <1>1 DEF Init, ServerTypeOK, Listens, InRange
<1>3. NoRequest \in [from : Clients \cup {NoClient}, xid : Nat, call : Calls]
  BY DEF NoRequest, Calls
<1>4. BindTypeOK /\ PacketInv
  BY <1>3 DEF Init, BindTypeOK, PacketInv
<1>5. /\ \A c \in Clients : /\ [NoRequest EXCEPT !.from = c].from = c
                            /\ [NoRequest EXCEPT !.from = c]
                                 \in [from : Clients, xid : Nat, call : Calls]
  BY DEF NoRequest, Calls
<1>6. NotTold \in [status : Statuses \cup {"none"}, port : Nat, late : BOOLEAN]
      /\ NotTold.status = "none"
  BY DEF NotTold
<1>7. ClientTypeOK /\ OwnRequest
  BY <1>5, <1>6, VxiBindAssumption DEF Init, ClientTypeOK, OwnRequest, Places
<1>8. ToldInRange /\ FreshListened /\ AnswersOwnRequest
  BY <1>6 DEF Init, ToldInRange, FreshListened, AnswersOwnRequest
<1> QED
  BY <1>2, <1>4, <1>7, <1>8 DEF Init, Inv, TypeInv

LEMMA InvStep == Inv /\ [Next]_vars => Inv'
<1> SUFFICES ASSUME Inv, [Next]_vars PROVE Inv'
  OBVIOUS
<1> USE DEF Inv
<1>1. CASE Bind
  <2>1. TypeInv' /\ PacketInv' /\ ToldRight /\ UNCHANGED <<serverVars, request>>
    BY <1>1, BindEffect
  <2>2. UNCHANGED <<vxi_port, listening>> /\ Listens'
    BY <2>1 DEF serverVars, Listens
  <2>3. vxi_port.data \in vxi_port.start..vxi_port.end /\ fresh' \subseteq Clients
    BY <2>1 DEF TypeInv, ServerTypeOK, ClientTypeOK
  <2>4. ToldInRange'
    BY <2>1, <2>2, <2>3 DEF ToldRight, Right, ToldInRange
  <2>5. FreshListened'
    BY <2>1, <2>2, <2>3 DEF ToldRight, Right, FreshListened, Listens
  <2>6. AnswersOwnRequest'
    BY <2>1 DEF ToldRight, Right, AnswersOwnRequest
  <2> QED
    BY <2>1, <2>2, <2>4, <2>5, <2>6
<1>2. ASSUME TypeInv', PacketInv', Listens', UNCHANGED <<told, request>>,
             \/ UNCHANGED <<listening, fresh>>
             \/ fresh' = {}
      PROVE  Inv'
  <2>1. vxi_port'.start = vxi_port.start /\ vxi_port'.end = vxi_port.end
    BY <1>2 DEF TypeInv, ServerTypeOK
  <2>2. ToldInRange'
    BY <1>2, <2>1 DEF ToldInRange
  <2>3. FreshListened'
    BY <1>2 DEF FreshListened
  <2>4. AnswersOwnRequest'
    BY <1>2 DEF AnswersOwnRequest
  <2> QED
    BY <1>2, <2>2, <2>3, <2>4
<1>3. CASE Vxi
  BY <1>2, <1>3, VxiEffect
<1>4. CASE Http
  BY <1>2, <1>4, HttpEffect
<1>5. ASSUME NEW c \in Clients, Ask(c) PROVE Inv'
  <2>1. /\ TypeInv' /\ PacketInv' /\ Listens' /\ UNCHANGED listening
        /\ told'[c] = NotTold /\ fresh' = fresh \ {c}
        /\ \A d \in Clients \ {c} : told'[d] = told[d] /\ request'[d] = request[d]
    BY <1>5, AskEffect
  <2>2. vxi_port'.start = vxi_port.start /\ vxi_port'.end = vxi_port.end
    BY <2>1 DEF TypeInv, ServerTypeOK
  <2>3. NotTold.status = "none"
    BY DEF NotTold
  <2>4. fresh \subseteq Clients
    BY DEF TypeInv, ClientTypeOK
  <2>5. ToldInRange'
    BY <2>1, <2>2, <2>3 DEF ToldInRange
  <2>6. FreshListened'
    BY <2>1, <2>4 DEF FreshListened
  <2>7. AnswersOwnRequest'
    BY <2>1 DEF AnswersOwnRequest
  <2> QED
    BY <2>1, <2>5, <2>6, <2>7
<1>6. ASSUME NEW c \in Clients, AskAgain(c) PROVE Inv'
  BY <1>2, <1>6, AskAgainEffect
<1>7. ASSUME NEW c \in Clients, Connect(c) \/ Leave(c) \/ Fail(c) PROVE Inv'
  BY <1>2, <1>7, ClientEffect
<1>8. CASE VxiAborted \/ Held \/ UNCHANGED vars
  <2>0. UNCHANGED <<serverVars, bindVars, clientVars>> /\ turn' \in {turn, "held"}
    BY <1>8 DEF VxiAborted, Held, vars
  <2>1. TypeInv'
    BY <2>0 DEF serverVars, bindVars, clientVars, TypeInv, ServerTypeOK, BindTypeOK,
                ClientTypeOK, OwnRequest
  <2>2. PacketInv' /\ Listens'
    BY <2>0 DEF serverVars, bindVars, clientVars, PacketInv, Listens
  <2> QED
    BY <1>2, <2>0, <2>1, <2>2 DEF serverVars, clientVars
<1> QED
  BY <1>1, <1>3, <1>4, <1>5, <1>6, <1>7, <1>8 DEF Next

LEMMA InvHolds == Spec => []Inv
  BY InvInit, InvStep, PTL DEF Spec

\* Every variable has its type, and the port never leaves its range.
THEOREM BindTypeCorrect == Spec => []TypeOK
<1>1. Inv => TypeOK
  BY TypeInvGives DEF Inv
<1> QED
  BY <1>1, InvHolds, PTL

\* Whatever datagrams are lost, repeated or overtaken by others, what a client
\* takes for the answer to its bind request is the answer to it.
THEOREM BindAnswersAreOwn == Spec => []AnswersOwnRequest
<1>1. Inv => AnswersOwnRequest
  BY DEF Inv
<1> QED
  BY <1>1, InvHolds, PTL

\* Until a link ends the VXI server listens on the port a client was told; on
\* a range of one port, which is the default, always.
THEOREM ToldPortIsListened == Spec => []ToldPortListened
<1>1. Inv => ToldPortListened
  <2> SUFFICES ASSUME Inv, NEW c \in Clients, told[c].status = "success",
                      c \in fresh \/ VXI_PORT_START = VXI_PORT_END
               PROVE  told[c].port = listening
    BY DEF ToldPortListened
  <2>1. CASE c \in fresh
    BY <2>1 DEF Inv, FreshListened
  <2>2. CASE VXI_PORT_START = VXI_PORT_END
    <3>1. vxi_port.start = vxi_port.end
      BY <2>2 DEF Inv, TypeInv, ServerTypeOK, Cyclic
    <3>2. told[c].port \in vxi_port.start..vxi_port.end
      BY DEF Inv, ToldInRange
    <3>3. vxi_port.start \in Nat /\ vxi_port.data \in vxi_port.start..vxi_port.end
      BY DEF Inv, TypeInv, ServerTypeOK
    <3> QED
      BY <3>1, <3>2, <3>3 DEF Inv, Listens
  <2> QED
    BY <2>1, <2>2
<1> QED
  BY <1>1, InvHolds, PTL
=============================================================================
