----------------------------- MODULE VxiServer -----------------------------
(***************************************************************************)
(* VXI_Server: the VXI-11 core channel, on the one port that main.cpp      *)
(* gives it, for one client at a time.  It uses the parser of RidenScpi    *)
(* through SCPI_handler.                                                   *)
(*                                                                         *)
(* A VXI-11 client makes one call at a time, and creates a link before it  *)
(* writes or reads.                                                        *)
(***************************************************************************)
EXTENDS RidenScpi

CONSTANTS
  VxiConns,   \* connections to the VXI-11 server
  MaxWrites,  \* bound: DEV_WRITE calls a client makes
  DROPS       \* whether a client may go away without DESTROY_LINK

ASSUME VxiAssumption ==
  /\ VxiConns \cap RawConns = {}
  /\ NoConn \notin VxiConns
  /\ MaxWrites \in Nat
  /\ DROPS \in BOOLEAN

VARIABLES
  vxiClient,   \* VXI_Server::client
  vxiUsed,     \* VXI-11 connections made so far
  vxiOpen,     \* those that neither side has closed
  vxiBacklog,  \* connections not yet accepted
  request,     \* the call each client has sent and the server not yet read
  links,       \* clients that hold a link
  writes,      \* DEV_WRITE calls made by each client
  holder,      \* who created the link that control was claimed for (history)
  vxiOut       \* answers read by VXI-11 clients so far (history)

vxiVars == <<vxiClient, vxiUsed, vxiOpen, vxiBacklog, request, links, writes,
             holder, vxiOut>>

Procedures == {"create_link", "dev_write", "dev_read", "destroy_link"}

VxiInit ==
  /\ vxiClient = NoConn
  /\ vxiUsed = {}
  /\ vxiOpen = {}
  /\ vxiBacklog = <<>>
  /\ request = [v \in VxiConns |-> "none"]
  /\ links = {}
  /\ writes = [v \in VxiConns |-> 0]
  /\ holder = NoConn
  /\ vxiOut = <<>>

-----------------------------------------------------------------------------
(* The VXI-11 clients                                                      *)

VxiConnect(v) ==
  /\ v \notin vxiUsed
  /\ vxiUsed' = vxiUsed \cup {v}
  /\ vxiOpen' = vxiOpen \cup {v}
  /\ vxiBacklog' = Append(vxiBacklog, v)
  /\ UNCHANGED <<vxiClient, request, links, writes, holder, vxiOut>>

VxiCall(v, p) ==
  /\ v \in vxiOpen
  /\ request[v] = "none"
  /\ p = "create_link" <=> v \notin links
  /\ p = "dev_write" => writes[v] < MaxWrites
  /\ request' = [request EXCEPT ![v] = p]
  /\ UNCHANGED <<vxiClient, vxiUsed, vxiOpen, vxiBacklog, links, writes, holder, vxiOut>>

VxiClose(v) ==
  /\ v \in vxiOpen
  /\ DROPS \/ (v \notin links /\ request[v] = "none")
  /\ vxiOpen' = vxiOpen \ {v}
  /\ UNCHANGED <<vxiClient, vxiUsed, vxiBacklog, request, links, writes, holder, vxiOut>>

\* WiFiClient's operator bool: the peer is there, or something it sent.
VxiAlive(v) == v # NoConn /\ (v \in vxiOpen \/ request[v] # "none")

-----------------------------------------------------------------------------
(* VXI_Server::handle_packet                                               *)

\* claim_control() never fails, so the OUT_OF_RESOURCES reply is never sent.
create_link(v) ==
  /\ claim_external_control
  /\ holder' = v
  /\ links' = links \cup {v}
  /\ UNCHANGED <<external_output_ready, write_buffer, input, done, socketVars,
                 vxiClient, vxiOpen, writes, vxiOut>>

write(v) ==
  /\ writes' = [writes EXCEPT ![v] = @ + 1]
  /\ \/ \E answer \in BOOLEAN : Write(v, <<Piece(v, writes[v] + 1)>>, answer)
     \* Nothing but white space, or more than the buffer takes, which a client
     \* that keeps to the link's max_receive_size does not send.
     \/ WriteIgnored
  /\ UNCHANGED <<vxiClient, vxiOpen, links, holder, vxiOut>>

read(v) ==
  /\ Read
  /\ vxiOut' = vxiOut \o [i \in DOMAIN ReadResult |-> [to |-> v, answer |-> ReadResult[i]]]
  /\ UNCHANGED <<vxiClient, vxiOpen, links, writes, holder>>

\* begin_next on a port that is not cyclic: only the client is stopped.
begin_next(v) ==
  /\ vxiClient' = NoConn
  /\ vxiOpen' = vxiOpen \ {v}

destroy_link(v) ==
  /\ release_external_control
  /\ begin_next(v)
  /\ holder' = NoConn
  /\ links' = links \ {v}
  /\ UNCHANGED <<external_output_ready, write_buffer, input, done, socketVars,
                 writes, vxiOut>>

handle_packet(v) ==
  /\ \/ request[v] = "create_link" /\ create_link(v)
     \/ request[v] = "dev_write" /\ write(v)
     \/ request[v] = "dev_read" /\ read(v)
     \/ request[v] = "destroy_link" /\ destroy_link(v)
  /\ request' = [request EXCEPT ![v] = "none"]
  /\ UNCHANGED <<vxiUsed, vxiBacklog>>

-----------------------------------------------------------------------------
(* VXI_Server::loop                                                        *)

Accept ==
  /\ vxiClient' = IF vxiBacklog = <<>> THEN NoConn ELSE Head(vxiBacklog)
  /\ vxiBacklog' = IF vxiBacklog = <<>> THEN <<>> ELSE Tail(vxiBacklog)
  /\ UNCHANGED <<vxiUsed, vxiOpen, request, links, writes, holder, vxiOut>>

\* The server notices that the client is gone; nobody releases control.
Gone(v) ==
  /\ v \notin vxiOpen
  /\ begin_next(v)
  /\ request' = [request EXCEPT ![v] = "none"]
  /\ UNCHANGED <<vxiUsed, vxiBacklog, links, writes, holder, vxiOut>>

VxiLoop ==
  \/ /\ ~VxiAlive(vxiClient)
     /\ Accept
     /\ UNCHANGED <<parserVars, socketVars>>
  \/ /\ VxiAlive(vxiClient) /\ request[vxiClient] = "none"
     /\ UNCHANGED <<parserVars, socketVars, vxiVars>>
  \* Whether connected() still counts a call nobody has read is up to the
  \* library.
  \/ /\ VxiAlive(vxiClient) /\ request[vxiClient] # "none"
     /\ \/ handle_packet(vxiClient)
        \/ Gone(vxiClient) /\ UNCHANGED <<parserVars, socketVars>>

\* Mutant: the client is stopped and control is kept.
VxiDisconnectOnly ==
  /\ VxiAlive(vxiClient)
  /\ begin_next(vxiClient)
  /\ request' = [request EXCEPT ![vxiClient] = "none"]
  /\ links' = links \ {vxiClient}
  /\ UNCHANGED <<parserVars, socketVars, vxiUsed, vxiBacklog, writes, holder, vxiOut>>

\* VXI_Server::disconnect_client, for the web interface.
VxiDisconnect ==
  /\ VxiAlive(vxiClient)
  /\ begin_next(vxiClient)
  /\ release_external_control
  /\ holder' = NoConn
  /\ request' = [request EXCEPT ![vxiClient] = "none"]
  /\ links' = links \ {vxiClient}
  /\ UNCHANGED <<external_output_ready, write_buffer, input, done, socketVars,
                 vxiUsed, vxiBacklog, writes, vxiOut>>
=============================================================================
