------------------------- MODULE InstrumentServers -------------------------
(***************************************************************************)
(* The raw socket server, the VXI-11 server and the web interface's        *)
(* "disconnect", run one after the other by loop() in main.cpp, with their *)
(* clients connecting, sending and going away at any moment.               *)
(***************************************************************************)
EXTENDS VxiServer

VARIABLE turn  \* the part of loop() that is next

vars == <<parserVars, socketVars, vxiVars, turn>>

Init ==
  /\ ScpiInit
  /\ VxiInit
  /\ turn = "scpi_accept"

\* Under external control RidenScpi::loop returns after its first part.
ScpiAccept ==
  /\ turn = "scpi_accept"
  /\ LoopAccept
  /\ turn' = IF external_control THEN "vxi" ELSE "scpi_read"
  /\ UNCHANGED vxiVars

ScpiRead ==
  /\ turn = "scpi_read"
  /\ LoopRead
  /\ turn' = "scpi_reap"
  /\ UNCHANGED vxiVars

ScpiReap ==
  /\ turn = "scpi_reap"
  /\ LoopReap
  /\ turn' = "vxi"
  /\ UNCHANGED vxiVars

Vxi ==
  /\ turn = "vxi"
  /\ VxiLoop
  /\ turn' = "http"

\* RidenHttpServer::handle_disconnect_client_post, or nothing of interest.
Http ==
  /\ turn = "http"
  /\ \/ UNCHANGED <<parserVars, socketVars, vxiVars>>
     \/ RawDisconnect /\ UNCHANGED vxiVars
     \/ VxiDisconnect
  /\ turn' = "scpi_accept"

RawPeer ==
  /\ \E c \in RawConns :
       RawConnect(c) \/ RawClose(c) \/ \E nl \in BOOLEAN : RawSend(c, nl)
  /\ UNCHANGED <<vxiVars, turn>>

VxiPeer ==
  /\ \E v \in VxiConns :
       VxiConnect(v) \/ VxiClose(v) \/ \E p \in Procedures : VxiCall(v, p)
  /\ UNCHANGED <<parserVars, socketVars, turn>>

Next ==
  \/ ScpiAccept
  \/ ScpiRead
  \/ ScpiReap
  \/ Vxi
  \/ Http
  \/ RawPeer
  \/ VxiPeer

Spec == Init /\ [][Next]_vars

-----------------------------------------------------------------------------
(* Properties                                                              *)

Pieces == [conn : RawConns \cup VxiConns, ix : Nat]

\* All variables have their types, and what is in a buffer fits in it.
ParserTypeOK ==
  /\ external_control \in BOOLEAN
  /\ external_output_ready \in BOOLEAN
  /\ write_buffer \in Seq(Pieces)
  /\ input \in Seq(Pieces)
  /\ Len(input) <= INPUT_LENGTH
  /\ done \in Seq([by : RawConns \cup VxiConns, line : Seq(Pieces), answer : BOOLEAN])

SocketTypeOK ==
  /\ client \in rawUsed \cup {NoConn}
  /\ rawUsed \subseteq RawConns
  /\ rawOpen \subseteq rawUsed
  /\ rawBacklog \in Seq(rawUsed)
  /\ sent \in [RawConns -> Seq(BOOLEAN)]
  /\ got \in [RawConns -> Nat]
  /\ \A c \in RawConns : got[c] <= Len(sent[c])
  /\ rawOut \in Seq([to : RawConns, answer : Pieces])

VxiTypeOK ==
  /\ vxiClient \in vxiUsed \cup {NoConn}
  /\ vxiUsed \subseteq VxiConns
  /\ vxiOpen \subseteq vxiUsed
  /\ vxiBacklog \in Seq(vxiUsed)
  /\ request \in [VxiConns -> Procedures \cup {"none"}]
  /\ links \subseteq vxiUsed
  /\ writes \in [VxiConns -> 0..MaxWrites]
  /\ holder \in VxiConns \cup {NoConn}
  /\ vxiOut \in Seq([to : VxiConns, answer : Pieces])

TypeOK ==
  /\ ParserTypeOK
  /\ SocketTypeOK
  /\ VxiTypeOK
  /\ turn \in {"scpi_accept", "scpi_read", "scpi_reap", "vxi", "http"}

\* The parser executes for a raw client exactly the lines it sent, each from
\* its beginning to its newline: nothing of another client's line, and
\* nothing left behind by an earlier client or by a VXI-11 write.
WholeLine(line) ==
  LET c == line[1].conn
      k == line[1].ix
  IN  /\ \A i \in DOMAIN line :
           /\ line[i] = Piece(c, k + i - 1)
           /\ sent[c][k + i - 1] <=> i = Len(line)
      /\ k > 1 => sent[c][k - 1]

RawLinesIntact ==
  \A i \in DOMAIN done :
    done[i].by \in RawConns =>
      /\ WholeLine(done[i].line)
      /\ done[i].line[1].conn = done[i].by

\* A raw client receives answers to its own commands only, in the order of
\* its commands, each once.
RawGetsOwnAnswers ==
  \A i \in DOMAIN rawOut :
    /\ rawOut[i].answer.conn = rawOut[i].to
    /\ \A j \in 1..(i - 1) :
         rawOut[j].to = rawOut[i].to => rawOut[j].answer.ix < rawOut[i].answer.ix

\* While a VXI-11 client holds its link, every answer to a command it wrote is
\* either in the output buffer, ready to be read, or has been read by it.
\* (reset_buffers() of the raw server never takes it away.)
VxiAnswersKept ==
  \A i \in DOMAIN done :
    LET a == done[i].line[Len(done[i].line)]
    IN  (holder \in vxiOpen /\ done[i].by = holder /\ done[i].answer) =>
          \/ external_output_ready /\ \E k \in DOMAIN write_buffer : write_buffer[k] = a
          \/ \E j \in DOMAIN vxiOut : vxiOut[j] = [to |-> holder, answer |-> a]

\* Seen from outside, the parser is free or belongs to the last VXI-11 client
\* that created a link, and no raw line is executed while it does.
Access == INSTANCE InstrumentAccess WITH owner <- holder
ImplementsAccess == Access!Spec

\* Control is held only on behalf of a client that created a link and has
\* neither destroyed it nor been disconnected by the web interface.
ControlOnlyWithLink ==
  external_control => holder \in links

\* The raw socket server is disabled only "while you use the VXI server"
\* (README.md:73): external control lasts no longer than the server has for its
\* client the one that control was claimed for.  That this client may have
\* closed, and the server not yet looked, is allowed.
ControlFollowsClient ==
  external_control => vxiClient = holder

\* What a VXI-11 client reads is "the reaction to "write()"" (riden_scpi.cpp:718),
\* its own: an answer that nobody fetched goes to nobody else.
VxiReadsOwnAnswers ==
  \A i \in DOMAIN vxiOut : vxiOut[i].answer.conn = vxiOut[i].to
=============================================================================
