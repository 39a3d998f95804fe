---------------------- MODULE InstrumentServersProofs ----------------------
(***************************************************************************)
(* Proofs about InstrumentServers, for any number of connections, lines    *)
(* and calls, and any size of the input buffer.                            *)
(***************************************************************************)
EXTENDS InstrumentServers, TLAPS

-----------------------------------------------------------------------------
(* Sequences                                                               *)

LEMMA WiderSeq ==
  ASSUME NEW S, NEW T, S \subseteq T, NEW s \in Seq(S)
  PROVE  s \in Seq(T)
  OBVIOUS

LEMMA AppendSeq ==
  ASSUME NEW S, NEW s \in Seq(S), NEW e \in S
  PROVE  /\ Append(s, e) \in Seq(S)
         /\ Len(Append(s, e)) = Len(s) + 1
         /\ \A i \in 1..Len(s) : Append(s, e)[i] = s[i]
         /\ Append(s, e)[Len(s) + 1] = e
  OBVIOUS

LEMMA ConcatSeq ==
  ASSUME NEW S, NEW s \in Seq(S), NEW t \in Seq(S)
  PROVE  /\ s \o t \in Seq(S)
         /\ Len(s \o t) = Len(s) + Len(t)
         /\ \A i \in 1..Len(s) : (s \o t)[i] = s[i]
         /\ \A i \in 1..Len(t) : (s \o t)[Len(s) + i] = t[i]
  OBVIOUS

LEMMA NoSeq ==
  \A S : <<>> \in Seq(S) /\ Len(<<>>) = 0
  OBVIOUS

LEMMA HeadTailSeq ==
  ASSUME NEW S, NEW s \in Seq(S), s # <<>>
  PROVE  /\ Head(s) \in S
         /\ Head(s) = s[1]
         /\ Tail(s) \in Seq(S)
         /\ Len(Tail(s)) = Len(s) - 1
         /\ \A i \in 1..(Len(s) - 1) : Tail(s)[i] = s[i + 1]
  OBVIOUS

\* What the buffer holds after pieces up to the k-th have been read.
LEMMA BufferedSeq ==
  ASSUME NEW c \in RawConns, NEW k \in Unread(c), ParserTypeOK, SocketTypeOK
  PROVE  /\ Buffered(c, k) \in Seq(Pieces)
         /\ Len(Buffered(c, k)) = Len(input) + (k - got[c])
         /\ \A i \in 1..Len(input) : Buffered(c, k)[i] = input[i]
         /\ \A i \in 1..(k - got[c]) :
              Buffered(c, k)[Len(input) + i] = Piece(c, got[c] + i)
<1> DEFINE taken == [i \in 1..(k - got[c]) |-> Piece(c, got[c] + i)]
<1>1. k \in Nat /\ got[c] \in Nat /\ k - got[c] \in Nat
  BY DEF Unread, SocketTypeOK
<1>2. \A i \in 1..(k - got[c]) : Piece(c, got[c] + i) \in Pieces
  BY <1>1 DEF Piece, Pieces
<1>3. taken \in Seq(Pieces) /\ Len(taken) = k - got[c]
  BY <1>1, <1>2
<1>4. \A i \in 1..(k - got[c]) : taken[i] = Piece(c, got[c] + i)
  OBVIOUS
<1> HIDE DEF taken
<1>5. input \in Seq(Pieces)
  BY DEF ParserTypeOK
<1>6. Buffered(c, k) = input \o taken
  BY DEF Buffered, taken
<1> QED
  BY <1>3, <1>4, <1>5, <1>6, ConcatSeq

-----------------------------------------------------------------------------
(* Types                                                                   *)

\* A client whose DEV_WRITE is waiting has not used up its writes.
TypeInv ==
  /\ TypeOK
  /\ \A v \in VxiConns : request[v] = "dev_write" => writes[v] < MaxWrites

LEMMA ExecuteTypes ==
  ASSUME ParserTypeOK,
         NEW who \in RawConns \cup VxiConns, NEW line \in Seq(Pieces),
         NEW answer \in BOOLEAN,
         Execute(who, line, answer)
  PROVE  /\ input' = <<>>
         /\ input' \in Seq(Pieces)
         /\ Len(input') <= INPUT_LENGTH
         /\ done' \in Seq([by : RawConns \cup VxiConns, line : Seq(Pieces), answer : BOOLEAN])
<1> DEFINE Executed == [by : RawConns \cup VxiConns, line : Seq(Pieces), answer : BOOLEAN]
           rec == [by |-> who, line |-> line, answer |-> answer]
<1>1. rec \in Executed
  OBVIOUS
<1>2. done \in Seq(Executed)
  BY DEF ParserTypeOK
<1>3. done' = Append(done, rec)
  BY DEF Execute
<1> HIDE DEF Executed, rec
<1>4. done' \in Seq(Executed)
  BY <1>1, <1>2, <1>3, AppendSeq
<1> QED
  BY <1>4, ScpiAssumption DEF Execute, Executed

\* What follows an answer of the client, or of the VXI-11 client in control.
LEMMA OutputHeldTypes ==
  ASSUME ParserTypeOK, NEW a \in Pieces, OutputHeld(a)
  PROVE  write_buffer' \in Seq(Pieces) /\ external_output_ready' \in BOOLEAN
  BY AppendSeq DEF ParserTypeOK, OutputHeld

LEMMA OutputSentTypes ==
  ASSUME ParserTypeOK, SocketTypeOK, NEW a \in Pieces, client # NoConn, OutputSent(a)
  PROVE  /\ write_buffer' \in Seq(Pieces)
         /\ external_output_ready' \in BOOLEAN
         /\ rawOut' \in Seq([to : RawConns, answer : Pieces])
<1> DEFINE out == Append(write_buffer, a)
           Delivery == [to : RawConns, answer : Pieces]
           delivered == [i \in DOMAIN out |-> [to |-> client, answer |-> out[i]]]
<1>1. out \in Seq(Pieces)
  BY AppendSeq DEF ParserTypeOK
<1>2. client \in RawConns
  BY DEF SocketTypeOK
<1>3. delivered \in Seq(Delivery)
  <2> HIDE DEF out
  <2>1. DOMAIN out = 1..Len(out) /\ Len(out) \in Nat
    BY <1>1
  <2>2. \A i \in DOMAIN out : [to |-> client, answer |-> out[i]] \in Delivery
    BY <1>1, <1>2
  <2> QED
    BY <2>1, <2>2
<1>4. rawOut \in Seq(Delivery)
  BY DEF SocketTypeOK
<1>5. rawOut \o delivered \in Seq(Delivery)
  <2> HIDE DEF delivered, Delivery
  <2> QED BY <1>3, <1>4, ConcatSeq
<1>6. external_output_ready' = FALSE
  BY DEF OutputSent
<1>7. \/ write_buffer' = <<>> /\ rawOut' = rawOut \o delivered
      \/ write_buffer' = out /\ rawOut' = rawOut
  BY DEF OutputSent
<1> HIDE DEF out, delivered, Delivery
<1>8. write_buffer' \in Seq(Pieces)
  <2>1. write_buffer' \in {<<>>, out}
    BY <1>7
  <2> QED
    BY <1>1, <2>1, NoSeq
<1>9. rawOut' \in Seq(Delivery)
  BY <1>4, <1>5, <1>7
<1> QED
  BY <1>6, <1>8, <1>9 DEF Delivery

LEMMA StopTypes ==
  ASSUME SocketTypeOK, NEW c, Stop(c),
         UNCHANGED <<rawUsed, rawBacklog, sent, got, rawOut>>
  PROVE  SocketTypeOK'
  BY DEF SocketTypeOK, Stop

LEMMA LoopAcceptTypes ==
  ASSUME ParserTypeOK, SocketTypeOK, LoopAccept
  PROVE  ParserTypeOK' /\ SocketTypeOK'
<1>1. CASE UNCHANGED <<parserVars, socketVars>>
  BY <1>1 DEF ParserTypeOK, SocketTypeOK, parserVars, socketVars
<1>2. CASE ~external_control /\ rawBacklog # <<>>
  <2>1. Head(rawBacklog) \in rawUsed /\ Tail(rawBacklog) \in Seq(rawUsed)
    BY <1>2, HeadTailSeq DEF SocketTypeOK
  <2>2. /\ rawBacklog' = Tail(rawBacklog)
        /\ client' \in {client, Head(rawBacklog)}
        /\ rawOpen' \subseteq rawOpen
        /\ \/ UNCHANGED <<write_buffer, input>>
           \/ write_buffer' = <<>> /\ input' = <<>>
        /\ UNCHANGED <<external_control, external_output_ready, done, rawUsed, sent,
                       got, rawOut>>
    BY <1>2 DEF LoopAccept, AcceptClient, reset_buffers
  <2>3. ParserTypeOK'
    <3>1. write_buffer' \in {write_buffer, <<>>} /\ input' \in {input, <<>>}
      BY <2>2
    <3>2. write_buffer' \in Seq(Pieces)
      BY <3>1, NoSeq DEF ParserTypeOK
    <3>3. input' \in Seq(Pieces) /\ Len(input') <= INPUT_LENGTH
      <4>1. input \in Seq(Pieces) /\ Len(input) <= INPUT_LENGTH
        BY DEF ParserTypeOK
      <4>2. <<>> \in Seq(Pieces) /\ Len(<<>>) <= INPUT_LENGTH
        BY NoSeq, ScpiAssumption
      <4> QED
        BY <3>1, <4>1, <4>2
    <3> QED
      BY <2>2, <3>2, <3>3 DEF ParserTypeOK
  <2>4. SocketTypeOK'
    BY <2>1, <2>2 DEF SocketTypeOK
  <2> QED
    BY <2>3, <2>4
<1>3. CASE external_control /\ Stop(client)
           /\ UNCHANGED <<parserVars, rawUsed, rawBacklog, sent, got, rawOut>>
  BY <1>3, StopTypes DEF ParserTypeOK, parserVars
<1> QED
  BY <1>1, <1>2, <1>3 DEF LoopAccept, AcceptClient, ParserTypeOK, parserVars, socketVars

\* One round of reading.
LEMMA ReadClientTypes ==
  ASSUME ParserTypeOK, SocketTypeOK, client # NoConn,
         NEW k \in Unread(client), ReadsUpTo(client, k), ReadClient(client, k)
  PROVE  ParserTypeOK' /\ SocketTypeOK'
<1> DEFINE c == client
           Delivery == [to : RawConns, answer : Pieces]
<1>0. c \in RawConns /\ k \in Nat /\ k <= Len(sent[c])
  BY DEF SocketTypeOK, Unread
<1>1. Buffered(c, k) \in Seq(Pieces)
  BY <1>0, BufferedSeq
<1>2. Piece(c, k) \in Pieces
  BY <1>0 DEF Piece, Pieces
<1>3. CASE ~Fits(c, k) /\ input' = <<>> /\ Stop(c)
           /\ UNCHANGED <<external_control, external_output_ready, write_buffer, done,
                          rawUsed, rawBacklog, sent, got, rawOut>>
  <2>1. SocketTypeOK'
    BY <1>3, StopTypes
  <2>2. input' \in Seq(Pieces) /\ Len(input') <= INPUT_LENGTH
    BY <1>3, NoSeq, ScpiAssumption
  <2>3. ParserTypeOK'
    BY <1>3, <2>2 DEF ParserTypeOK
  <2> QED
    BY <2>1, <2>3
<1>4. ASSUME Fits(c, k), got' = [got EXCEPT ![c] = k],
             UNCHANGED <<external_control, client, rawOpen, rawUsed, rawBacklog, sent>>,
             rawOut' \in Seq(Delivery),
             write_buffer' \in Seq(Pieces), external_output_ready' \in BOOLEAN,
             input' \in Seq(Pieces), Len(input') <= INPUT_LENGTH,
             done' \in Seq([by : RawConns \cup VxiConns, line : Seq(Pieces),
                           answer : BOOLEAN])
      PROVE  ParserTypeOK' /\ SocketTypeOK'
  <2>1. got' \in [RawConns -> Nat] /\ \A d \in RawConns : got'[d] <= Len(sent'[d])
    BY <1>0, <1>4 DEF SocketTypeOK
  <2>2. ParserTypeOK'
    BY <1>4 DEF ParserTypeOK
  <2> QED
    BY <1>4, <2>1, <2>2 DEF SocketTypeOK
<1>5. CASE /\ Fits(c, k) /\ got' = [got EXCEPT ![c] = k]
           /\ UNCHANGED <<external_control, client, rawOpen, rawUsed, rawBacklog, sent>>
           /\ input' = Buffered(c, k)
           /\ UNCHANGED <<external_output_ready, write_buffer, done, rawOut>>
  <2>1. input' \in Seq(Pieces) /\ Len(input') <= INPUT_LENGTH
    BY <1>1, <1>5 DEF Fits
  <2>2. rawOut' \in Seq(Delivery)
    BY <1>5 DEF SocketTypeOK
  <2> QED
    BY <1>4, <1>5, <2>1, <2>2 DEF ParserTypeOK
<1>6. CASE /\ Fits(c, k) /\ got' = [got EXCEPT ![c] = k]
           /\ UNCHANGED <<external_control, client, rawOpen, rawUsed, rawBacklog, sent>>
           /\ \E answer \in BOOLEAN :
                /\ Execute(c, Buffered(c, k), answer)
                /\ \/ OutputSent(Piece(c, k))
                   \/ UNCHANGED <<external_output_ready, write_buffer, rawOut>>
  <2>1. PICK answer \in BOOLEAN :
          /\ Execute(c, Buffered(c, k), answer)
          /\ \/ OutputSent(Piece(c, k))
             \/ UNCHANGED <<external_output_ready, write_buffer, rawOut>>
    BY <1>6
  <2>2. /\ input' \in Seq(Pieces)
        /\ Len(input') <= INPUT_LENGTH
        /\ done' \in Seq([by : RawConns \cup VxiConns, line : Seq(Pieces),
                          answer : BOOLEAN])
    BY <1>0, <1>1, <2>1, ExecuteTypes
  <2>3. /\ write_buffer' \in Seq(Pieces)
        /\ external_output_ready' \in BOOLEAN
        /\ rawOut' \in Seq(Delivery)
    BY <1>2, <2>1, OutputSentTypes DEF ParserTypeOK, SocketTypeOK
  <2> QED
    BY <1>4, <1>6, <2>2, <2>3
<1> HIDE DEF c
<1>7. /\ UNCHANGED <<external_control, rawUsed, rawBacklog, sent>>
      /\ \/ /\ ~Fits(c, k) /\ input' = <<>> /\ Stop(c)
            /\ UNCHANGED <<got, external_output_ready, write_buffer, done, rawOut>>
         \/ /\ Fits(c, k) /\ got' = [got EXCEPT ![c] = k]
            /\ UNCHANGED <<client, rawOpen>>
            /\ \/ /\ input' = Buffered(c, k)
                  /\ UNCHANGED <<external_output_ready, write_buffer, done, rawOut>>
               \/ \E answer \in BOOLEAN :
                    /\ Execute(c, Buffered(c, k), answer)
                    /\ \/ OutputSent(Piece(c, k))
                       \/ UNCHANGED <<external_output_ready, write_buffer, rawOut>>
  BY Zenon DEF ReadClient, c
<1> QED
  BY <1>3, <1>5, <1>6, <1>7

LEMMA LoopReadTypes ==
  ASSUME ParserTypeOK, SocketTypeOK, LoopRead
  PROVE  ParserTypeOK' /\ SocketTypeOK'
<1>1. CASE UNCHANGED <<parserVars, socketVars>>
  BY <1>1 DEF ParserTypeOK, SocketTypeOK, parserVars, socketVars
<1>2. CASE client # NoConn
           /\ \E k \in Unread(client) : ReadsUpTo(client, k) /\ ReadClient(client, k)
  BY <1>2, ReadClientTypes
<1> QED
  BY <1>1, <1>2 DEF LoopRead

LEMMA LoopReapTypes ==
  ASSUME ParserTypeOK, SocketTypeOK, LoopReap
  PROVE  ParserTypeOK' /\ SocketTypeOK'
  BY StopTypes DEF LoopReap, ParserTypeOK, SocketTypeOK, parserVars

LEMMA RawDisconnectTypes ==
  ASSUME ParserTypeOK, SocketTypeOK, RawDisconnect
  PROVE  ParserTypeOK' /\ SocketTypeOK'
  BY StopTypes DEF RawDisconnect, ParserTypeOK, parserVars

LEMMA RawPeerTypes ==
  ASSUME ParserTypeOK, SocketTypeOK, RawPeer
  PROVE  ParserTypeOK' /\ SocketTypeOK'
<1>1. PICK c \in RawConns :
        RawConnect(c) \/ RawClose(c) \/ \E nl \in BOOLEAN : RawSend(c, nl)
  BY DEF RawPeer
<1>2. UNCHANGED parserVars /\ ParserTypeOK'
  BY <1>1 DEF RawConnect, RawClose, RawSend, ParserTypeOK, parserVars
<1>3. CASE RawConnect(c)
  <2>1. rawBacklog' \in Seq(rawUsed')
    <3>1. rawBacklog \in Seq(rawUsed') /\ c \in rawUsed'
      BY <1>3, WiderSeq DEF RawConnect, SocketTypeOK
    <3> QED
      BY <1>3, <3>1, AppendSeq DEF RawConnect
  <2> QED
    BY <1>2, <1>3, <2>1 DEF RawConnect, SocketTypeOK
<1>4. CASE RawClose(c)
  BY <1>2, <1>4 DEF RawClose, SocketTypeOK
<1>5. ASSUME NEW nl \in BOOLEAN, RawSend(c, nl)
      PROVE  SocketTypeOK'
  <2>1. Append(sent[c], nl) \in Seq(BOOLEAN)
        /\ Len(Append(sent[c], nl)) = Len(sent[c]) + 1
    BY AppendSeq DEF SocketTypeOK
  <2>2. sent' = [sent EXCEPT ![c] = Append(sent[c], nl)]
    BY <1>5 DEF RawSend
  <2>3. sent' \in [RawConns -> Seq(BOOLEAN)]
    BY <2>1, <2>2 DEF SocketTypeOK
  <2>4. \A d \in RawConns : got[d] <= Len(sent'[d])
    <3> SUFFICES ASSUME NEW d \in RawConns PROVE got[d] <= Len(sent'[d])
      OBVIOUS
    <3>1. got[d] <= Len(sent[d]) /\ got[d] \in Nat /\ Len(sent[d]) \in Nat
      BY DEF SocketTypeOK
    <3> QED
      BY <2>1, <2>2, <3>1 DEF SocketTypeOK
  <2> QED
    BY <1>5, <2>3, <2>4 DEF RawSend, SocketTypeOK
<1> QED
  BY <1>1, <1>2, <1>3, <1>4, <1>5

\* What the server's procedures do to its own state and to the parser.
LEMMA HandlePacketTypes ==
  ASSUME TypeInv, NEW v \in VxiConns, v \in vxiUsed, handle_packet(v)
  PROVE  /\ ParserTypeOK' /\ SocketTypeOK' /\ VxiTypeOK'
         /\ \A u \in VxiConns : request'[u] = "dev_write" => writes'[u] < MaxWrites
<1> USE DEF TypeInv, TypeOK
<1>1. /\ request' = [request EXCEPT ![v] = "none"]
      /\ UNCHANGED <<vxiUsed, vxiBacklog>>
  BY DEF handle_packet
<1>2. /\ request' \in [VxiConns -> Procedures \cup {"none"}]
      /\ request'[v] = "none"
      /\ \A u \in VxiConns \ {v} : request'[u] = request[u]
  BY <1>1 DEF VxiTypeOK
<1>3. CASE request[v] = "create_link" /\ create_link(v)
  <2>1. ParserTypeOK' /\ SocketTypeOK'
    BY <1>3 DEF create_link, claim_external_control, ParserTypeOK, SocketTypeOK, socketVars
  <2>2. VxiTypeOK'
    BY <1>1, <1>2, <1>3 DEF create_link, VxiTypeOK
  <2> QED
    BY <1>2, <1>3, <2>1, <2>2 DEF create_link
<1>4. CASE request[v] = "dev_write" /\ write(v)
  <2>1. writes[v] \in 0..MaxWrites /\ writes[v] < MaxWrites
    BY <1>4 DEF VxiTypeOK
  <2>2. writes' = [writes EXCEPT ![v] = writes[v] + 1]
    BY <1>4 DEF write, WriteIgnored
  <2>3. writes' \in [VxiConns -> 0..MaxWrites]
    BY <2>1, <2>2, VxiAssumption DEF VxiTypeOK
  <2>4. VxiTypeOK'
    BY <1>1, <1>2, <1>4, <2>3 DEF write, VxiTypeOK
  <2>5. \A u \in VxiConns : request'[u] = "dev_write" => writes'[u] < MaxWrites
    BY <1>2, <2>2 DEF VxiTypeOK
  <2>6. ASSUME NEW answer \in BOOLEAN,
               Write(v, <<Piece(v, writes[v] + 1)>>, answer)
        PROVE  ParserTypeOK' /\ SocketTypeOK'
    <3> DEFINE p == Piece(v, writes[v] + 1)
    <3>1. p \in Pieces
      BY <2>1 DEF Piece, Pieces
    <3> HIDE DEF p
    <3>2. <<p>> \in Seq(Pieces) /\ <<p>>[Len(<<p>>)] = p
      BY <3>1
    <3>3. /\ input' \in Seq(Pieces)
          /\ Len(input') <= INPUT_LENGTH
          /\ done' \in Seq([by : RawConns \cup VxiConns, line : Seq(Pieces),
                            answer : BOOLEAN])
      <4>1. Execute(v, <<p>>, answer)
        BY <2>6 DEF Write, p
      <4> QED
        BY <3>2, <4>1, ExecuteTypes
    <3>4. write_buffer' \in Seq(Pieces) /\ external_output_ready' \in BOOLEAN
      <4>1. CASE answer = TRUE
        <5>1. OutputHeld(p)
          BY <2>6, <3>2, <4>1 DEF Write, p
        <5> QED
          BY <3>1, <5>1, OutputHeldTypes
      <4>2. CASE answer = FALSE
        BY <2>6, <4>2 DEF Write, ParserTypeOK
      <4> QED
        BY <4>1, <4>2
    <3>5. external_control' = TRUE /\ UNCHANGED socketVars
      BY <2>6 DEF Write
    <3>6. SocketTypeOK'
      BY <3>5 DEF SocketTypeOK, socketVars
    <3> QED
      BY <3>3, <3>4, <3>5, <3>6 DEF ParserTypeOK
  <2>7. CASE UNCHANGED <<parserVars, socketVars>>
    BY <2>4, <2>5, <2>7 DEF ParserTypeOK, SocketTypeOK, parserVars, socketVars
  <2> QED
    BY <1>4, <2>4, <2>5, <2>6, <2>7 DEF write, WriteIgnored
<1>5. CASE request[v] = "dev_read" /\ read(v)
  <2> DEFINE Delivery == [to : VxiConns, answer : Pieces]
             fetched == [i \in DOMAIN ReadResult |-> [to |-> v, answer |-> ReadResult[i]]]
  <2>1. ReadResult \in Seq(Pieces)
    <3>1. ReadResult \in {write_buffer, <<>>}
      BY DEF ReadResult
    <3> QED
      BY <3>1, NoSeq DEF ParserTypeOK
  <2>2. fetched \in Seq(Delivery)
    <3>1. DOMAIN ReadResult = 1..Len(ReadResult) /\ Len(ReadResult) \in Nat
      BY <2>1
    <3>2. \A i \in DOMAIN ReadResult : [to |-> v, answer |-> ReadResult[i]] \in Delivery
      BY <2>1
    <3> QED
      BY <3>1, <3>2
  <2>3. vxiOut' \in Seq(Delivery)
    <3>1. vxiOut' = vxiOut \o fetched /\ vxiOut \in Seq(Delivery)
      BY <1>5 DEF read, VxiTypeOK
    <3> HIDE DEF fetched, Delivery
    <3> QED
      BY <2>2, <3>1, ConcatSeq
  <2>4. VxiTypeOK'
    BY <1>1, <1>2, <1>5, <2>3 DEF read, VxiTypeOK
  <2>5. ParserTypeOK' /\ SocketTypeOK'
    <3>1. write_buffer' \in {write_buffer, <<>>}
      BY <1>5 DEF read, Read
    <3>2. write_buffer' \in Seq(Pieces)
      BY <3>1, NoSeq DEF ParserTypeOK
    <3> QED
      BY <1>5, <3>2 DEF read, Read, ParserTypeOK, SocketTypeOK, socketVars
  <2> QED
    BY <1>2, <1>5, <2>4, <2>5 DEF read
<1>6. CASE request[v] = "destroy_link" /\ destroy_link(v)
  <2>1. ParserTypeOK' /\ SocketTypeOK'
    BY <1>6 DEF destroy_link, release_external_control, ParserTypeOK, SocketTypeOK, socketVars
  <2>2. VxiTypeOK'
    BY <1>1, <1>2, <1>6 DEF destroy_link, begin_next, VxiTypeOK
  <2> QED
    BY <1>2, <1>6, <2>1, <2>2 DEF destroy_link
<1> QED
  BY <1>3, <1>4, <1>5, <1>6 DEF handle_packet

LEMMA VxiLoopTypes ==
  ASSUME TypeInv, VxiLoop
  PROVE  /\ ParserTypeOK' /\ SocketTypeOK' /\ VxiTypeOK'
         /\ \A u \in VxiConns : request'[u] = "dev_write" => writes'[u] < MaxWrites
<1> USE DEF TypeInv, TypeOK
<1>1. CASE UNCHANGED <<parserVars, socketVars>>
           /\ (Accept \/ UNCHANGED vxiVars \/ (VxiAlive(vxiClient) /\ Gone(vxiClient)))
  <2>1. ParserTypeOK' /\ SocketTypeOK'
    BY <1>1 DEF ParserTypeOK, SocketTypeOK, parserVars, socketVars
  <2>2. CASE UNCHANGED vxiVars
    BY <2>1, <2>2 DEF VxiTypeOK, vxiVars
  <2>3. CASE Accept
    <3>1. vxiBacklog # <<>> => /\ Head(vxiBacklog) \in vxiUsed
                              /\ Tail(vxiBacklog) \in Seq(vxiUsed)
      BY HeadTailSeq DEF VxiTypeOK
    <3>2. /\ vxiClient' \in vxiUsed \cup {NoConn}
          /\ vxiBacklog' \in Seq(vxiUsed)
      BY <2>3, <3>1, NoSeq DEF Accept, VxiTypeOK
    <3> QED
      BY <2>1, <2>3, <3>2 DEF Accept, VxiTypeOK
  <2>4. CASE VxiAlive(vxiClient) /\ Gone(vxiClient)
    <3>1. vxiClient \in VxiConns
      BY <2>4 DEF VxiAlive, VxiTypeOK
    <3> QED
      BY <2>1, <2>4, <3>1 DEF Gone, begin_next, VxiTypeOK
  <2> QED
    BY <1>1, <2>2, <2>3, <2>4
<1>2. CASE VxiAlive(vxiClient) /\ request[vxiClient] # "none" /\ handle_packet(vxiClient)
  BY <1>2, HandlePacketTypes DEF VxiAlive, VxiTypeOK
<1> QED
  BY <1>1, <1>2 DEF VxiLoop

LEMMA VxiDisconnectTypes ==
  ASSUME TypeInv, VxiDisconnect
  PROVE  /\ ParserTypeOK' /\ SocketTypeOK' /\ VxiTypeOK'
         /\ \A u \in VxiConns : request'[u] = "dev_write" => writes'[u] < MaxWrites
<1> USE DEF TypeInv, TypeOK
<1>1. ParserTypeOK' /\ SocketTypeOK'
  BY DEF VxiDisconnect, release_external_control, ParserTypeOK, SocketTypeOK, socketVars
<1>2. VxiTypeOK'
  BY DEF VxiDisconnect, begin_next, VxiTypeOK
<1> QED
  BY <1>1, <1>2 DEF VxiDisconnect, VxiTypeOK

LEMMA VxiPeerTypes ==
  ASSUME TypeInv, VxiPeer
  PROVE  TypeInv'
<1> USE DEF TypeInv, TypeOK
<1>1. ParserTypeOK' /\ SocketTypeOK' /\ turn' = turn
  BY DEF VxiPeer, ParserTypeOK, SocketTypeOK, parserVars, socketVars
<1>2. PICK v \in VxiConns :
        VxiConnect(v) \/ VxiClose(v) \/ \E p \in Procedures : VxiCall(v, p)
  BY DEF VxiPeer
<1>3. CASE VxiConnect(v)
  <2>1. vxiBacklog' \in Seq(vxiUsed')
    <3>1. vxiBacklog \in Seq(vxiUsed') /\ v \in vxiUsed'
      BY <1>3, WiderSeq DEF VxiConnect, VxiTypeOK
    <3> QED
      BY <1>3, <3>1, AppendSeq DEF VxiConnect
  <2>2. VxiTypeOK'
    BY <1>3, <2>1 DEF VxiConnect, VxiTypeOK
  <2> QED
    BY <1>1, <1>3, <2>2 DEF VxiConnect
<1>4. CASE VxiClose(v)
  BY <1>1, <1>4 DEF VxiClose, VxiTypeOK
<1>5. ASSUME NEW p \in Procedures, VxiCall(v, p)
      PROVE  TypeInv'
  BY <1>1, <1>5 DEF VxiCall, VxiTypeOK
<1> QED
  BY <1>2, <1>3, <1>4, <1>5

\* TypeOK and its strengthening are inductive.
LEMMA TypeInvHolds == Spec => []TypeInv
<1>1. Init => TypeInv
  <2> SUFFICES ASSUME Init PROVE TypeInv
    OBVIOUS
  <2> USE DEF Init
  <2>1. ParserTypeOK
    <3>1. /\ external_control = FALSE /\ external_output_ready = FALSE
          /\ write_buffer = <<>> /\ input = <<>> /\ done = <<>>
      BY DEF ScpiInit
    <3>2. Len(input) <= INPUT_LENGTH
      BY <3>1, NoSeq, ScpiAssumption
    <3> QED
      BY <3>1, <3>2, NoSeq DEF ParserTypeOK
  <2>2. SocketTypeOK
    <3>1. sent \in [RawConns -> Seq(BOOLEAN)] /\ got \in [RawConns -> Nat]
      BY NoSeq DEF ScpiInit
    <3>2. \A c \in RawConns : got[c] <= Len(sent[c])
      <4> SUFFICES ASSUME NEW c \in RawConns PROVE got[c] <= Len(sent[c])
        OBVIOUS
      <4>1. got[c] = 0 /\ sent[c] = <<>>
        BY DEF ScpiInit
      <4>2. Len(sent[c]) = 0
        BY <4>1, NoSeq
      <4> QED
        BY <4>1, <4>2
    <3> QED
      BY <3>1, <3>2, NoSeq DEF ScpiInit, SocketTypeOK
  <2>3. VxiTypeOK
    BY NoSeq, VxiAssumption DEF VxiInit, VxiTypeOK
  <2>4. \A v \in VxiConns : request[v] # "dev_write"
    BY DEF VxiInit
  <2> QED
    BY <2>1, <2>2, <2>3, <2>4 DEF TypeInv, TypeOK
<1>2. TypeInv /\ [Next]_vars => TypeInv'
  <2> SUFFICES ASSUME TypeInv, [Next]_vars
               PROVE  TypeInv'
    OBVIOUS
  <2>1. ASSUME UNCHANGED vxiVars, ParserTypeOK', SocketTypeOK',
               turn' \in {"scpi_accept", "scpi_read", "scpi_reap", "vxi", "http"}
        PROVE  TypeInv'
    BY <2>1 DEF TypeInv, TypeOK, VxiTypeOK, vxiVars
  <2>2. CASE ScpiAccept
    BY <2>1, <2>2, LoopAcceptTypes DEF ScpiAccept, TypeInv, TypeOK
  <2>3. CASE ScpiRead
    BY <2>1, <2>3, LoopReadTypes DEF ScpiRead, TypeInv, TypeOK
  <2>4. CASE ScpiReap
    BY <2>1, <2>4, LoopReapTypes DEF ScpiReap, TypeInv, TypeOK
  <2>5. CASE Vxi
    <3>1. VxiLoop /\ turn' = "http"
      BY <2>5 DEF Vxi
    <3> QED
      BY <3>1, VxiLoopTypes DEF TypeInv, TypeOK
  <2>6. CASE Http
    <3>1. turn' = "scpi_accept"
      BY <2>6 DEF Http
    <3>2. CASE UNCHANGED <<parserVars, socketVars, vxiVars>>
      BY <2>1, <3>1, <3>2
         DEF TypeInv, TypeOK, ParserTypeOK, SocketTypeOK, parserVars, socketVars
    <3>3. CASE RawDisconnect /\ UNCHANGED vxiVars
      BY <2>1, <3>1, <3>3, RawDisconnectTypes DEF TypeInv, TypeOK
    <3>4. CASE VxiDisconnect
      BY <3>1, <3>4, VxiDisconnectTypes DEF TypeInv, TypeOK
    <3> QED
      BY <2>6, <3>2, <3>3, <3>4 DEF Http
  <2>7. CASE RawPeer
    BY <2>1, <2>7, RawPeerTypes DEF RawPeer, TypeInv, TypeOK
  <2>8. CASE VxiPeer
    BY <2>8, VxiPeerTypes
  <2>9. CASE UNCHANGED vars
    BY <2>1, <2>9
       DEF vars, TypeInv, TypeOK, ParserTypeOK, SocketTypeOK, parserVars, socketVars
  <2> QED
    BY <2>2, <2>3, <2>4, <2>5, <2>6, <2>7, <2>8, <2>9 DEF Next
<1> QED
  BY <1>1, <1>2, PTL DEF Spec

\* The types of all variables, for any sizes: in particular, what the raw
\* server collects in the input buffer never outgrows it.
THEOREM ServersTypeCorrect == Spec => []TypeOK
BY TypeInvHolds, PTL DEF TypeInv

-----------------------------------------------------------------------------
(* Who has the parser                                                      *)

\* A connection is in the backlog once, and only before it is served.
BacklogInv ==
  /\ \A i, j \in 1..Len(vxiBacklog) : vxiBacklog[i] = vxiBacklog[j] => i = j
  /\ \A i \in 1..Len(vxiBacklog) :
       vxiBacklog[i] # vxiClient /\ vxiBacklog[i] \notin links

\* The flag agrees with holder.  Among the clients with a link only one may
\* still be heard from, and that is the one the server talks to.
ControlInv ==
  /\ external_control = TRUE <=> holder # NoConn
  /\ holder # NoConn => holder \in links
  /\ \A v \in VxiConns :
       request[v] \in {"dev_write", "dev_read", "destroy_link"} => v \in links
  /\ \A v \in links : VxiAlive(v) => v = vxiClient /\ v = holder

\* The raw server reads only when nobody has claimed control.
TurnInv == turn \in {"scpi_read", "scpi_reap"} => external_control = FALSE

AccessInv == BacklogInv /\ ControlInv /\ TurnInv

\* One more line has been executed, for c; or none has.
Executed(c) ==
  \E line, answer : done' = Append(done, [by |-> c, line |-> line, answer |-> answer])

\* What the packets of the server's client do to control.
LEMMA HandlePacketAccess ==
  ASSUME TypeInv, AccessInv, VxiAlive(vxiClient), handle_packet(vxiClient)
  PROVE  /\ BacklogInv' /\ ControlInv'
         /\ \/ done' = done
            \/ holder = vxiClient /\ holder' = holder /\ Executed(vxiClient)
         /\ done' # done => holder' = holder
<1> DEFINE v == vxiClient
<1>0. v \in VxiConns /\ v # NoConn /\ v \in vxiUsed
  BY DEF VxiAlive, TypeInv, TypeOK, VxiTypeOK
<1>1. /\ request' = [request EXCEPT ![v] = "none"]
      /\ vxiBacklog' = vxiBacklog
      /\ request \in [VxiConns -> Procedures \cup {"none"}]
  BY DEF handle_packet, TypeInv, TypeOK, VxiTypeOK
<1>2. CASE request[v] = "create_link" /\ create_link(v)
  <2>1. /\ external_control' = TRUE /\ holder' = v /\ links' = links \cup {v}
        /\ UNCHANGED <<done, vxiClient, vxiOpen>>
    BY <1>2 DEF create_link, claim_external_control
  <2>2. BacklogInv'
    BY <1>1, <2>1 DEF AccessInv, BacklogInv
  <2>3. ControlInv'
    BY <1>0, <1>1, <2>1 DEF AccessInv, ControlInv, VxiAlive, TypeInv, TypeOK, VxiTypeOK
  <2> QED
    BY <2>1, <2>2, <2>3
<1>3. CASE request[v] = "dev_write" /\ write(v)
  <2>1. v \in links /\ holder = v /\ external_control = TRUE
    BY <1>0, <1>3 DEF AccessInv, ControlInv
  <2>2. UNCHANGED <<vxiClient, vxiOpen, links, holder>>
    BY <1>3 DEF write, WriteIgnored
  <2>3. /\ external_control' = external_control
        /\ done' = done \/ Executed(v)
    BY <1>3, <2>1, Zenon DEF write, WriteIgnored, Write, Execute, Executed, parserVars
  <2>4. BacklogInv'
    BY <1>1, <2>2 DEF AccessInv, BacklogInv
  <2>5. ControlInv'
    BY <1>0, <1>1, <2>2, <2>3 DEF AccessInv, ControlInv, VxiAlive, TypeInv, TypeOK, VxiTypeOK
  <2> QED
    BY <2>1, <2>2, <2>3, <2>4, <2>5
<1>4. CASE request[v] = "dev_read" /\ read(v)
  <2>1. UNCHANGED <<vxiClient, vxiOpen, links, holder, external_control, done>>
    BY <1>4 DEF read, Read
  <2>2. BacklogInv'
    BY <1>1, <2>1 DEF AccessInv, BacklogInv
  <2>3. ControlInv'
    BY <1>0, <1>1, <2>1 DEF AccessInv, ControlInv, VxiAlive, TypeInv, TypeOK, VxiTypeOK
  <2> QED
    BY <2>1, <2>2, <2>3
<1>5. CASE request[v] = "destroy_link" /\ destroy_link(v)
  <2>1. /\ external_control' = FALSE /\ holder' = NoConn /\ links' = links \ {v}
        /\ vxiClient' = NoConn /\ vxiOpen' = vxiOpen \ {v} /\ done' = done
    BY <1>5 DEF destroy_link, release_external_control, begin_next
  <2>2. \A i \in 1..Len(vxiBacklog) : vxiBacklog[i] # NoConn
    BY VxiAssumption DEF TypeInv, TypeOK, VxiTypeOK
  <2>3. BacklogInv'
    BY <1>1, <2>1, <2>2 DEF AccessInv, BacklogInv
  <2>4. ControlInv'
    BY <1>0, <1>1, <2>1 DEF AccessInv, ControlInv, VxiAlive, TypeInv, TypeOK, VxiTypeOK
  <2> QED
    BY <2>1, <2>3, <2>4
<1> QED
  BY <1>2, <1>3, <1>4, <1>5 DEF handle_packet

LEMMA VxiLoopAccess ==
  ASSUME TypeInv, AccessInv, VxiLoop
  PROVE  /\ BacklogInv' /\ ControlInv'
         /\ \/ done' = done
            \/ holder = vxiClient /\ holder' = holder /\ Executed(vxiClient)
                /\ vxiClient \in VxiConns
         /\ done' # done => holder' = holder
<1>1. CASE ~VxiAlive(vxiClient) /\ Accept /\ UNCHANGED <<parserVars, socketVars>>
  <2>1. UNCHANGED <<external_control, done, holder, links, request, vxiOpen>>
    BY <1>1 DEF Accept, parserVars
  <2>2. CASE vxiBacklog = <<>>
    BY <1>1, <2>1, <2>2, NoSeq DEF Accept, AccessInv, BacklogInv, ControlInv, VxiAlive
  <2>3. CASE vxiBacklog # <<>>
    <3>1. /\ vxiClient' = vxiBacklog[1]
          /\ Len(vxiBacklog) \in Nat /\ Len(vxiBacklog) # 0
          /\ Len(vxiBacklog') = Len(vxiBacklog) - 1
          /\ \A i \in 1..(Len(vxiBacklog) - 1) : vxiBacklog'[i] = vxiBacklog[i + 1]
      BY <1>1, <2>3, HeadTailSeq DEF Accept, TypeInv, TypeOK, VxiTypeOK
    <3>2. BacklogInv'
      <4>1. \A i \in 1..Len(vxiBacklog') :
              i + 1 \in 1..Len(vxiBacklog) /\ vxiBacklog'[i] = vxiBacklog[i + 1]
        BY <3>1
      <4>2. 1 \in 1..Len(vxiBacklog)
        BY <3>1
      <4>3. \A i, j \in 1..Len(vxiBacklog') : vxiBacklog'[i] = vxiBacklog'[j] => i = j
        BY <4>1 DEF AccessInv, BacklogInv
      <4>4. ASSUME NEW i \in 1..Len(vxiBacklog')
            PROVE  vxiBacklog'[i] # vxiClient' /\ vxiBacklog'[i] \notin links'
        <5>1. vxiBacklog[i + 1] # vxiBacklog[1]
          BY <4>1, <4>2, <4>4 DEF AccessInv, BacklogInv
        <5> QED
          BY <2>1, <3>1, <4>1, <4>4, <5>1 DEF AccessInv, BacklogInv
      <4> QED
        BY <4>3, <4>4 DEF BacklogInv
    <3>3. ControlInv'
      BY <1>1, <2>1, <3>1 DEF AccessInv, ControlInv, BacklogInv, VxiAlive
    <3> QED
      BY <2>1, <3>2, <3>3
  <2> QED
    BY <2>2, <2>3
<1>2. CASE UNCHANGED <<parserVars, vxiVars>>
  BY <1>2 DEF AccessInv, BacklogInv, ControlInv, VxiAlive, parserVars, vxiVars
<1>3. CASE VxiAlive(vxiClient) /\ handle_packet(vxiClient)
  BY <1>3, HandlePacketAccess DEF VxiAlive, TypeInv, TypeOK, VxiTypeOK
<1>4. CASE /\ VxiAlive(vxiClient) /\ Gone(vxiClient)
           /\ UNCHANGED <<parserVars, socketVars>>
  <2>1. /\ vxiClient' = NoConn /\ vxiOpen' = vxiOpen \ {vxiClient}
        /\ vxiClient \notin vxiOpen
        /\ request' = [request EXCEPT ![vxiClient] = "none"]
        /\ UNCHANGED <<external_control, done, holder, links, vxiBacklog>>
    BY <1>4 DEF Gone, begin_next, parserVars
  <2>2. \A i \in 1..Len(vxiBacklog) : vxiBacklog[i] # NoConn
    BY VxiAssumption DEF TypeInv, TypeOK, VxiTypeOK
  <2>3. BacklogInv'
    BY <2>1, <2>2 DEF AccessInv, BacklogInv
  <2>4. ControlInv'
    BY <1>4, <2>1 DEF AccessInv, ControlInv, VxiAlive, TypeInv, TypeOK, VxiTypeOK
  <2> QED
    BY <2>1, <2>3, <2>4
<1> QED
  BY <1>1, <1>2, <1>3, <1>4 DEF VxiLoop

\* What the raw server does to control, and to the lines executed.
LEMMA RawServerAccess ==
  ASSUME TypeInv, AccessInv, ScpiAccept \/ ScpiRead \/ ScpiReap
  PROVE  /\ UNCHANGED <<vxiVars, external_control>>
         /\ \/ done' = done
            \/ holder = NoConn /\ \E c \in RawConns : Executed(c)
         /\ TurnInv'
<1>1. CASE ScpiAccept
  <2>1. UNCHANGED <<external_control, done>>
    BY <1>1 DEF ScpiAccept, LoopAccept, AcceptClient, parserVars
  <2> QED
    BY <1>1, <2>1 DEF ScpiAccept, TurnInv, TypeInv, TypeOK, ParserTypeOK
<1>2. CASE ScpiRead
  <2>1. external_control = FALSE /\ holder = NoConn
    BY <1>2 DEF ScpiRead, AccessInv, TurnInv, ControlInv
  <2>2. UNCHANGED vxiVars /\ turn' = "scpi_reap" /\ LoopRead
    BY <1>2 DEF ScpiRead
  <2>3. CASE UNCHANGED <<parserVars, socketVars>>
    BY <2>1, <2>2, <2>3 DEF parserVars, TurnInv
  <2>4. ASSUME client # NoConn, NEW k, ReadClient(client, k)
        PROVE  /\ external_control' = external_control
               /\ done' = done \/ \E c \in RawConns : Executed(c)
    <3>1. client \in RawConns
      BY <2>4 DEF TypeInv, TypeOK, SocketTypeOK
    <3>2. external_control' = external_control /\ (done' = done \/ Executed(client))
      BY <2>4, Zenon DEF ReadClient, Execute, Executed
    <3> QED
      BY <3>1, <3>2
  <2> QED
    BY <2>1, <2>2, <2>3, <2>4 DEF LoopRead, TurnInv
<1>3. CASE ScpiReap
  BY <1>3 DEF ScpiReap, LoopReap, parserVars, TurnInv
<1> QED
  BY <1>1, <1>2, <1>3

\* A VXI-11 client may connect, call and go.
LEMMA VxiPeerAccess ==
  ASSUME TypeInv, AccessInv, VxiPeer
  PROVE  BacklogInv' /\ ControlInv'
<1>1. UNCHANGED <<external_control, vxiClient, links, holder>>
  BY DEF VxiPeer, VxiConnect, VxiClose, VxiCall, parserVars
<1>2. PICK v \in VxiConns :
        VxiConnect(v) \/ VxiClose(v) \/ \E p \in Procedures : VxiCall(v, p)
  BY DEF VxiPeer
<1>3. CASE VxiConnect(v)
  <2>1. /\ v \notin vxiUsed /\ vxiOpen' = vxiOpen \cup {v}
        /\ vxiBacklog' = Append(vxiBacklog, v) /\ request' = request
    BY <1>3 DEF VxiConnect
  <2>2. /\ Len(vxiBacklog) \in Nat /\ Len(vxiBacklog') = Len(vxiBacklog) + 1
        /\ \A i \in 1..Len(vxiBacklog) :
             vxiBacklog'[i] = vxiBacklog[i] /\ vxiBacklog[i] \in vxiUsed
        /\ vxiBacklog'[Len(vxiBacklog) + 1] = v
    <3>1. vxiBacklog \in Seq(VxiConns) /\ vxiBacklog \in Seq(vxiUsed)
      BY WiderSeq DEF TypeInv, TypeOK, VxiTypeOK
    <3> QED
      BY <2>1, <3>1, AppendSeq
  <2>3. v # vxiClient /\ v \notin links
    BY <2>1, VxiAssumption DEF TypeInv, TypeOK, VxiTypeOK
  <2>4. BacklogInv'
    <3>1. \A i \in 1..Len(vxiBacklog') :
            i \in 1..Len(vxiBacklog) \/ i = Len(vxiBacklog) + 1
      BY <2>2
    <3> QED
      BY <1>1, <2>1, <2>2, <2>3, <3>1 DEF AccessInv, BacklogInv
  <2>5. ControlInv'
    BY <1>1, <2>1, <2>3 DEF AccessInv, ControlInv, VxiAlive
  <2> QED
    BY <2>4, <2>5
<1>4. CASE VxiClose(v)
  BY <1>1, <1>4 DEF VxiClose, AccessInv, BacklogInv, ControlInv, VxiAlive
<1>5. ASSUME NEW p \in Procedures, VxiCall(v, p)
      PROVE  BacklogInv' /\ ControlInv'
  <2>1. /\ request' = [request EXCEPT ![v] = p] /\ v \in vxiOpen
        /\ p = "create_link" <=> v \notin links
        /\ UNCHANGED <<vxiBacklog, vxiOpen>>
    BY <1>5 DEF VxiCall
  <2> QED
    BY <1>1, <2>1
       DEF AccessInv, BacklogInv, ControlInv, VxiAlive, TypeInv, TypeOK, VxiTypeOK
<1> QED
  BY <1>2, <1>3, <1>4, <1>5

\* Web interface: its disconnect of a VXI-11 client.
LEMMA HttpAccess ==
  ASSUME TypeInv, AccessInv, Http
  PROVE  /\ BacklogInv' /\ ControlInv' /\ TurnInv'
         /\ done' = done /\ holder' \in {holder, NoConn}
<1>1. turn' = "scpi_accept" /\ TurnInv'
  BY DEF Http, TurnInv
<1>2. CASE UNCHANGED <<parserVars, vxiVars>>
  BY <1>1, <1>2
     DEF AccessInv, BacklogInv, ControlInv, VxiAlive, parserVars, vxiVars
<1>3. CASE VxiDisconnect
  <2>1. /\ VxiAlive(vxiClient) /\ vxiClient' = NoConn
        /\ vxiOpen' = vxiOpen \ {vxiClient}
        /\ external_control' = FALSE /\ holder' = NoConn
        /\ request' = [request EXCEPT ![vxiClient] = "none"]
        /\ links' = links \ {vxiClient}
        /\ UNCHANGED <<done, vxiBacklog>>
    BY <1>3 DEF VxiDisconnect, begin_next, release_external_control
  <2>2. \A i \in 1..Len(vxiBacklog) : vxiBacklog[i] # NoConn
    BY VxiAssumption DEF TypeInv, TypeOK, VxiTypeOK
  <2>3. BacklogInv'
    BY <2>1, <2>2 DEF AccessInv, BacklogInv
  <2>4. ControlInv'
    BY <2>1 DEF AccessInv, ControlInv, VxiAlive, TypeInv, TypeOK, VxiTypeOK
  <2> QED
    BY <1>1, <2>1, <2>3, <2>4
<1> QED
  BY <1>1, <1>2, <1>3 DEF Http, RawDisconnect

LEMMA AccessInvHolds == Spec => []AccessInv
<1>1. Init => AccessInv
  BY NoSeq
     DEF Init, ScpiInit, VxiInit, AccessInv, BacklogInv, ControlInv, TurnInv, VxiAlive
<1>2. TypeInv /\ AccessInv /\ [Next]_vars => AccessInv'
  <2> SUFFICES ASSUME TypeInv, AccessInv, [Next]_vars
               PROVE  AccessInv'
    OBVIOUS
  <2>1. ASSUME UNCHANGED <<vxiVars, external_control>>
        PROVE  BacklogInv' /\ ControlInv'
    BY <2>1 DEF AccessInv, BacklogInv, ControlInv, VxiAlive, vxiVars
  <2>2. CASE ScpiAccept \/ ScpiRead \/ ScpiReap
    BY <2>1, <2>2, RawServerAccess DEF AccessInv
  <2>3. CASE Vxi
    <3>1. VxiLoop /\ TurnInv'
      BY <2>3 DEF Vxi, TurnInv
    <3> QED
      BY <3>1, VxiLoopAccess DEF AccessInv
  <2>4. CASE Http
    BY <2>4, HttpAccess DEF AccessInv
  <2>5. CASE RawPeer
    <3>1. UNCHANGED <<vxiVars, turn, external_control>>
      BY <2>5 DEF RawPeer, RawConnect, RawClose, RawSend, parserVars
    <3> QED
      BY <2>1, <3>1 DEF AccessInv, TurnInv
  <2>6. CASE VxiPeer
    <3>1. UNCHANGED <<turn, external_control>>
      BY <2>6 DEF VxiPeer, parserVars
    <3> QED
      BY <2>6, <3>1, VxiPeerAccess DEF AccessInv, TurnInv
  <2>7. CASE UNCHANGED vars
    <3>1. UNCHANGED <<vxiVars, turn, external_control>>
      BY <2>7 DEF vars, parserVars
    <3> QED
      BY <2>1, <3>1 DEF AccessInv, TurnInv
  <2> QED
    BY <2>2, <2>3, <2>4, <2>5, <2>6, <2>7 DEF Next
<1> QED
  BY <1>1, <1>2, TypeInvHolds, PTL DEF Spec

\* Control is held only for a client that has a link and neither destroyed it
\* nor was disconnected by the web interface.
THEOREM ControlNeedsLink == Spec => []ControlOnlyWithLink
<1>1. AccessInv => ControlOnlyWithLink
  BY DEF AccessInv, ControlInv, ControlOnlyWithLink
<1> QED
  BY <1>1, AccessInvHolds, PTL

\* A line executed for c is one more line, by c.
LEMMA ExecutedIsOneMore ==
  ASSUME TypeInv, NEW c, Executed(c), UNCHANGED holder
  PROVE  Access!Executes(c)
<1>1. PICK line, answer : done' = Append(done, [by |-> c, line |-> line, answer |-> answer])
  BY DEF Executed
<1> DEFINE rec == [by |-> c, line |-> line, answer |-> answer]
<1>2. PICK S : done \in Seq(S) /\ rec \in S
  <2> DEFINE T == [by : RawConns \cup VxiConns, line : Seq(Pieces), answer : BOOLEAN]
  <2>1. done \in Seq(T)
    BY DEF TypeInv, TypeOK, ParserTypeOK
  <2> HIDE DEF T, rec
  <2>2. done \in Seq(T \cup {rec})
    BY <2>1, WiderSeq
  <2> QED
    BY <2>2
<1>3. rec.by = c
  OBVIOUS
<1> HIDE DEF rec
<1>4. done' = Append(done, rec)
  BY <1>1 DEF rec
<1>5. /\ Len(done') = Len(done) + 1 /\ Len(done) \in Nat
      /\ done'[Len(done')] = rec /\ done' # <<>>
  BY <1>2, <1>4, AppendSeq
<1> QED
  BY <1>3, <1>4, <1>5 DEF Access!Executes

\* The servers implement InstrumentAccess: the parser executes nothing for a
\* raw client while a VXI-11 client has claimed it, and nothing for any other
\* VXI-11 client.
THEOREM ServersImplementAccess == Spec => ImplementsAccess
<1>1. Init => Access!Init
  BY DEF Init, ScpiInit, VxiInit, Access!Init
<1>2. TypeInv /\ TypeInv' /\ AccessInv /\ [Next]_vars => [Access!Next]_<<holder, done>>
  <2> SUFFICES ASSUME TypeInv, TypeInv', AccessInv, [Next]_vars
               PROVE  Access!Next \/ UNCHANGED <<holder, done>>
    OBVIOUS
  <2>1. CASE ScpiAccept \/ ScpiRead \/ ScpiReap
    <3>1. \/ done' = done /\ holder' = holder
          \/ holder = NoConn /\ holder' = holder /\ \E c \in RawConns : Executed(c)
      BY <2>1, RawServerAccess DEF vxiVars
    <3> QED
      BY <3>1, ExecutedIsOneMore DEF Access!Next, Access!RawLine
  <2>2. CASE Vxi
    <3>1. /\ \/ done' = done
             \/ /\ holder = vxiClient /\ holder' = holder
                /\ Executed(vxiClient) /\ vxiClient \in VxiConns
          /\ holder' \in VxiConns \cup {NoConn}
      BY <2>2, VxiLoopAccess DEF Vxi, TypeInv, TypeOK, VxiTypeOK
    <3>2. CASE done' = done
      BY <3>1, <3>2 DEF Access!Next, Access!Claim, Access!Release
    <3>3. CASE /\ holder = vxiClient /\ holder' = holder
               /\ Executed(vxiClient) /\ vxiClient \in VxiConns
      BY <3>3, ExecutedIsOneMore DEF Access!Next, Access!VxiLine
    <3> QED
      BY <3>1, <3>2, <3>3
  <2>3. CASE Http
    BY <2>3, HttpAccess DEF Access!Next, Access!Release
  <2>4. CASE RawPeer \/ VxiPeer \/ UNCHANGED vars
    BY <2>4
       DEF RawPeer, RawConnect, RawClose, RawSend, VxiPeer, VxiConnect, VxiClose, VxiCall,
           vars, parserVars, vxiVars
  <2> QED
    BY <2>1, <2>2, <2>3, <2>4 DEF Next
<1> QED
  BY <1>1, <1>2, TypeInvHolds, AccessInvHolds, PTL DEF Spec, ImplementsAccess, Access!Spec

-----------------------------------------------------------------------------
(* What the parser executes for raw clients, and what they get             *)

\* A connection is in the backlog once, before anything of it is read.
RawBacklogInv ==
  /\ \A i, j \in 1..Len(rawBacklog) : rawBacklog[i] = rawBacklog[j] => i = j
  /\ \A i \in 1..Len(rawBacklog) : rawBacklog[i] # client /\ got[rawBacklog[i]] = 0
  /\ \A c \in RawConns \ rawUsed : got[c] = 0

\* By the time the VXI-11 server may write, the raw client has been stopped or
\* has nothing more to say.
QuietInv == turn = "vxi" /\ external_control = TRUE => ~Alive(client, got)

\* The input buffer holds what c has sent since its last newline.
LineSoFar(c) ==
  /\ Len(input) <= got[c]
  /\ \A i \in 1..Len(input) :
       /\ input[i] = Piece(c, got[c] - Len(input) + i)
       /\ sent[c][got[c] - Len(input) + i] = FALSE
  /\ got[c] # Len(input) => sent[c][got[c] - Len(input)] = TRUE

\* Neither buffer holds anything of somebody else while the raw client may
\* still send.
BuffersInv == Alive(client, got) => LineSoFar(client) /\ write_buffer = <<>>

\* The pieces from the f-th to the l-th are a line of c, and line is it.
IsLine(c, line, f, l) ==
  /\ 1 <= f /\ f <= l /\ l <= Len(sent[c])
  /\ Len(line) = l - f + 1
  /\ \A i \in 1..Len(line) : line[i] = Piece(c, f + i - 1)
  /\ sent[c][l] = TRUE
  /\ \A i \in f..(l - 1) : sent[c][i] = FALSE
  /\ f > 1 => sent[c][f - 1] = TRUE

LinesInv ==
  \A i \in 1..Len(done) :
    done[i].by \in RawConns =>
      \E f, l \in Nat : IsLine(done[i].by, done[i].line, f, l)

AnswersInv ==
  \A i \in 1..Len(rawOut) :
    /\ rawOut[i].answer.conn = rawOut[i].to
    /\ rawOut[i].answer.ix <= got[rawOut[i].to]
    /\ \A j \in 1..(i - 1) :
         rawOut[j].to = rawOut[i].to => rawOut[j].answer.ix < rawOut[i].answer.ix

RawInv == RawBacklogInv /\ QuietInv /\ BuffersInv /\ LinesInv /\ AnswersInv

\* A line stays a line when more is sent.
LEMMA LinesStay ==
  ASSUME TypeInv, LinesInv, NEW c \in RawConns, NEW nl \in BOOLEAN,
         sent' = [sent EXCEPT ![c] = Append(sent[c], nl)], done' = done
  PROVE  LinesInv'
<1> SUFFICES ASSUME NEW i \in 1..Len(done), done[i].by \in RawConns
             PROVE  \E f, l \in Nat : IsLine(done[i].by, done[i].line, f, l)'
  BY DEF LinesInv
<1> DEFINE d == done[i].by
           line == done[i].line
<1>1. PICK f \in Nat, l \in Nat : IsLine(d, line, f, l)
  BY DEF LinesInv
<1>2. /\ Len(sent[d]) \in Nat
      /\ Len(sent'[d]) \in Nat /\ Len(sent[d]) <= Len(sent'[d])
      /\ \A k \in 1..Len(sent[d]) : sent'[d][k] = sent[d][k]
  <2>1. sent[d] \in Seq(BOOLEAN) /\ sent[c] \in Seq(BOOLEAN)
    BY DEF TypeInv, TypeOK, SocketTypeOK
  <2>2. CASE d = c
    <3>1. sent'[d] = Append(sent[d], nl)
      BY <2>2 DEF TypeInv, TypeOK, SocketTypeOK
    <3> HIDE DEF d
    <3> QED
      BY <2>1, <3>1, AppendSeq
  <2>3. CASE d # c
    <3>1. sent'[d] = sent[d]
      BY <2>3 DEF TypeInv, TypeOK, SocketTypeOK
    <3> HIDE DEF d
    <3> QED
      BY <2>1, <3>1
  <2> QED
    BY <2>2, <2>3
<1>3. d' = d /\ line' = line
  OBVIOUS
<1> HIDE DEF d, line
<1>4. IsLine(d, line, f, l)'
  <2>1. /\ 1 <= f /\ f <= l /\ l <= Len(sent[d]) /\ Len(line) = l - f + 1
        /\ \A k \in 1..Len(line) : line[k] = Piece(d, f + k - 1)
        /\ sent[d][l] = TRUE
        /\ \A k \in f..(l - 1) : sent[d][k] = FALSE
        /\ f > 1 => sent[d][f - 1] = TRUE
    BY <1>1 DEF IsLine
  <2>2. l <= Len(sent'[d])
    BY <1>2, <2>1
  <2>3. sent'[d][l] = TRUE
    BY <1>2, <2>1
  <2>4. \A k \in f..(l - 1) : sent'[d][k] = FALSE
    BY <1>2, <2>1
  <2>5. f > 1 => sent'[d][f - 1] = TRUE
    BY <1>2, <2>1
  <2> QED
    BY <1>3, <2>1, <2>2, <2>3, <2>4, <2>5 DEF IsLine, Piece
<1> QED
  BY <1>3, <1>4 DEF d, line

\* With the piece that ends it, the buffer is a line of c.
LEMMA LineComplete ==
  ASSUME TypeInv, NEW c \in RawConns, LineSoFar(c),
         NEW k \in Unread(c), ReadsUpTo(c, k), sent[c][k] = TRUE
  PROVE  IsLine(c, Buffered(c, k), got[c] - Len(input) + 1, k)
<1> DEFINE f == got[c] - Len(input) + 1
           line == Buffered(c, k)
<1>1. /\ got[c] \in Nat /\ k \in Nat /\ Len(input) \in Nat
      /\ got[c] < k /\ k <= Len(sent[c]) /\ Len(sent[c]) \in Nat
  BY DEF TypeInv, TypeOK, ParserTypeOK, SocketTypeOK, Unread
<1>2. /\ Len(line) = Len(input) + (k - got[c])
      /\ \A i \in 1..Len(input) : line[i] = input[i]
      /\ \A i \in 1..(k - got[c]) : line[Len(input) + i] = Piece(c, got[c] + i)
  BY BufferedSeq DEF TypeInv, TypeOK
<1>3. /\ Len(input) <= got[c]
      /\ \A i \in 1..Len(input) : input[i] = Piece(c, f + i - 1)
      /\ \A i \in 1..Len(input) : sent[c][got[c] - Len(input) + i] = FALSE
      /\ got[c] # Len(input) => sent[c][got[c] - Len(input)] = TRUE
  <2>1. \A i \in 1..Len(input) : got[c] - Len(input) + i = f + i - 1
    BY <1>1
  <2> QED
    BY <2>1 DEF LineSoFar
<1> HIDE DEF line
<1>4. \A i \in 1..Len(line) : line[i] = Piece(c, f + i - 1)
  <2> SUFFICES ASSUME NEW i \in 1..Len(line)
               PROVE  line[i] = Piece(c, f + i - 1)
    OBVIOUS
  <2>1. CASE i <= Len(input)
    BY <1>1, <1>2, <1>3, <2>1
  <2>2. CASE i > Len(input)
    <3>1. /\ i - Len(input) \in 1..(k - got[c])
          /\ Len(input) + (i - Len(input)) = i
          /\ got[c] + (i - Len(input)) = f + i - 1
      BY <1>1, <1>2, <2>2
    <3> HIDE DEF f
    <3> QED
      BY <1>2, <3>1
  <2> QED
    BY <1>1, <1>2, <2>1, <2>2
<1>5. \A i \in f..(k - 1) : sent[c][i] = FALSE
  <2> SUFFICES ASSUME NEW i \in f..(k - 1)
               PROVE  sent[c][i] = FALSE
    OBVIOUS
  <2>1. CASE i <= got[c]
    <3>1. /\ i - (got[c] - Len(input)) \in 1..Len(input)
          /\ got[c] - Len(input) + (i - (got[c] - Len(input))) = i
      <4>1. Len(input) <= got[c]
        BY <1>3
      <4> QED
        BY <1>1, <2>1, <4>1
    <3> QED
      BY <1>3, <3>1
  <2>2. CASE i > got[c]
    <3>1. i \in Unread(c) /\ i < k /\ i \in 1..Len(sent[c])
      BY <1>1, <1>3, <2>2 DEF Unread
    <3>2. sent[c][i] \in BOOLEAN
      <4>1. sent[c] \in Seq(BOOLEAN)
        BY DEF TypeInv, TypeOK, SocketTypeOK
      <4> QED
        BY <3>1, <4>1
    <3>3. ~sent[c][i]
      BY <3>1 DEF ReadsUpTo
    <3> QED
      BY <3>2, <3>3
  <2>3. i <= got[c] \/ i > got[c]
    BY <1>1
  <2> QED
    BY <2>1, <2>2, <2>3, Zenon
<1>6. f > 1 => sent[c][f - 1] = TRUE
  <2>1. f > 1 => got[c] # Len(input) /\ f - 1 = got[c] - Len(input)
    BY <1>1, <1>3
  <2> QED
    BY <1>3, <2>1
<1>7. 1 <= f /\ f <= k /\ Len(line) = k - f + 1
  BY <1>1, <1>2, <1>3
<1> QED
  BY <1>1, <1>4, <1>5, <1>6, <1>7 DEF IsLine, line

\* Without one, it is still the beginning of one.
LEMMA LineGoesOn ==
  ASSUME TypeInv, NEW c \in RawConns, LineSoFar(c),
         NEW k \in Unread(c), ReadsUpTo(c, k), ~sent[c][k],
         got' = [got EXCEPT ![c] = k], input' = Buffered(c, k), sent' = sent
  PROVE  LineSoFar(c)'
<1> DEFINE b == got[c] - Len(input)
<1>1. /\ got[c] \in Nat /\ k \in Nat /\ Len(input) \in Nat
      /\ got[c] < k /\ k <= Len(sent[c]) /\ Len(sent[c]) \in Nat
      /\ Len(input) <= got[c] /\ b \in Nat
  BY DEF TypeInv, TypeOK, ParserTypeOK, SocketTypeOK, Unread, LineSoFar
<1>2. /\ Len(input') = Len(input) + (k - got[c])
      /\ \A i \in 1..Len(input) : input'[i] = input[i]
      /\ \A i \in 1..(k - got[c]) : input'[Len(input) + i] = Piece(c, got[c] + i)
  BY BufferedSeq DEF TypeInv, TypeOK
<1>3. got'[c] = k /\ got'[c] - Len(input') = b
  BY <1>1, <1>2 DEF TypeInv, TypeOK, SocketTypeOK
<1>4. /\ \A i \in 1..Len(input) : input[i] = Piece(c, b + i)
      /\ \A i \in 1..Len(input) : sent[c][b + i] = FALSE
      /\ b # 0 => sent[c][b] = TRUE
  BY <1>1 DEF LineSoFar
<1>5. \A l \in Unread(c) : l <= k => sent[c][l] = FALSE
  <2> SUFFICES ASSUME NEW l \in Unread(c), l <= k
               PROVE  sent[c][l] = FALSE
    OBVIOUS
  <2>1. l \in 1..Len(sent[c]) /\ (l < k \/ l = k)
    BY <1>1 DEF Unread
  <2>2. sent[c][l] \in BOOLEAN
    <3>1. sent[c] \in Seq(BOOLEAN)
      BY DEF TypeInv, TypeOK, SocketTypeOK
    <3> QED
      BY <2>1, <3>1
  <2>3. ~sent[c][l]
    BY <2>1 DEF ReadsUpTo
  <2> QED
    BY <2>2, <2>3
<1>6. ASSUME NEW i \in 1..Len(input')
      PROVE  input'[i] = Piece(c, b + i) /\ sent[c][b + i] = FALSE
  <2>0. i \in Nat /\ 1 <= i /\ i <= Len(input) + (k - got[c])
    BY <1>1, <1>2
  <2>1. CASE i <= Len(input)
    <3>1. i \in 1..Len(input)
      BY <1>1, <2>0, <2>1
    <3> HIDE DEF b
    <3> QED
      BY <1>2, <1>4, <3>1
  <2>2. CASE i > Len(input)
    <3>0. /\ got[c] \in Int /\ Len(input) \in Int /\ k \in Int /\ i \in Int
          /\ i > Len(input) /\ i <= Len(input) + (k - got[c])
      BY <1>1, <2>0, <2>2
    <3>1. /\ i - Len(input) \in 1..(k - got[c])
          /\ Len(input) + (i - Len(input)) = i
          /\ got[c] + (i - Len(input)) = b + i
      BY <3>0
    <3>2. b + i \in (got[c] + 1)..k
      BY <3>0
    <3>3. b + i \in Unread(c) /\ b + i <= k
      BY <1>1, <3>2 DEF Unread
    <3> HIDE DEF b
    <3> QED
      BY <1>2, <1>5, <3>1, <3>3
  <2>3. i <= Len(input) \/ i > Len(input)
    BY <1>1, <2>0
  <2> HIDE DEF b
  <2> QED
    BY <2>1, <2>2, <2>3, Zenon
<1>7. Len(input') <= got'[c] /\ (got'[c] # Len(input') => b # 0)
  BY <1>1, <1>2, <1>3
<1>8. got'[c] - Len(input') + 0 = b
  BY <1>1, <1>3
<1> HIDE DEF b
<1>9. \A i \in 1..Len(input') :
        /\ input'[i] = Piece(c, got'[c] - Len(input') + i)
        /\ sent[c][got'[c] - Len(input') + i] = FALSE
  BY <1>3, <1>6
<1>10. got'[c] # Len(input') => sent[c][got'[c] - Len(input')] = TRUE
  BY <1>3, <1>4, <1>7
<1> QED
  BY <1>7, <1>9, <1>10 DEF LineSoFar, Piece

\* What leaves the history alone keeps it intact.
LEMMA HistoryStays ==
  ASSUME RawInv, UNCHANGED <<done, rawOut, got, sent>>
  PROVE  LinesInv' /\ AnswersInv'
<1>1. LinesInv'
  BY DEF RawInv, LinesInv, IsLine
<1>2. AnswersInv'
  BY DEF RawInv, AnswersInv
<1> QED
  BY <1>1, <1>2

LEMMA StopKeepsRawInv ==
  ASSUME TypeInv, RawInv, Stop(client),
         UNCHANGED <<done, rawUsed, rawBacklog, sent, got, rawOut>>
  PROVE  RawInv'
<1>1. client' = NoConn /\ ~Alive(client', got')
  BY DEF Stop, Alive
<1>2. \A i \in 1..Len(rawBacklog) : rawBacklog[i] # NoConn
  BY ScpiAssumption DEF TypeInv, TypeOK, SocketTypeOK
<1>3. RawBacklogInv'
  BY <1>1, <1>2 DEF RawInv, RawBacklogInv
<1>4. QuietInv' /\ BuffersInv'
  BY <1>1 DEF QuietInv, BuffersInv, Alive
<1> QED
  BY <1>3, <1>4, HistoryStays DEF RawInv

LEMMA RawPeerRawInv ==
  ASSUME TypeInv, RawInv, RawPeer
  PROVE  RawInv'
<1>1. UNCHANGED <<external_control, write_buffer, input, done, client, got, rawOut, turn>>
  BY DEF RawPeer, RawConnect, RawClose, RawSend, parserVars
<1>2. PICK c \in RawConns :
        RawConnect(c) \/ RawClose(c) \/ \E nl \in BOOLEAN : RawSend(c, nl)
  BY DEF RawPeer
<1>3. CASE RawConnect(c)
  <2>1. /\ c \notin rawUsed /\ rawUsed' = rawUsed \cup {c} /\ rawOpen' = rawOpen \cup {c}
        /\ rawBacklog' = Append(rawBacklog, c) /\ sent' = sent
    BY <1>3 DEF RawConnect
  <2>2. /\ Len(rawBacklog) \in Nat /\ Len(rawBacklog') = Len(rawBacklog) + 1
        /\ \A i \in 1..Len(rawBacklog) :
             rawBacklog'[i] = rawBacklog[i] /\ rawBacklog[i] \in rawUsed
        /\ rawBacklog'[Len(rawBacklog) + 1] = c
    <3>1. rawBacklog \in Seq(RawConns) /\ rawBacklog \in Seq(rawUsed)
      BY WiderSeq DEF TypeInv, TypeOK, SocketTypeOK
    <3> QED
      BY <2>1, <3>1, AppendSeq
  <2>3. c # client
    BY <2>1, ScpiAssumption DEF TypeInv, TypeOK, SocketTypeOK
  <2>4. RawBacklogInv'
    <3>1. \A i \in 1..Len(rawBacklog') :
            i \in 1..Len(rawBacklog) \/ i = Len(rawBacklog) + 1
      BY <2>2
    <3>2. got[c] = 0
      BY <2>1 DEF RawInv, RawBacklogInv
    <3> QED
      BY <1>1, <2>1, <2>2, <2>3, <3>1, <3>2 DEF RawInv, RawBacklogInv
  <2>5. Alive(client, got)' <=> Alive(client, got)
    BY <1>1, <2>1, <2>3 DEF Alive
  <2>6. QuietInv' /\ BuffersInv'
    BY <1>1, <2>1, <2>5 DEF RawInv, QuietInv, BuffersInv, LineSoFar
  <2> QED
    BY <1>1, <2>1, <2>4, <2>6, HistoryStays DEF RawInv
<1>4. CASE RawClose(c)
  <2>1. rawOpen' = rawOpen \ {c} /\ UNCHANGED <<rawUsed, rawBacklog, sent>>
    BY <1>4 DEF RawClose
  <2>2. Alive(client, got)' => Alive(client, got)
    BY <1>1, <2>1 DEF Alive
  <2>3. QuietInv' /\ BuffersInv' /\ RawBacklogInv'
    BY <1>1, <2>1, <2>2 DEF RawInv, QuietInv, BuffersInv, LineSoFar, RawBacklogInv
  <2> QED
    BY <1>1, <2>1, <2>3, HistoryStays DEF RawInv
<1>5. ASSUME NEW nl \in BOOLEAN, RawSend(c, nl)
      PROVE  RawInv'
  <2>1. /\ c \in rawOpen /\ sent' = [sent EXCEPT ![c] = Append(sent[c], nl)]
        /\ UNCHANGED <<rawUsed, rawOpen, rawBacklog>>
    BY <1>5 DEF RawSend
  <2>2. RawBacklogInv'
    BY <1>1, <2>1 DEF RawInv, RawBacklogInv
  <2>3. LinesInv'
    BY <1>1, <2>1, LinesStay DEF RawInv
  <2>4. AnswersInv'
    BY <1>1 DEF RawInv, AnswersInv
  <2>5. CASE c # client
    <3>1. client # NoConn => sent'[client] = sent[client]
      BY <2>1, <2>5 DEF TypeInv, TypeOK, SocketTypeOK
    <3>2. Alive(client, got)' <=> Alive(client, got)
      BY <1>1, <2>1, <3>1 DEF Alive
    <3>3. Alive(client, got)' => client # NoConn
      BY <1>1 DEF Alive
    <3>4. QuietInv'
      BY <1>1, <3>2 DEF RawInv, QuietInv
    <3>5. BuffersInv'
      BY <1>1, <3>1, <3>2, <3>3 DEF RawInv, BuffersInv, LineSoFar
    <3> QED
      BY <2>2, <2>3, <2>4, <3>4, <3>5 DEF RawInv
  <2>6. CASE c = client
    <3>1. Alive(client, got)
      BY <2>1, <2>6, ScpiAssumption DEF Alive
    <3>2. QuietInv'
      BY <1>1, <3>1 DEF RawInv, QuietInv
    <3>3. /\ sent[c] \in Seq(BOOLEAN) /\ got[c] \in Nat /\ got[c] <= Len(sent[c])
          /\ sent'[c] = Append(sent[c], nl)
      BY <2>1 DEF TypeInv, TypeOK, SocketTypeOK
    <3>4. /\ Len(sent[c]) \in Nat
          /\ \A k \in 1..got[c] : sent'[c][k] = sent[c][k]
      BY <3>3, AppendSeq
    <3>5. LineSoFar(c) /\ write_buffer = <<>>
      BY <2>6, <3>1 DEF RawInv, BuffersInv
    <3>6. Len(input) \in Nat /\ Len(input) <= got[c]
      BY <3>5 DEF LineSoFar, TypeInv, TypeOK, ParserTypeOK
    <3>7. \A i \in 1..Len(input) : got[c] - Len(input) + i \in 1..got[c]
      BY <3>3, <3>6
    <3>8. got[c] # Len(input) => got[c] - Len(input) \in 1..got[c]
      BY <3>3, <3>6
    <3>9. LineSoFar(c)'
      BY <1>1, <3>4, <3>5, <3>7, <3>8 DEF LineSoFar, Piece
    <3> QED
      BY <1>1, <2>2, <2>3, <2>4, <2>6, <3>2, <3>5, <3>9 DEF RawInv, BuffersInv, Alive
  <2> QED
    BY <2>5, <2>6
<1> QED
  BY <1>2, <1>3, <1>4, <1>5

LEMMA ScpiAcceptRawInv ==
  ASSUME TypeInv, RawInv, ScpiAccept
  PROVE  RawInv'
<1>1. CASE external_control
  <2>1. turn' = "vxi"
    BY <1>1 DEF ScpiAccept
  <2>2. CASE Stop(client) /\ UNCHANGED <<parserVars, rawUsed, rawBacklog, sent, got, rawOut>>
    BY <2>2, StopKeepsRawInv DEF parserVars
  <2>3. CASE ~Alive(client, got) /\ UNCHANGED <<client, rawOpen>>
             /\ UNCHANGED <<parserVars, rawUsed, rawBacklog, sent, got, rawOut>>
    <3>1. ~Alive(client, got)'
      BY <2>3 DEF Alive
    <3>2. RawBacklogInv' /\ QuietInv' /\ BuffersInv'
      BY <2>3, <3>1 DEF RawInv, RawBacklogInv, QuietInv, BuffersInv
    <3> QED
      BY <2>3, <3>2, HistoryStays DEF RawInv, parserVars
  <2> QED
    BY <1>1, <2>2, <2>3 DEF ScpiAccept, LoopAccept
<1>2. CASE ~external_control
  <2>1. turn' = "scpi_read" /\ AcceptClient
    BY <1>2 DEF ScpiAccept, LoopAccept
  <2>2. QuietInv'
    BY <2>1 DEF QuietInv
  <2>3. UNCHANGED <<done, rawOut, got, sent, rawUsed>>
    BY <2>1 DEF AcceptClient, parserVars, socketVars
  <2>4. CASE UNCHANGED <<parserVars, socketVars>>
    <3>1. BuffersInv' /\ RawBacklogInv'
      BY <2>4 DEF RawInv, BuffersInv, LineSoFar, Alive, RawBacklogInv, parserVars, socketVars
    <3> QED
      BY <2>2, <2>3, <3>1, HistoryStays DEF RawInv
  <2>5. CASE rawBacklog # <<>>
    <3> DEFINE new == Head(rawBacklog)
    <3>1. /\ Len(rawBacklog) \in Nat /\ Len(rawBacklog) # 0
          /\ new = rawBacklog[1] /\ new \in rawUsed
          /\ Len(Tail(rawBacklog)) = Len(rawBacklog) - 1
          /\ \A i \in 1..(Len(rawBacklog) - 1) : Tail(rawBacklog)[i] = rawBacklog[i + 1]
      BY <2>5, HeadTailSeq DEF TypeInv, TypeOK, SocketTypeOK
    <3>2. /\ rawBacklog' = Tail(rawBacklog)
          /\ \/ UNCHANGED <<client, write_buffer, input>> /\ rawOpen' \subseteq rawOpen
             \/ /\ client' = new /\ write_buffer' = <<>> /\ input' = <<>>
                /\ UNCHANGED rawOpen
      BY <2>1, <2>5 DEF AcceptClient, reset_buffers
    <3> HIDE DEF new
    <3>3. \A i \in 1..Len(rawBacklog') :
            i + 1 \in 1..Len(rawBacklog) /\ rawBacklog'[i] = rawBacklog[i + 1]
      BY <3>1, <3>2
    <3>4. 1 \in 1..Len(rawBacklog) /\ got[new] = 0
      BY <3>1 DEF RawInv, RawBacklogInv
    <3>5. RawBacklogInv'
      <4>1. \A i, j \in 1..Len(rawBacklog') : rawBacklog'[i] = rawBacklog'[j] => i = j
        BY <3>3 DEF RawInv, RawBacklogInv
      <4>2. ASSUME NEW i \in 1..Len(rawBacklog')
            PROVE  rawBacklog'[i] # client' /\ got'[rawBacklog'[i]] = 0
        <5>1. i + 1 \in 1..Len(rawBacklog) /\ rawBacklog'[i] = rawBacklog[i + 1] /\ i + 1 # 1
          BY <3>3, <4>2
        <5>2. rawBacklog[i + 1] # new /\ rawBacklog[i + 1] # client
              /\ got[rawBacklog[i + 1]] = 0
          BY <3>1, <3>4, <5>1 DEF RawInv, RawBacklogInv
        <5> QED
          BY <2>3, <3>2, <5>1, <5>2
      <4> QED
        BY <2>3, <4>1, <4>2 DEF RawInv, RawBacklogInv
    <3>6. BuffersInv'
      <4>1. CASE UNCHANGED <<client, write_buffer, input>> /\ rawOpen' \subseteq rawOpen
        BY <2>3, <4>1 DEF RawInv, BuffersInv, LineSoFar, Alive
      <4>2. CASE client' = new /\ write_buffer' = <<>> /\ input' = <<>>
        <5>1. Len(input') = 0 /\ got'[client'] = 0
          BY <2>3, <3>4, <4>2, NoSeq
        <5>2. LineSoFar(client)'
          BY <5>1 DEF LineSoFar
        <5> QED
          BY <4>2, <5>2 DEF BuffersInv
      <4> QED
        BY <3>2, <4>1, <4>2
    <3> QED
      BY <2>2, <2>3, <3>5, <3>6, HistoryStays DEF RawInv
  <2> QED
    BY <2>1, <2>4, <2>5 DEF AcceptClient
<1> QED
  BY <1>1, <1>2

\* An answer goes out after those to earlier commands of its client.
LEMMA AnswerSent ==
  ASSUME TypeInv, AnswersInv, NEW c \in RawConns, client = c,
         NEW k \in Nat, got[c] < k, got' = [got EXCEPT ![c] = k],
         write_buffer = <<>>, OutputSent(Piece(c, k)) \/ rawOut' = rawOut
  PROVE  AnswersInv'
<1> DEFINE one == [to |-> c, answer |-> Piece(c, k)]
           Delivery == [to : RawConns, answer : Pieces]
<1>1. /\ got \in [RawConns -> Nat] /\ rawOut \in Seq(Delivery)
      /\ Len(rawOut) \in Nat
      /\ \A i \in 1..Len(rawOut) : rawOut[i].to \in RawConns /\ rawOut[i].answer.ix \in Nat
  <2>1. got \in [RawConns -> Nat] /\ rawOut \in Seq(Delivery)
    BY DEF TypeInv, TypeOK, SocketTypeOK
  <2>2. \A e \in Delivery : e.to \in RawConns /\ e.answer.ix \in Nat
    BY DEF Pieces
  <2> HIDE DEF Delivery
  <2>3. Len(rawOut) \in Nat /\ \A i \in 1..Len(rawOut) : rawOut[i] \in Delivery
    BY <2>1
  <2> QED
    BY <2>1, <2>2, <2>3
<1>2. \A d \in RawConns : got[d] <= got'[d]
  BY <1>1
<1>3. got'[c] = k
  BY <1>1
<1>4. CASE rawOut' = rawOut
  BY <1>1, <1>2, <1>4 DEF AnswersInv
<1>5. CASE rawOut' = Append(rawOut, one)
  <2>1. one \in Delivery /\ one.to = c /\ one.answer.conn = c /\ one.answer.ix = k
    BY DEF Piece, Pieces
  <2> HIDE DEF one, Delivery
  <2>2. /\ Len(rawOut') = Len(rawOut) + 1
        /\ \A i \in 1..Len(rawOut) : rawOut'[i] = rawOut[i]
        /\ rawOut'[Len(rawOut) + 1] = one
    BY <1>1, <1>5, <2>1, AppendSeq
  <2> SUFFICES ASSUME NEW i \in 1..Len(rawOut')
               PROVE  /\ rawOut'[i].answer.conn = rawOut'[i].to
                      /\ rawOut'[i].answer.ix <= got'[rawOut'[i].to]
                      /\ \A j \in 1..(i - 1) :
                           rawOut'[j].to = rawOut'[i].to
                             => rawOut'[j].answer.ix < rawOut'[i].answer.ix
    BY DEF AnswersInv
  <2>3. CASE i \in 1..Len(rawOut)
    <3>1. \A j \in 1..(i - 1) : j \in 1..Len(rawOut)
      BY <1>1, <2>3
    <3>2. rawOut[i].answer.ix <= got'[rawOut[i].to]
      BY <1>1, <1>2, <2>3 DEF AnswersInv
    <3> QED
      BY <2>2, <2>3, <3>1, <3>2 DEF AnswersInv
  <2>4. CASE i = Len(rawOut) + 1
    <3>1. \A j \in 1..(i - 1) : j \in 1..Len(rawOut)
      BY <1>1, <2>4
    <3>2. \A j \in 1..Len(rawOut) : rawOut[j].to = c => rawOut[j].answer.ix < k
      BY <1>1 DEF AnswersInv
    <3>3. k <= k
      OBVIOUS
    <3> QED
      BY <1>3, <2>1, <2>2, <2>4, <3>1, <3>2, <3>3
  <2> QED
    BY <1>1, <2>2, <2>3, <2>4
<1>6. CASE OutputSent(Piece(c, k))
  <2> DEFINE out == Append(write_buffer, Piece(c, k))
             delivered == [i \in DOMAIN out |-> [to |-> client, answer |-> out[i]]]
  <2>1. rawOut' = rawOut \/ rawOut' = rawOut \o delivered
    BY <1>6, Zenon DEF OutputSent
  <2>2. out = <<Piece(c, k)>>
    OBVIOUS
  <2>3. delivered = <<one>>
    BY <2>2
  <2>4. one \in Delivery
    BY DEF Piece, Pieces
  <2> HIDE DEF delivered, one, Delivery
  <2>5. rawOut \o <<one>> = Append(rawOut, one)
    BY <1>1, <2>4
  <2> QED
    BY <1>4, <1>5, <2>1, <2>3, <2>5
<1> QED
  BY <1>4, <1>6

\* The executed line is one its client sent.
LEMMA LineExecuted ==
  ASSUME TypeInv, LinesInv, NEW c \in RawConns, LineSoFar(c),
         NEW k \in Unread(c), ReadsUpTo(c, k), sent[c][k] = TRUE,
         NEW answer \in BOOLEAN, Execute(c, Buffered(c, k), answer), sent' = sent
  PROVE  LinesInv'
<1> DEFINE line == Buffered(c, k)
           Record == [by : RawConns \cup VxiConns, line : Seq(Pieces), answer : BOOLEAN]
           rec == [by |-> c, line |-> line, answer |-> answer]
<1>1. PICK f, l \in Nat : IsLine(c, line, f, l)
  <2>1. got[c] - Len(input) + 1 \in Nat /\ k \in Nat
    BY DEF LineSoFar, Unread, TypeInv, TypeOK, ParserTypeOK, SocketTypeOK
  <2> QED
    BY <2>1, LineComplete
<1>2. done \in Seq(Record) /\ Len(done) \in Nat
  BY DEF TypeInv, TypeOK, ParserTypeOK
<1>3. rec \in Record /\ rec.by = c /\ rec.line = line
  <2>1. line \in Seq(Pieces)
    BY BufferedSeq DEF TypeInv, TypeOK
  <2> HIDE DEF line
  <2> QED
    BY <2>1
<1>4. done' = Append(done, rec)
  BY DEF Execute
<1> HIDE DEF line, Record, rec
<1>5. /\ Len(done') = Len(done) + 1
      /\ \A i \in 1..Len(done) : done'[i] = done[i]
      /\ done'[Len(done) + 1] = rec
  BY <1>2, <1>3, <1>4, AppendSeq
<1>6. \A d, t, m, n : IsLine(d, t, m, n)' <=> IsLine(d, t, m, n)
  BY DEF IsLine, Piece
<1>7. ASSUME NEW i \in 1..Len(done'), done'[i].by \in RawConns
      PROVE  \E m, n \in Nat : IsLine(done'[i].by, done'[i].line, m, n)
  <2>1. CASE i \in 1..Len(done)
    BY <1>5, <1>7, <2>1 DEF LinesInv
  <2>2. CASE i = Len(done) + 1
    BY <1>1, <1>3, <1>5, <2>2
  <2> QED
    BY <1>2, <1>5, <2>1, <2>2
<1> QED
  BY <1>6, <1>7 DEF LinesInv

LEMMA ReadClientRawInv ==
  ASSUME TypeInv, RawInv, NEW c \in RawConns, client = c, turn' = "scpi_reap",
         NEW k \in Unread(c), ReadsUpTo(c, k), ReadClient(c, k)
  PROVE  RawInv'
<1>1. /\ got \in [RawConns -> Nat] /\ k \in Nat /\ got[c] < k /\ k <= Len(sent[c])
      /\ c # NoConn /\ c \in rawUsed /\ sent[c][k] \in BOOLEAN
  <2>1. sent[c] \in Seq(BOOLEAN) /\ got \in [RawConns -> Nat]
    BY DEF TypeInv, TypeOK, SocketTypeOK
  <2>2. k \in Nat /\ got[c] < k /\ k <= Len(sent[c]) /\ k \in 1..Len(sent[c])
    BY <2>1 DEF Unread
  <2>3. sent[c][k] \in BOOLEAN
    BY <2>1, <2>2
  <2>4. c # NoConn /\ c \in rawUsed
    BY ScpiAssumption DEF TypeInv, TypeOK, SocketTypeOK
  <2> QED
    BY <2>1, <2>2, <2>3, <2>4
<1>2. LineSoFar(c) /\ write_buffer = <<>>
  <2>1. got[c] < Len(sent[c])
    BY <1>1 DEF TypeInv, TypeOK, SocketTypeOK
  <2> QED
    BY <1>1, <2>1 DEF RawInv, BuffersInv, Alive
<1>3. UNCHANGED <<external_control, rawUsed, rawBacklog, sent>>
  BY DEF ReadClient
<1>4. QuietInv'
  BY DEF QuietInv
<1>5. CASE Stop(c) /\ UNCHANGED <<got, done, rawOut>>
  BY <1>3, <1>5, StopKeepsRawInv
<1>6. ASSUME got' = [got EXCEPT ![c] = k]
      PROVE  got'[c] = k /\ (client' = client => RawBacklogInv')
  <2>1. got'[c] = k /\ \A d \in RawConns : d # c => got'[d] = got[d]
    BY <1>1, <1>6
  <2>2. \A i \in 1..Len(rawBacklog) : rawBacklog[i] \in RawConns
    BY DEF TypeInv, TypeOK, SocketTypeOK
  <2> QED
    BY <1>1, <1>3, <2>1, <2>2 DEF RawInv, RawBacklogInv
<1>7. CASE /\ got' = [got EXCEPT ![c] = k]
           /\ UNCHANGED <<client, rawOpen>>
           /\ ~sent[c][k] /\ input' = Buffered(c, k)
           /\ UNCHANGED <<external_output_ready, write_buffer, done, rawOut>>
  <2>1. LineSoFar(c)'
    BY <1>2, <1>3, <1>7, LineGoesOn
  <2>2. BuffersInv'
    BY <1>2, <1>7, <2>1 DEF BuffersInv, LineSoFar, Piece
  <2>3. LinesInv'
    BY <1>3, <1>7 DEF RawInv, LinesInv, IsLine
  <2>4. AnswersInv'
    BY <1>1, <1>2, <1>7, AnswerSent DEF RawInv
  <2> QED
    BY <1>4, <1>6, <1>7, <2>2, <2>3, <2>4 DEF RawInv
<1>8. ASSUME got' = [got EXCEPT ![c] = k], UNCHANGED <<client, rawOpen>>, sent[c][k],
             NEW answer \in BOOLEAN, Execute(c, Buffered(c, k), answer),
             OutputSent(Piece(c, k)) \/ UNCHANGED <<write_buffer, rawOut>>
      PROVE  RawInv'
  <2>1. sent[c][k] = TRUE /\ sent'[c][k] = TRUE
    BY <1>1, <1>3, <1>8
  <2>2. LinesInv'
    BY <1>2, <1>3, <1>8, <2>1, LineExecuted DEF RawInv
  <2>3. AnswersInv'
    BY <1>1, <1>2, <1>8, AnswerSent DEF RawInv
  <2>4. LineSoFar(client)'
    <3>1. Len(input') = 0 /\ got'[client'] = k /\ client' = c /\ k - 0 = k
      BY <1>1, <1>6, <1>8, NoSeq DEF Execute
    <3> QED
      BY <1>1, <2>1, <3>1 DEF LineSoFar
  <2>5. Alive(client, got)' => write_buffer' = <<>>
    <3>1. Alive(client, got)' <=> Alive(client, got')
      BY <1>3, <1>8 DEF Alive
    <3> QED
      BY <1>2, <1>8, <3>1, Zenon DEF OutputSent
  <2> QED
    BY <1>4, <1>6, <1>8, <2>2, <2>3, <2>4, <2>5 DEF RawInv, BuffersInv
<1>9. \/ Stop(c) /\ UNCHANGED <<got, done, rawOut>>
      \/ /\ got' = [got EXCEPT ![c] = k]
         /\ UNCHANGED <<client, rawOpen>>
         /\ \/ /\ ~sent[c][k] /\ input' = Buffered(c, k)
               /\ UNCHANGED <<external_output_ready, write_buffer, done, rawOut>>
            \/ /\ sent[c][k]
               /\ \E answer \in BOOLEAN :
                    /\ Execute(c, Buffered(c, k), answer)
                    /\ OutputSent(Piece(c, k)) \/ UNCHANGED <<write_buffer, rawOut>>
  BY Zenon DEF ReadClient
<1> QED
  BY <1>5, <1>7, <1>8, <1>9, Zenon

LEMMA ScpiReadRawInv ==
  ASSUME TypeInv, RawInv, ScpiRead
  PROVE  RawInv'
<1>1. turn' = "scpi_reap"
  BY DEF ScpiRead
<1>2. CASE UNCHANGED <<parserVars, socketVars>>
  <2>1. RawBacklogInv' /\ QuietInv' /\ BuffersInv'
    BY <1>1, <1>2 DEF RawInv, RawBacklogInv, QuietInv, BuffersInv, LineSoFar, Alive,
                      parserVars, socketVars
  <2> QED
    BY <1>2, <2>1, HistoryStays DEF RawInv, parserVars, socketVars
<1>3. CASE /\ client # NoConn
           /\ \E k \in Unread(client) : ReadsUpTo(client, k) /\ ReadClient(client, k)
  <2>1. PICK c \in RawConns : client = c
    BY <1>3 DEF TypeInv, TypeOK, SocketTypeOK
  <2>2. PICK k \in Unread(c) : ReadsUpTo(c, k) /\ ReadClient(c, k)
    BY <1>3, <2>1
  <2> QED
    BY <1>1, <2>1, <2>2, ReadClientRawInv
<1> QED
  BY <1>2, <1>3 DEF ScpiRead, LoopRead

LEMMA ScpiReapRawInv ==
  ASSUME TypeInv, TurnInv, RawInv, ScpiReap
  PROVE  RawInv'
<1>1. UNCHANGED <<parserVars, rawUsed, rawBacklog, sent, got, rawOut>>
      /\ external_control' = FALSE
  BY DEF ScpiReap, LoopReap, TurnInv, parserVars
<1>2. CASE Stop(client)
  BY <1>1, <1>2, StopKeepsRawInv DEF parserVars
<1>3. CASE UNCHANGED <<client, rawOpen>>
  <2>1. RawBacklogInv' /\ QuietInv' /\ BuffersInv'
    BY <1>1, <1>3 DEF RawInv, RawBacklogInv, QuietInv, BuffersInv, LineSoFar, Alive,
                      parserVars
  <2> QED
    BY <1>1, <2>1, HistoryStays DEF RawInv, parserVars
<1> QED
  BY <1>2, <1>3 DEF ScpiReap, LoopReap

\* The VXI-11 server writes to the buffers only when no raw client uses them.
LEMMA VxiRawInv ==
  ASSUME TypeInv, AccessInv, RawInv, Vxi
  PROVE  RawInv'
<1>1. turn = "vxi" /\ turn' = "http" /\ UNCHANGED socketVars
  <2>1. VxiLoop /\ turn = "vxi" /\ turn' = "http"
    BY DEF Vxi
  <2>2. handle_packet(vxiClient) => UNCHANGED socketVars
    BY DEF handle_packet, create_link, write, WriteIgnored, Write, read, Read, destroy_link, socketVars
  <2> QED
    BY <2>1, <2>2 DEF VxiLoop
<1>2. RawBacklogInv' /\ QuietInv' /\ AnswersInv'
  BY <1>1 DEF RawInv, RawBacklogInv, QuietInv, AnswersInv, socketVars
<1>3. Alive(client, got)' <=> Alive(client, got)
  BY <1>1 DEF Alive, socketVars
<1>4. CASE UNCHANGED <<input, write_buffer, done>>
  <2>1. LinesInv' /\ BuffersInv'
    BY <1>1, <1>3, <1>4 DEF RawInv, LinesInv, IsLine, BuffersInv, LineSoFar, socketVars
  <2> QED
    BY <1>2, <2>1 DEF RawInv
<1>5. CASE UNCHANGED <<input, done>> /\ write_buffer' = <<>>
  <2>1. LinesInv' /\ BuffersInv'
    BY <1>1, <1>3, <1>5 DEF RawInv, LinesInv, IsLine, BuffersInv, LineSoFar, socketVars
  <2> QED
    BY <1>2, <2>1 DEF RawInv
<1>6. ASSUME NEW v \in VxiConns, external_control = TRUE,
             NEW line \in Seq(Pieces), NEW answer \in BOOLEAN,
             Execute(v, line, answer)
      PROVE  RawInv'
  <2>1. BuffersInv'
    BY <1>1, <1>3, <1>6 DEF RawInv, QuietInv, BuffersInv
  <2>2. LinesInv'
    <3> DEFINE Record == [by : RawConns \cup VxiConns, line : Seq(Pieces), answer : BOOLEAN]
               rec == [by |-> v, line |-> line, answer |-> answer]
    <3>1. done \in Seq(Record) /\ Len(done) \in Nat
      BY DEF TypeInv, TypeOK, ParserTypeOK
    <3>2. rec \in Record /\ rec.by \notin RawConns
      BY VxiAssumption
    <3>3. done' = Append(done, rec)
      BY <1>6 DEF Execute
    <3>4. \A d, t, f, l : IsLine(d, t, f, l)' <=> IsLine(d, t, f, l)
      BY <1>1 DEF IsLine, Piece, socketVars
    <3> HIDE DEF Record, rec
    <3>5. /\ Len(done') = Len(done) + 1
          /\ \A i \in 1..Len(done) : done'[i] = done[i]
          /\ done'[Len(done) + 1] = rec
      BY <3>1, <3>2, <3>3, AppendSeq
    <3>6. \A i \in 1..Len(done') : i \in 1..Len(done) \/ i = Len(done) + 1
      BY <3>1, <3>5
    <3> QED
      BY <3>2, <3>4, <3>5, <3>6 DEF RawInv, LinesInv
  <2> QED
    BY <1>2, <2>1, <2>2 DEF RawInv
<1>7. CASE VxiAlive(vxiClient) /\ handle_packet(vxiClient)
  <2>1. PICK v \in VxiConns : v = vxiClient
    BY <1>7 DEF VxiAlive, TypeInv, TypeOK, VxiTypeOK
  <2>2. CASE UNCHANGED <<input, done>> /\ write_buffer' \in {write_buffer, <<>>}
    BY <1>4, <1>5, <2>2
  <2>3. CASE request[v] = "dev_write" /\ write(v)
    <3>1. v \in links /\ v \in VxiConns /\ external_control = TRUE
      <4>1. v \in links
        BY <2>3 DEF AccessInv, ControlInv
      <4> QED
        BY <1>7, <2>1, <4>1, VxiAssumption DEF AccessInv, ControlInv
    <3>2. ASSUME NEW answer \in BOOLEAN,
                 Write(v, <<Piece(v, writes[v] + 1)>>, answer)
          PROVE  RawInv'
      <4>1. writes[v] + 1 \in Nat
        BY DEF TypeInv, TypeOK, VxiTypeOK
      <4>2. <<Piece(v, writes[v] + 1)>> \in Seq(Pieces)
        BY <4>1 DEF Piece, Pieces
      <4>3. Execute(v, <<Piece(v, writes[v] + 1)>>, answer)
        BY <3>2 DEF Write
      <4> QED
        BY <1>6, <3>1, <4>2, <4>3
    <3> QED
      BY <1>4, <2>3, <3>2 DEF write, WriteIgnored, parserVars
  <2> QED
    BY <1>7, <2>1, <2>2, <2>3
       DEF handle_packet, create_link, read, Read, destroy_link
<1> QED
  BY <1>4, <1>7 DEF Vxi, VxiLoop, parserVars

LEMMA HttpRawInv ==
  ASSUME TypeInv, RawInv, Http
  PROVE  RawInv'
<1>1. turn' = "scpi_accept"
  BY DEF Http
<1>2. CASE RawDisconnect
  BY <1>2, StopKeepsRawInv DEF RawDisconnect, parserVars
<1>3. CASE UNCHANGED <<input, write_buffer, done, socketVars>>
  <2>1. RawBacklogInv' /\ QuietInv' /\ BuffersInv'
    BY <1>1, <1>3 DEF RawInv, RawBacklogInv, QuietInv, BuffersInv, LineSoFar, Alive,
                      socketVars
  <2> QED
    BY <1>3, <2>1, HistoryStays DEF RawInv, socketVars
<1> QED
  BY <1>2, <1>3 DEF Http, VxiDisconnect, parserVars

LEMMA RawInvHolds == Spec => []RawInv
<1>1. Init => RawInv
  <2> SUFFICES ASSUME Init
               PROVE  RawInv
    OBVIOUS
  <2>1. /\ client = NoConn /\ rawBacklog = <<>> /\ done = <<>> /\ rawOut = <<>>
        /\ \A c \in RawConns : got[c] = 0
        /\ Len(<<>>) = 0 /\ turn = "scpi_accept"
    BY NoSeq DEF Init, ScpiInit
  <2>2. RawBacklogInv /\ LinesInv /\ AnswersInv
    BY <2>1 DEF RawBacklogInv, LinesInv, AnswersInv
  <2>3. QuietInv /\ BuffersInv
    BY <2>1 DEF QuietInv, BuffersInv, Alive
  <2> QED
    BY <2>2, <2>3 DEF RawInv
<1>2. TypeInv /\ AccessInv /\ RawInv /\ [Next]_vars => RawInv'
  <2> SUFFICES ASSUME TypeInv, AccessInv, RawInv, [Next]_vars
               PROVE  RawInv'
    OBVIOUS
  <2>1. CASE UNCHANGED <<parserVars, socketVars, turn>>
    <3>1. RawBacklogInv' /\ QuietInv' /\ BuffersInv'
      BY <2>1 DEF RawInv, RawBacklogInv, QuietInv, BuffersInv, LineSoFar, Alive,
                  parserVars, socketVars
    <3> QED
      BY <2>1, <3>1, HistoryStays DEF RawInv, parserVars, socketVars
  <2>2. CASE ScpiAccept
    BY <2>2, ScpiAcceptRawInv
  <2>3. CASE ScpiRead
    BY <2>3, ScpiReadRawInv
  <2>4. CASE ScpiReap
    BY <2>4, ScpiReapRawInv DEF AccessInv
  <2>5. CASE Vxi
    BY <2>5, VxiRawInv
  <2>6. CASE Http
    BY <2>6, HttpRawInv
  <2>7. CASE RawPeer
    BY <2>7, RawPeerRawInv
  <2> QED
    BY <2>1, <2>2, <2>3, <2>4, <2>5, <2>6, <2>7 DEF Next, VxiPeer, vars
<1> QED
  BY <1>1, <1>2, TypeInvHolds, AccessInvHolds, PTL DEF Spec

\* However many clients connect, send, are refused, replaced, stopped or go
\* away, a raw client has executed only whole lines of its own.
THEOREM RawLinesStayIntact == Spec => []RawLinesIntact
<1>1. TypeInv /\ RawInv => RawLinesIntact
  <2> SUFFICES ASSUME TypeInv, RawInv, NEW i \in DOMAIN done, done[i].by \in RawConns
               PROVE  /\ WholeLine(done[i].line)
                      /\ done[i].line[1].conn = done[i].by
    BY DEF RawLinesIntact
  <2>1. i \in 1..Len(done)
    BY DEF TypeInv, TypeOK, ParserTypeOK
  <2> DEFINE d == done[i].by
             line == done[i].line
  <2>2. PICK f \in Nat, l \in Nat : IsLine(d, line, f, l)
    BY <2>1 DEF RawInv, LinesInv
  <2>3. line \in Seq(Pieces) /\ sent[d] \in Seq(BOOLEAN)
    <3> DEFINE Record == [by : RawConns \cup VxiConns, line : Seq(Pieces), answer : BOOLEAN]
    <3>1. done \in Seq(Record)
      BY DEF TypeInv, TypeOK, ParserTypeOK
    <3>2. \A r \in Record : r.line \in Seq(Pieces)
      OBVIOUS
    <3> HIDE DEF Record
    <3>3. done[i] \in Record
      BY <2>1, <3>1
    <3> QED
      BY <3>2, <3>3 DEF TypeInv, TypeOK, SocketTypeOK
  <2> HIDE DEF d, line
  <2>4. /\ 1 <= f /\ f <= l /\ l <= Len(sent[d]) /\ Len(line) = l - f + 1
        /\ \A j \in 1..Len(line) : line[j] = Piece(d, f + j - 1)
        /\ sent[d][l] = TRUE
        /\ \A j \in f..(l - 1) : sent[d][j] = FALSE
        /\ f > 1 => sent[d][f - 1] = TRUE
    BY <2>2 DEF IsLine
  <2>5. 1 \in 1..Len(line) /\ f + 1 - 1 = f /\ DOMAIN line = 1..Len(line)
    BY <2>3, <2>4
  <2>6. line[1].conn = d /\ line[1].ix = f
    BY <2>4, <2>5 DEF Piece
  <2>7. ASSUME NEW j \in 1..Len(line)
        PROVE  sent[d][f + j - 1] <=> j = Len(line)
    <3>1. CASE j = Len(line)
      <4>1. f + j - 1 = l
        BY <2>4, <3>1
      <4> QED
        BY <2>4, <3>1, <4>1
    <3>2. CASE j # Len(line)
      <4>1. f + j - 1 \in f..(l - 1)
        BY <2>4, <3>2
      <4> QED
        BY <2>4, <3>2, <4>1
    <3> QED
      BY <3>1, <3>2
  <2>8. WholeLine(line)
    BY <2>4, <2>5, <2>6, <2>7 DEF WholeLine
  <2> QED
    BY <2>6, <2>8 DEF d, line
<1> QED
  BY <1>1, TypeInvHolds, RawInvHolds, PTL

\* A raw client never gets an answer to somebody else's command, nor one of
\* its own twice or late.
THEOREM RawAnswersAreOwn == Spec => []RawGetsOwnAnswers
<1>1. TypeInv /\ RawInv => RawGetsOwnAnswers
  <2> SUFFICES ASSUME TypeInv, RawInv
               PROVE  RawGetsOwnAnswers
    OBVIOUS
  <2>1. DOMAIN rawOut = 1..Len(rawOut)
    BY DEF TypeInv, TypeOK, SocketTypeOK
  <2> QED
    BY <2>1 DEF RawInv, AnswersInv, RawGetsOwnAnswers
<1> QED
  BY <1>1, TypeInvHolds, RawInvHolds, PTL

-----------------------------------------------------------------------------
(* What VXI-11 clients get                                                 *)

\* Who has had a line executed was let in, and holds a link as long as the
\* connection is open; a client that asks for a link has none.
WritersInv ==
  /\ \A i \in 1..Len(done) :
       done[i].by \in VxiConns =>
         done[i].by \in vxiUsed /\ (done[i].by \in vxiOpen => done[i].by \in links)
  /\ \A v \in VxiConns : request[v] = "create_link" => v \notin links

\* The answer a to client v is in the output buffer, and read() would return
\* it, or v has it.
Kept(v, a) ==
  \/ external_output_ready = TRUE /\ \E k \in 1..Len(write_buffer) : write_buffer[k] = a
  \/ \E j \in 1..Len(vxiOut) : vxiOut[j] = [to |-> v, answer |-> a]

LastPiece(line) == line[Len(line)]

KeptInv ==
  holder \in vxiOpen =>
    \A i \in 1..Len(done) :
      (done[i].by = holder /\ done[i].answer = TRUE) => Kept(holder, LastPiece(done[i].line))

VxiInv == WritersInv /\ KeptInv

\* Nothing is lost when lines, buffer and what was read stay, whoever goes
\* away and whoever loses control.
LEMMA VxiInvStays ==
  ASSUME TypeInv, AccessInv, VxiInv,
         UNCHANGED <<done, vxiOut>>,
         vxiUsed \subseteq vxiUsed',
         vxiOpen' \cap vxiUsed \subseteq vxiOpen,
         \A v \in VxiConns : v \in links /\ v \in vxiOpen' => v \in links',
         \A v \in VxiConns : request'[v] = "create_link" => v \notin links',
         \/ holder' = NoConn
         \/ holder' = holder /\ UNCHANGED <<write_buffer, external_output_ready>>,
         vxiOpen' \subseteq VxiConns
  PROVE  VxiInv'
<1>1. WritersInv'
  BY DEF VxiInv, WritersInv
<1>2. CASE holder' = NoConn
  <2>1. holder' \notin vxiOpen'
    BY <1>2, VxiAssumption
  <2> QED
    BY <1>1, <2>1 DEF VxiInv, KeptInv
<1>3. CASE holder' = holder /\ UNCHANGED <<write_buffer, external_output_ready>>
  <2>1. holder \in vxiOpen' => holder \in vxiOpen
    BY VxiAssumption DEF AccessInv, ControlInv, TypeInv, TypeOK, VxiTypeOK
  <2>2. \A v, a : Kept(v, a)' <=> Kept(v, a)
    BY <1>3 DEF Kept
  <2>3. \A line : LastPiece(line)' = LastPiece(line)
    BY DEF LastPiece
  <2>4. KeptInv'
    BY <1>3, <2>1, <2>2 DEF VxiInv, KeptInv, LastPiece
  <2> QED
    BY <1>1, <2>4 DEF VxiInv
<1> QED
  BY <1>2, <1>3

\* The raw server takes answers away only when no VXI-11 client has control.
LEMMA RawServerVxiInv ==
  ASSUME TypeInv, AccessInv, VxiInv,
         (ScpiAccept \/ ScpiRead \/ ScpiReap \/ RawPeer \/ (RawDisconnect /\ UNCHANGED vxiVars))
  PROVE  VxiInv'
<1>1. UNCHANGED vxiVars
  BY DEF ScpiAccept, ScpiRead, ScpiReap, RawPeer
<1>2. UNCHANGED <<vxiUsed, vxiOpen, links, request, holder, vxiOut>>
  BY <1>1 DEF vxiVars
<1>3. vxiOpen \subseteq VxiConns
  BY DEF TypeInv, TypeOK, VxiTypeOK
<1>4. WritersInv /\ (holder = NoConn \/ UNCHANGED <<write_buffer, external_output_ready>>)
  <2>1. CASE ScpiAccept
    BY <2>1 DEF ScpiAccept, LoopAccept, AccessInv, ControlInv, VxiInv, parserVars,
                TypeInv, TypeOK, ParserTypeOK
  <2>2. CASE ScpiRead
    BY <2>2 DEF ScpiRead, AccessInv, ControlInv, TurnInv, VxiInv
  <2>3. CASE ScpiReap \/ RawPeer \/ RawDisconnect
    BY <2>3 DEF ScpiReap, LoopReap, RawPeer, RawConnect, RawClose, RawSend, RawDisconnect,
                parserVars, VxiInv
  <2> QED
    BY <2>1, <2>2, <2>3
<1>5. CASE done' = done
  BY <1>2, <1>3, <1>4, <1>5, VxiInvStays DEF VxiInv, WritersInv
<1>6. CASE holder = NoConn /\ \E c \in RawConns : Executed(c)
  <2>1. holder' \notin vxiOpen'
    BY <1>2, <1>3, <1>6, VxiAssumption
  <2> PICK c \in RawConns : Executed(c)
    BY <1>6
  <2>2. PICK line, answer :
          done' = Append(done, [by |-> c, line |-> line, answer |-> answer])
    BY DEF Executed
  <2>3. /\ \A i \in 1..Len(done) : done'[i] = done[i]
        /\ \A i \in 1..Len(done') : i \in 1..Len(done) \/ done'[i].by = c
    <3>1. done \in Seq([by : RawConns \cup VxiConns, line : Seq(Pieces), answer : BOOLEAN])
      BY DEF TypeInv, TypeOK, ParserTypeOK
    <3> QED
      BY <2>2, <3>1
  <2>4. WritersInv'
    BY <1>2, <2>2, <2>3, VxiAssumption DEF VxiInv, WritersInv
  <2> QED
    BY <2>1, <2>4 DEF VxiInv, KeptInv
<1>7. done' = done \/ (holder = NoConn /\ \E c \in RawConns : Executed(c))
  <2>1. CASE ScpiAccept
    BY <2>1 DEF ScpiAccept, LoopAccept, AcceptClient, parserVars
  <2>2. CASE ScpiRead
    <3>1. CASE done' = done
      BY <3>1
    <3>2. CASE \E k \in Unread(client) : client # NoConn /\ ReadClient(client, k)
      <4>1. holder = NoConn
        BY <2>2 DEF ScpiRead, AccessInv, ControlInv, TurnInv
      <4>2. client \in RawConns
        BY <3>2 DEF TypeInv, TypeOK, SocketTypeOK
      <4>3. PICK k \in Unread(client) : ReadClient(client, k)
        BY <3>2
      <4>4. done' = done \/ Executed(client)
        BY <4>3, Zenon DEF ReadClient, Execute, Executed
      <4> QED
        BY <4>1, <4>2, <4>4
    <3> QED
      BY <2>2, <3>1, <3>2, Zenon DEF ScpiRead, LoopRead, parserVars
  <2>3. CASE ScpiReap \/ RawPeer \/ RawDisconnect
    BY <2>3 DEF ScpiReap, LoopReap, RawPeer, RawConnect, RawClose, RawSend, RawDisconnect,
                parserVars
  <2> QED
    BY <2>1, <2>2, <2>3
<1> QED
  BY <1>5, <1>6, <1>7

\* dev_write: the client's earlier answers stay where they are, and that to
\* the new line, if it has one, follows them in the buffer.
LEMMA WriteVxiInv ==
  ASSUME TypeInv, AccessInv, VxiInv, NEW v \in VxiConns, v \in links, holder = v,
         NEW p \in Pieces, NEW answer \in BOOLEAN, Write(v, <<p>>, answer),
         UNCHANGED <<vxiUsed, vxiOpen, links, holder, vxiOut>>,
         \A u \in VxiConns : request'[u] = "create_link" => u \notin links
  PROVE  VxiInv'
<1> DEFINE Record == [by : RawConns \cup VxiConns, line : Seq(Pieces), answer : BOOLEAN]
           rec == [by |-> v, line |-> <<p>>, answer |-> answer]
<1>1. /\ write_buffer \in Seq(Pieces) /\ done \in Seq(Record)
      /\ external_output_ready \in BOOLEAN /\ vxiUsed \subseteq VxiConns /\ links \subseteq vxiUsed
  BY DEF TypeInv, TypeOK, ParserTypeOK, VxiTypeOK
<1>2. done' = Append(done, rec)
  BY DEF Write, Execute
<1>3. <<p>> \in Seq(Pieces) /\ Len(<<p>>) = 1 /\ <<p>>[1] = p
  OBVIOUS
<1>4. rec \in Record /\ rec.by = v /\ rec.answer = answer /\ LastPiece(rec.line) = p
  BY <1>3 DEF LastPiece
<1> HIDE DEF Record, rec
<1>5. /\ \A i \in 1..Len(done) : done'[i] = done[i]
      /\ Len(done') = Len(done) + 1
      /\ done'[Len(done) + 1] = rec
  BY <1>1, <1>2, <1>4, AppendSeq
<1>6. \A i \in 1..Len(done') : i \in 1..Len(done) \/ i = Len(done) + 1
  BY <1>1, <1>5
<1>7. WritersInv'
  BY <1>1, <1>4, <1>5, <1>6 DEF VxiInv, WritersInv
<1>8. CASE answer = TRUE
  <2>1. write_buffer' = Append(write_buffer, p) /\ external_output_ready' = TRUE
    BY <1>3, <1>8 DEF Write, OutputHeld
  <2>2. /\ \A k \in 1..Len(write_buffer) : write_buffer'[k] = write_buffer[k]
        /\ Len(write_buffer') = Len(write_buffer) + 1
        /\ write_buffer'[Len(write_buffer) + 1] = p
    BY <1>1, <2>1, AppendSeq
  <2>3. \A k \in 1..Len(write_buffer) : k \in 1..Len(write_buffer')
    BY <1>1, <2>2
  <2>4. \A a : Kept(v, a) => Kept(v, a)'
    BY <2>1, <2>2, <2>3 DEF Kept
  <2>5. Kept(v, p)'
    <3>1. Len(write_buffer) + 1 \in 1..Len(write_buffer')
      BY <1>1, <2>2
    <3> QED
      BY <2>1, <2>2, <3>1 DEF Kept
  <2>6. KeptInv'
    BY <1>4, <1>5, <1>6, <2>4, <2>5 DEF VxiInv, KeptInv, LastPiece
  <2> QED
    BY <1>7, <2>6 DEF VxiInv
<1>9. CASE answer = FALSE
  <2>1. UNCHANGED <<write_buffer, external_output_ready>>
    BY <1>9 DEF Write
  <2>2. \A a : Kept(v, a)' <=> Kept(v, a)
    BY <2>1 DEF Kept
  <2>3. KeptInv'
    BY <1>4, <1>5, <1>6, <1>9, <2>2 DEF VxiInv, KeptInv, LastPiece
  <2> QED
    BY <1>7, <2>3 DEF VxiInv
<1> QED
  BY <1>8, <1>9

\* dev_read: what is in the buffer goes to the client that has control.
LEMMA ReadVxiInv ==
  ASSUME TypeInv, AccessInv, VxiInv, NEW v \in VxiConns, holder = v, read(v),
         UNCHANGED vxiUsed,
         \A u \in VxiConns : request'[u] = "create_link" => u \notin links
  PROVE  VxiInv'
<1> DEFINE Delivery == [to : VxiConns, answer : Pieces]
           fetched == [i \in DOMAIN ReadResult |-> [to |-> v, answer |-> ReadResult[i]]]
<1>1. /\ UNCHANGED <<vxiOpen, links, holder, done, external_output_ready>>
      /\ vxiOut' = vxiOut \o fetched
  BY DEF read, Read
<1>2. vxiOut \in Seq(Delivery) /\ write_buffer \in Seq(Pieces)
  BY DEF TypeInv, TypeOK, ParserTypeOK, VxiTypeOK
<1>3. ReadResult \in Seq(Pieces)
  <2>1. ReadResult \in {write_buffer, <<>>}
    BY DEF ReadResult
  <2> QED
    BY <1>2, <2>1, NoSeq
<1>4. /\ fetched \in Seq(Delivery)
      /\ Len(fetched) = Len(ReadResult)
      /\ \A k \in 1..Len(ReadResult) : fetched[k] = [to |-> v, answer |-> ReadResult[k]]
  <2>1. DOMAIN ReadResult = 1..Len(ReadResult) /\ Len(ReadResult) \in Nat
    BY <1>3
  <2>2. \A k \in DOMAIN ReadResult : [to |-> v, answer |-> ReadResult[k]] \in Delivery
    BY <1>3
  <2> QED
    BY <2>1, <2>2
<1> HIDE DEF Delivery, fetched
<1>5. /\ \A j \in 1..Len(vxiOut) : vxiOut'[j] = vxiOut[j]
      /\ \A k \in 1..Len(fetched) : vxiOut'[Len(vxiOut) + k] = fetched[k]
      /\ Len(vxiOut') = Len(vxiOut) + Len(fetched)
  BY <1>1, <1>2, <1>4, ConcatSeq
<1>6. Len(vxiOut) \in Nat /\ Len(fetched) \in Nat
  BY <1>2, <1>4
<1>7. ASSUME NEW a, Kept(v, a)
      PROVE  Kept(v, a)'
  <2>1. CASE \E j \in 1..Len(vxiOut) : vxiOut[j] = [to |-> v, answer |-> a]
    <3>1. PICK j \in 1..Len(vxiOut) : vxiOut[j] = [to |-> v, answer |-> a]
      BY <2>1
    <3>2. j \in 1..Len(vxiOut') /\ vxiOut'[j] = [to |-> v, answer |-> a]
      BY <1>5, <1>6, <3>1
    <3> QED
      BY <3>2 DEF Kept
  <2>2. CASE /\ external_output_ready = TRUE
             /\ \E k \in 1..Len(write_buffer) : write_buffer[k] = a
    <3>1. PICK k \in 1..Len(write_buffer) : write_buffer[k] = a
      BY <2>2
    <3>2. external_control = TRUE
      BY VxiAssumption DEF AccessInv, ControlInv
    <3>3. ReadResult = write_buffer
      BY <2>2, <3>2 DEF ReadResult
    <3>4. k \in 1..Len(fetched) /\ fetched[k] = [to |-> v, answer |-> a]
      BY <1>4, <3>1, <3>3
    <3>5. Len(vxiOut) + k \in 1..Len(vxiOut')
      BY <1>5, <1>6, <3>4
    <3>6. vxiOut'[Len(vxiOut) + k] = [to |-> v, answer |-> a]
      BY <1>5, <3>4
    <3> QED
      BY <3>5, <3>6 DEF Kept
  <2> QED
    BY <1>7, <2>1, <2>2 DEF Kept
<1>8. WritersInv'
  BY <1>1 DEF VxiInv, WritersInv
<1>9. KeptInv'
  BY <1>1, <1>7 DEF VxiInv, KeptInv, LastPiece
<1> QED
  BY <1>8, <1>9 DEF VxiInv

LEMMA HandlePacketVxiInv ==
  ASSUME TypeInv, AccessInv, VxiInv, VxiAlive(vxiClient), handle_packet(vxiClient)
  PROVE  VxiInv'
<1>1. PICK v \in VxiConns : v = vxiClient /\ v \in vxiUsed
  BY DEF VxiAlive, TypeInv, TypeOK, VxiTypeOK
<1>2. /\ request' = [request EXCEPT ![v] = "none"]
      /\ UNCHANGED vxiUsed
      /\ request \in [VxiConns -> Procedures \cup {"none"}]
      /\ vxiOpen \subseteq VxiConns /\ vxiOpen \subseteq vxiUsed
  BY <1>1 DEF handle_packet, TypeInv, TypeOK, VxiTypeOK
<1>3. \A u \in VxiConns : request'[u] = "create_link" => u \notin links /\ u # v
  BY <1>2 DEF VxiInv, WritersInv
<1>4. CASE request[v] = "create_link" /\ create_link(v)
  <2>1. /\ holder' = v /\ links' = links \cup {v}
        /\ UNCHANGED <<done, vxiOut, vxiOpen, write_buffer, external_output_ready>>
    BY <1>4 DEF create_link
  <2>2. v \notin links
    BY <1>4 DEF VxiInv, WritersInv
  <2>3. WritersInv'
    BY <1>2, <1>3, <2>1 DEF VxiInv, WritersInv
  <2>4. KeptInv'
    BY <2>1, <2>2 DEF VxiInv, WritersInv, KeptInv
  <2> QED
    BY <2>3, <2>4 DEF VxiInv
<1>5. CASE request[v] = "dev_write" /\ write(v)
  <2>1. v \in links /\ holder = v
    BY <1>1, <1>5 DEF AccessInv, ControlInv
  <2>2. UNCHANGED <<vxiUsed, vxiOpen, links, holder, vxiOut>>
    BY <1>2, <1>5 DEF write, WriteIgnored
  <2>3. Piece(v, writes[v] + 1) \in Pieces
    BY DEF TypeInv, TypeOK, VxiTypeOK, Piece, Pieces
  <2>4. CASE \E answer \in BOOLEAN : Write(v, <<Piece(v, writes[v] + 1)>>, answer)
    BY <1>3, <2>1, <2>2, <2>3, <2>4, WriteVxiInv
  <2>5. CASE UNCHANGED <<parserVars, socketVars>>
    BY <1>2, <1>3, <2>2, <2>5, VxiInvStays DEF parserVars
  <2> QED
    BY <1>5, <2>4, <2>5 DEF write, WriteIgnored
<1>6. CASE request[v] = "dev_read" /\ read(v)
  <2>1. holder = v
    BY <1>1, <1>6 DEF AccessInv, ControlInv
  <2> QED
    BY <1>2, <1>3, <1>6, <2>1, ReadVxiInv
<1>7. CASE request[v] = "destroy_link" /\ destroy_link(v)
  <2>1. /\ holder' = NoConn /\ links' = links \ {v} /\ vxiOpen' = vxiOpen \ {v}
        /\ UNCHANGED <<done, vxiOut>>
    BY <1>7 DEF destroy_link, begin_next
  <2> QED
    BY <1>2, <1>3, <2>1, VxiInvStays
<1> QED
  BY <1>1, <1>4, <1>5, <1>6, <1>7 DEF handle_packet

\* All other steps of the VXI-11 server and its clients.
LEMMA VxiServerVxiInv ==
  ASSUME TypeInv, AccessInv, VxiInv, (Vxi \/ VxiPeer \/ VxiDisconnect)
  PROVE  VxiInv'
<1>0. /\ request \in [VxiConns -> Procedures \cup {"none"}]
      /\ vxiOpen \subseteq VxiConns /\ vxiOpen \subseteq vxiUsed
      /\ vxiClient \in vxiUsed \cup {NoConn} /\ vxiUsed \subseteq VxiConns
  BY DEF TypeInv, TypeOK, VxiTypeOK
<1>1. \A v \in VxiConns : request[v] = "create_link" => v \notin links
  BY DEF VxiInv, WritersInv
<1>2. CASE VxiAlive(vxiClient) /\ handle_packet(vxiClient)
  BY <1>2, HandlePacketVxiInv
<1>3. CASE UNCHANGED parserVars /\ (Accept \/ UNCHANGED vxiVars)
  BY <1>0, <1>1, <1>3, VxiInvStays DEF Accept, vxiVars, parserVars
<1>4. CASE VxiAlive(vxiClient) /\ UNCHANGED parserVars /\ Gone(vxiClient)
  BY <1>0, <1>1, <1>4, VxiInvStays DEF Gone, begin_next, VxiAlive, parserVars
<1>5. CASE VxiDisconnect
  BY <1>0, <1>1, <1>5, VxiInvStays DEF VxiDisconnect, begin_next, VxiAlive
<1>6. CASE VxiPeer
  <2>1. PICK v \in VxiConns :
          VxiConnect(v) \/ VxiClose(v) \/ \E p \in Procedures : VxiCall(v, p)
    BY <1>6 DEF VxiPeer
  <2>2. UNCHANGED <<write_buffer, external_output_ready, done>>
    BY <1>6 DEF VxiPeer, parserVars
  <2>3. CASE VxiConnect(v)
    <3>1. /\ v \notin vxiUsed /\ vxiUsed' = vxiUsed \cup {v} /\ vxiOpen' = vxiOpen \cup {v}
          /\ UNCHANGED <<request, links, holder, vxiOut>>
      BY <2>3 DEF VxiConnect
    <3> QED
      BY <1>0, <1>1, <2>2, <3>1, VxiInvStays
  <2>4. CASE VxiClose(v)
    BY <1>0, <1>1, <2>2, <2>4, VxiInvStays DEF VxiClose
  <2>5. ASSUME NEW p \in Procedures, VxiCall(v, p)
        PROVE  VxiInv'
    <3>1. /\ request' = [request EXCEPT ![v] = p]
          /\ p = "create_link" => v \notin links
          /\ UNCHANGED <<vxiUsed, vxiOpen, links, holder, vxiOut>>
      BY <2>5 DEF VxiCall
    <3> QED
      BY <1>0, <1>1, <2>2, <3>1, VxiInvStays
  <2> QED
    BY <2>1, <2>3, <2>4, <2>5
<1> QED
  BY <1>2, <1>3, <1>4, <1>5, <1>6 DEF Vxi, VxiLoop

LEMMA VxiInvHolds == Spec => []VxiInv
<1>1. Init => VxiInv
  <2> SUFFICES ASSUME Init
               PROVE  VxiInv
    OBVIOUS
  <2>1. done = <<>> /\ Len(<<>>) = 0 /\ \A v \in VxiConns : request[v] = "none"
    BY NoSeq DEF Init, ScpiInit, VxiInit
  <2> QED
    BY <2>1 DEF VxiInv, WritersInv, KeptInv
<1>2. TypeInv /\ AccessInv /\ VxiInv /\ [Next]_vars => VxiInv'
  <2> SUFFICES ASSUME TypeInv, AccessInv, VxiInv, [Next]_vars
               PROVE  VxiInv'
    OBVIOUS
  <2>1. CASE ScpiAccept \/ ScpiRead \/ ScpiReap \/ RawPeer
    BY <2>1, RawServerVxiInv
  <2>2. CASE Vxi \/ VxiPeer
    BY <2>2, VxiServerVxiInv
  <2>3. CASE UNCHANGED <<parserVars, vxiVars>>
    BY <2>3, VxiInvStays
       DEF parserVars, vxiVars, TypeInv, TypeOK, VxiTypeOK, VxiInv, WritersInv
  <2>4. CASE Http
    BY <2>3, <2>4, RawServerVxiInv, VxiServerVxiInv DEF Http
  <2> QED
    BY <2>1, <2>2, <2>3, <2>4 DEF Next, vars
<1> QED
  BY <1>1, <1>2, TypeInvHolds, AccessInvHolds, PTL DEF Spec

\* As long as a VXI-11 client that holds its link stays connected, no answer
\* to it is lost, whatever raw clients, other VXI-11 clients and the web
\* interface do meanwhile.
THEOREM VxiAnswersAreKept == Spec => []VxiAnswersKept
<1>1. TypeInv /\ VxiInv => VxiAnswersKept
  <2> SUFFICES ASSUME TypeInv, VxiInv
               PROVE  VxiAnswersKept
    OBVIOUS
  <2>1. /\ DOMAIN done = 1..Len(done)
        /\ DOMAIN write_buffer = 1..Len(write_buffer)
        /\ DOMAIN vxiOut = 1..Len(vxiOut)
    BY DEF TypeInv, TypeOK, ParserTypeOK, VxiTypeOK
  <2>2. external_output_ready \in BOOLEAN
    BY DEF TypeInv, TypeOK, ParserTypeOK
  <2>3. \A i \in 1..Len(done) : done[i].answer \in BOOLEAN
    <3> DEFINE Record == [by : RawConns \cup VxiConns, line : Seq(Pieces), answer : BOOLEAN]
    <3>1. done \in Seq(Record)
      BY DEF TypeInv, TypeOK, ParserTypeOK
    <3>2. \A r \in Record : r.answer \in BOOLEAN
      OBVIOUS
    <3> HIDE DEF Record
    <3> QED
      BY <3>1, <3>2
  <2> QED
    BY <2>1, <2>2, <2>3 DEF VxiInv, KeptInv, Kept, LastPiece, VxiAnswersKept
<1> QED
  BY <1>1, TypeInvHolds, VxiInvHolds, PTL
=============================================================================
