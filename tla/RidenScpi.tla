----------------------------- MODULE RidenScpi -----------------------------
(***************************************************************************)
(* RidenScpi: the SCPI parser and its raw socket server.  The raw server   *)
(* has one client at a time and collects its bytes in the parser's input   *)
(* buffer until a newline; another server (VXI-11) may take the parser     *)
(* over and use the same input and output buffers.                         *)
(*                                                                         *)
(* A raw client sends pieces of lines; sent[c][k] says whether the k-th    *)
(* piece ends a line.  A piece is named by its connection and its number,  *)
(* and an answer by the last piece of the line it answers.                 *)
(***************************************************************************)
EXTENDS Integers, Sequences

CONSTANTS
  RawConns,      \* connections to the raw socket server
  NoConn,        \* a WiFiClient without a connection
  INPUT_LENGTH,  \* SCPI_INPUT_BUFFER_LENGTH, in pieces
  MaxPieces      \* bound: pieces a raw client sends

ASSUME ScpiAssumption ==
  /\ NoConn \notin RawConns
  /\ INPUT_LENGTH \in Nat \ {0}
  /\ MaxPieces \in Nat

VARIABLES
  external_control,       \* the parser is used from outside of the socket server
  external_output_ready,  \* write_buffer holds complete output for read()
  write_buffer,           \* answers not yet fetched or sent
  input,                  \* scpi_context.buffer, up to its position
  client,                 \* the raw client
  rawUsed,                \* raw connections made so far
  rawOpen,                \* those that neither side has closed
  rawBacklog,             \* connections tcpServer has not yet accepted
  sent,                   \* what each client has sent
  got,                    \* how many pieces of it the dongle has read
  done,                   \* lines executed so far (history)
  rawOut                  \* answers sent to raw clients so far (history)

parserVars == <<external_control, external_output_ready, write_buffer, input, done>>
socketVars == <<client, rawUsed, rawOpen, rawBacklog, sent, got, rawOut>>

Piece(c, k) == [conn |-> c, ix |-> k]

ScpiInit ==
  /\ external_control = FALSE
  /\ external_output_ready = FALSE
  /\ write_buffer = <<>>
  /\ input = <<>>
  /\ client = NoConn
  /\ rawUsed = {}
  /\ rawOpen = {}
  /\ rawBacklog = <<>>
  /\ sent = [c \in RawConns |-> <<>>]
  /\ got = [c \in RawConns |-> 0]
  /\ done = <<>>
  /\ rawOut = <<>>

-----------------------------------------------------------------------------
(* The raw clients and the TCP stack                                       *)

RawConnect(c) ==
  /\ c \notin rawUsed
  /\ rawUsed' = rawUsed \cup {c}
  /\ rawOpen' = rawOpen \cup {c}
  /\ rawBacklog' = Append(rawBacklog, c)
  /\ UNCHANGED <<parserVars, client, sent, got, rawOut>>

RawSend(c, nl) ==
  /\ c \in rawOpen
  /\ Len(sent[c]) < MaxPieces
  /\ sent' = [sent EXCEPT ![c] = Append(@, nl)]
  /\ UNCHANGED <<parserVars, client, rawUsed, rawOpen, rawBacklog, got, rawOut>>

RawClose(c) ==
  /\ c \in rawOpen
  /\ rawOpen' = rawOpen \ {c}
  /\ UNCHANGED <<parserVars, client, rawUsed, rawBacklog, sent, got, rawOut>>

\* WiFiClient's operator bool: the peer is there, or something it sent.
Alive(c, n) == c # NoConn /\ (c \in rawOpen \/ n[c] < Len(sent[c]))

Stop(c) ==
  /\ client' = NoConn
  /\ rawOpen' = rawOpen \ {c}

-----------------------------------------------------------------------------
(* The parser                                                              *)

\* SCPI_Input with a complete line: the line is executed and the buffer is
\* empty again.  answer: whether the command produces output.
Execute(who, line, answer) ==
  /\ input' = <<>>
  /\ done' = Append(done, [by |-> who, line |-> line, answer |-> answer])

\* SCPI_Write, then SCPI_Flush, while under external control.
OutputHeld(a) ==
  /\ write_buffer' = Append(write_buffer, a)
  /\ external_output_ready' = TRUE

\* The same for the raw client; if that is gone the output stays.
OutputSent(a) ==
  /\ external_output_ready' = FALSE
  /\ LET out == Append(write_buffer, a)
     IN  IF Alive(client, got')
         THEN /\ write_buffer' = <<>>
              /\ rawOut' = rawOut \o [i \in DOMAIN out |-> [to |-> client, answer |-> out[i]]]
         ELSE /\ write_buffer' = out
              /\ UNCHANGED rawOut

-----------------------------------------------------------------------------
(* External control, used by the VXI-11 server through SCPI_handler        *)

\* Mutant: write() alone takes control.
ClaimNothing == UNCHANGED external_control

claim_external_control == external_control' = TRUE

release_external_control == external_control' = FALSE

\* RidenScpi::write drops a text that is empty, or longer than the input buffer:
\* no error is queued, nothing is executed.
WriteIgnored == UNCHANGED <<parserVars, socketVars>>

\* It overwrites the input buffer with any other.
Write(who, line, answer) ==
  /\ external_control' = TRUE
  /\ Execute(who, line, answer)
  /\ IF answer THEN OutputHeld(line[Len(line)])
               ELSE UNCHANGED <<write_buffer, external_output_ready>>
  /\ UNCHANGED socketVars

\* RidenScpi::read: what it returns, and what is left.
ReadResult == IF external_control /\ external_output_ready THEN write_buffer ELSE <<>>

Read ==
  /\ write_buffer' = IF external_control /\ external_output_ready THEN <<>> ELSE write_buffer
  /\ UNCHANGED <<external_control, external_output_ready, input, done, socketVars>>

-----------------------------------------------------------------------------
(* RidenScpi::loop, in three parts                                         *)

\* Mutant: the input of the previous client stays.
ResetOutputOnly == write_buffer' = <<>> /\ UNCHANGED input

\* Mutant: the output for the previous client stays.
ResetInputOnly == input' = <<>> /\ UNCHANGED write_buffer

reset_buffers ==
  /\ write_buffer' = <<>>
  /\ input' = <<>>

\* Accept, when nobody else uses the parser: one client at a time.
AcceptClient ==
  IF rawBacklog = <<>>
  THEN UNCHANGED <<parserVars, socketVars>>
  ELSE /\ rawBacklog' = Tail(rawBacklog)
       /\ LET new == Head(rawBacklog)
          IN  \/ /\ ~Alive(new, got)
                 /\ UNCHANGED <<client, rawOpen, write_buffer, input>>
              \/ /\ Alive(new, got) /\ ~Alive(client, got)
                 /\ client' = new
                 /\ reset_buffers
                 /\ UNCHANGED rawOpen
              \/ /\ Alive(new, got) /\ Alive(client, got)
                 /\ rawOpen' = rawOpen \ {new}
                 /\ UNCHANGED <<client, write_buffer, input>>
       /\ UNCHANGED <<external_control, external_output_ready, done, rawUsed, sent,
                      got, rawOut>>

\* Mutant: external control is not looked at.
LoopAcceptAlways == AcceptClient

LoopAccept ==
  IF ~external_control
  THEN AcceptClient
  ELSE /\ IF Alive(client, got) THEN Stop(client) ELSE UNCHANGED <<client, rawOpen>>
       /\ UNCHANGED <<parserVars, rawUsed, rawBacklog, sent, got, rawOut>>

\* The pieces not yet read; one round reads up to the first newline, or all.
Unread(c) == (got[c] + 1)..Len(sent[c])

ReadsUpTo(c, k) ==
  /\ k \in Unread(c)
  /\ sent[c][k] \/ k = Len(sent[c])
  /\ \A l \in Unread(c) : l < k => ~sent[c][l]

Buffered(c, k) == input \o [i \in 1..(k - got[c]) |-> Piece(c, got[c] + i)]

\* Mutant: room for one more than there is.
FitsOneMore(c, k) == Len(Buffered(c, k)) <= INPUT_LENGTH + 1

Fits(c, k) == Len(Buffered(c, k)) <= INPUT_LENGTH

\* SCPI_Input: what was read goes to the buffer, and with the newline the line
\* is executed.  What does not fit costs the client its connection.
ReadClient(c, k) ==
  /\ UNCHANGED <<external_control, rawUsed, rawBacklog, sent>>
  /\ \/ /\ ~Fits(c, k)
        /\ input' = <<>>
        /\ Stop(c)
        /\ UNCHANGED <<got, external_output_ready, write_buffer, done, rawOut>>
     \/ /\ Fits(c, k)
        /\ got' = [got EXCEPT ![c] = k]
        /\ UNCHANGED <<client, rawOpen>>
        /\ \/ /\ ~sent[c][k]
              /\ input' = Buffered(c, k)
              /\ UNCHANGED <<external_output_ready, write_buffer, done, rawOut>>
           \/ /\ sent[c][k]
              /\ \E answer \in BOOLEAN :
                   /\ Execute(c, Buffered(c, k), answer)
                   /\ IF answer THEN OutputSent(Piece(c, k))
                                ELSE UNCHANGED <<external_output_ready, write_buffer, rawOut>>

LoopRead ==
  \/ /\ client # NoConn
     /\ \E k \in Unread(client) : ReadsUpTo(client, k) /\ ReadClient(client, k)
  \/ /\ client # NoConn => Unread(client) = {}
     /\ UNCHANGED <<parserVars, socketVars>>

\* Stop a client that disconnects.  Whether connected() still counts what it
\* sent and nobody has read is up to the library.
LoopReap ==
  /\ \/ UNCHANGED <<client, rawOpen>>
     \/ Alive(client, got) /\ client \notin rawOpen /\ Stop(client)
  /\ UNCHANGED <<parserVars, rawUsed, rawBacklog, sent, got, rawOut>>

\* RidenScpi::disconnect_client, for the web interface.
RawDisconnect ==
  /\ Alive(client, got)
  /\ Stop(client)
  /\ UNCHANGED <<parserVars, rawUsed, rawBacklog, sent, got, rawOut>>
=============================================================================
