----------------------------- MODULE ModbusRTU -----------------------------
(***************************************************************************)
(* The serial line below the dongle: the ModbusRTU master of the           *)
(* modbus-esp8266 library and the power supply at its other end.  Neither  *)
(* is in src/; both are modelled from how RidenModbus and                  *)
(* RidenModbusBridge use them:                                             *)
(*   - server() is non-zero while a transaction is active, and only one    *)
(*     transaction can be active (the callers poll it before they send);   *)
(*   - readHreg keeps the caller's pointer and fills it when task() sees   *)
(*     the answer; no callback is passed, so how a transaction ended is    *)
(*     not reported to anybody;                                            *)
(*   - task() gives every received frame to the function registered with   *)
(*     onRaw, which may keep it from the library;                          *)
(*   - a transaction without an answer is dropped by task() after the      *)
(*     library's own timeout;                                              *)
(*   - an RTU answer carries no transaction number: it is matched with     *)
(*     the active request by its shape (function and register count).      *)
(*                                                                         *)
(* Requests are numbered in the order in which handlers make them; the     *)
(* number (0: none) stands for the request and for its answer.             *)
(***************************************************************************)
EXTENDS Integers, Sequences

CONSTANTS
  Reads, Writes,  \* shapes of requests whose answers the library tells apart
  LIB_TIMEOUT,    \* age after which the library drops a transaction
  PSU_LATENCY,    \* longest time the power supply takes to answer
  PSU_SILENT,     \* whether the power supply may leave a request unanswered
  PSU_REFUSES     \* whether it may answer with a Modbus exception

ASSUME RtuAssumption ==
  /\ Reads \cap Writes = {}
  /\ LIB_TIMEOUT \in Nat
  /\ PSU_LATENCY \in Nat
  /\ PSU_SILENT \in BOOLEAN
  /\ PSU_REFUSES \in BOOLEAN

VARIABLES
  active,    \* the request whose answer the library waits for; 0 iff server() = 0
  age,       \* time since it was sent, saturating above LIB_TIMEOUT
  data,      \* the request whose caller's buffer the library points to, or 0
  wire,      \* requests the power supply has received and not yet dealt with
  rx,        \* what the serial receive buffer holds
  executed   \* requests the power supply has carried out

lineVars == <<active, age, data, wire, rx, executed>>

Shapes == Reads \cup Writes
FrameKinds == {"none", "answer", "exception", "garbled"}
NoFrame == [kind |-> "none", sn |-> 0]
Garbled == [kind |-> "garbled", sn |-> 0]

LineInit ==
  /\ active = 0
  /\ age = 0
  /\ data = 0
  /\ wire = <<>>
  /\ rx = NoFrame
  /\ executed = {}

-----------------------------------------------------------------------------
(* Library calls, conjoined into the handlers that make them.              *)

\* readHreg, writeHreg and rawRequest on an idle line.  d is the request
\* whose buffer is to be filled, 0 for a write or a raw request.
Send(n, d) ==
  /\ active' = n
  /\ age' = 0
  /\ data' = d
  /\ wire' = Append(wire, n)
  /\ UNCHANGED <<rx, executed>>

\* The transaction, if any, ends and the receive buffer has been read.
EndTransaction ==
  /\ active' = 0
  /\ age' = 0
  /\ data' = 0
  /\ rx' = NoFrame
  /\ UNCHANGED <<wire, executed>>

\* The receive buffer is thrown away and the transaction goes on.
SkipFrame ==
  /\ rx' = NoFrame
  /\ UNCHANGED <<active, age, data, wire, executed>>

\* task() without a usable frame: only a transaction past the library's
\* timeout is dropped.
Expired == active # 0 /\ age > LIB_TIMEOUT

TaskNoFrame ==
  /\ rx.kind \in {"none", "garbled"}
  /\ IF Expired THEN EndTransaction ELSE SkipFrame

\* Time as the library sees it.
LineTick ==
  /\ active # 0 /\ wire # <<>> => age < PSU_LATENCY
  /\ age' = IF active # 0 /\ age <= LIB_TIMEOUT THEN age + 1 ELSE age
  /\ UNCHANGED <<active, data, wire, rx, executed>>

-----------------------------------------------------------------------------
(* The power supply, which serves requests in the order received.  A frame *)
(* that arrives on top of one nobody has read spoils both.                 *)

PsuReply(kind) ==
  /\ wire # <<>>
  /\ wire' = Tail(wire)
  /\ rx' = IF rx = NoFrame THEN [kind |-> kind, sn |-> Head(wire)] ELSE Garbled
  /\ UNCHANGED <<active, age, data>>

PsuAnswer ==
  /\ PsuReply("answer")
  /\ executed' = executed \cup {Head(wire)}

PsuRefuse ==
  /\ PSU_REFUSES
  /\ PsuReply("exception")
  /\ UNCHANGED executed

\* Request or answer is lost on the line; in the second case it was executed.
PsuIgnore ==
  /\ PSU_SILENT
  /\ wire # <<>>
  /\ wire' = Tail(wire)
  /\ executed' \in {executed, executed \cup {Head(wire)}}
  /\ UNCHANGED <<active, age, data, rx>>

Psu == PsuAnswer \/ PsuRefuse \/ PsuIgnore
=============================================================================
