--------------------------- MODULE ModbusGateway ---------------------------
(***************************************************************************)
(* One Modbus RTU master shared by the dongle's own handlers (SCPI, web    *)
(* server, setup), which call RidenModbus, and by the Modbus TCP clients,  *)
(* whose requests RidenModbusBridge forwards.                              *)
(*                                                                         *)
(* The firmware is one thread: loop() calls a handler, and a handler that  *)
(* waits for the power supply does so inside its own call, running         *)
(* modbus.task() once per millisecond.  phase says where the thread is.    *)
(* The power supply and the clock go on meanwhile, and modbus.task() may   *)
(* call the bridge back, in the middle of somebody else's wait.            *)
(***************************************************************************)
EXTENDS ModbusRTU

CONSTANTS
  TcpClients,   \* Modbus TCP clients, by IP address
  Local,        \* the dongle's own handlers
  NoClient,     \* the bridge's cleared `ip'
  UnitAddress,  \* a Modbus slave address taken for an IP address
  TIMEOUT,      \* RidenModbus::timeout, in ticks
  CLOCK,        \* millis() counts modulo CLOCK
  MaxReq,       \* bound: requests made in a behaviour
  SEND_FAILS    \* whether readHreg, writeHreg and rawRequest may return 0

ASSUME GatewayAssumption ==
  /\ Local \notin TcpClients
  /\ NoClient \notin TcpClients
  /\ UnitAddress \notin TcpClients
  /\ TIMEOUT \in Nat
  /\ CLOCK \in Nat \ {0}
  /\ MaxReq \in Nat
  /\ SEND_FAILS \in BOOLEAN

VARIABLES
  phase,           \* where the thread is
  cur,             \* the request of the handler that is running, or 0
  started,         \* started_at of the current wait_for_inactive
  waited,          \* real time spent in it, saturating above TIMEOUT (history)
  now,             \* millis()
  buf,             \* whose answer the running call's buffer holds; 0: nobody's
  onRaw,           \* modbus_rtu_raw_callback is installed
  transaction_id,  \* the bridge's state: the client request it forwarded
  ip,
  reqs,            \* all requests so far (history)
  replies,         \* what the bridge has sent to its TCP end (history)
  last             \* how the last RidenModbus call ended (history)

bridgeVars == <<onRaw, transaction_id, ip, replies>>
vars == <<lineVars, phase, cur, started, waited, now, buf, bridgeVars, reqs, last>>

Origins == TcpClients \cup {Local}
Phases == {"loop", "wait_idle", "wait_answer", "bridge_wait"}
Waiting == phase \in {"wait_idle", "wait_answer"}
Statuses == {"none", "ok", "timeout", "send_failed"}

Min2(a, b) == IF a <= b THEN a ELSE b

Init ==
  /\ LineInit
  /\ phase = "loop"
  /\ cur = 0
  /\ started = 0
  /\ waited = 0
  /\ now \in 0..(CLOCK - 1)
  /\ buf = 0
  /\ onRaw = FALSE
  /\ transaction_id = 0
  /\ ip = NoClient
  /\ reqs = <<>>
  /\ replies = <<>>
  /\ last = [sn |-> 0, status |-> "none", got |-> 0]

-----------------------------------------------------------------------------
(* modbus.task() and its callback                                          *)

\* Mutant: the callback is not taken out and the bridge's state is kept.
RtuRawCallbackStays ==
  /\ replies' = Append(replies, [kind |-> "forwarded", to |-> ip,
                                 tid |-> transaction_id, sn |-> rx.sn])
  /\ UNCHANGED <<onRaw, transaction_id, ip>>

\* Mutant: only the state is cleared.
RtuRawCallbackInstalled ==
  /\ replies' = Append(replies, [kind |-> "forwarded", to |-> ip,
                                 tid |-> transaction_id, sn |-> rx.sn])
  /\ transaction_id' = 0
  /\ ip' = NoClient
  /\ UNCHANGED onRaw

\* RidenModbusBridge::modbus_rtu_raw_callback.  The master role, taken by
\* modbus.client() in begin(), leaves to_server false.
RtuRawCallback ==
  /\ onRaw' = FALSE
  /\ replies' = Append(replies, [kind |-> "forwarded", to |-> ip,
                                 tid |-> transaction_id, sn |-> rx.sn])
  /\ transaction_id' = 0
  /\ ip' = NoClient

\* The library handles the frame itself.  An answer of the expected shape is
\* copied to the caller's buffer; if that caller has returned, to a stack
\* that may or may not be in use by the call that now waits.
MasterPDU ==
  /\ IF /\ rx.kind = "answer"
        /\ data # 0
        /\ reqs[rx.sn].shape = reqs[active].shape
     THEN IF data = cur THEN buf' = rx.sn
                        ELSE buf' \in {buf, IF Waiting THEN rx.sn ELSE buf}
     ELSE UNCHANGED buf
  /\ EndTransaction

Task ==
  \/ /\ TaskNoFrame
     /\ UNCHANGED <<bridgeVars, buf>>
  \/ /\ rx.kind \in {"answer", "exception"}
     /\ \/ /\ active # 0 /\ onRaw
           /\ RtuRawCallback
           /\ EndTransaction
           /\ UNCHANGED buf
        \/ /\ active # 0 /\ ~onRaw
           /\ MasterPDU
           /\ UNCHANGED bridgeVars
        \* A frame nobody waits for: a library may drop it before or after
        \* it asks the raw callback.
        \/ /\ active = 0
           /\ SkipFrame
           /\ \/ UNCHANGED bridgeVars
              \/ onRaw /\ RtuRawCallback
           /\ UNCHANGED buf

-----------------------------------------------------------------------------
(* RidenModbus: read_holding_registers and write_holding_register(s)       *)

TimedOut == now > (started + TIMEOUT) % CLOCK

\* Mutant: a request may be made from within another one's wait.
NewRequestNested(c, s) ==
  /\ Len(reqs) < MaxReq
  /\ reqs' = Append(reqs, [from |-> c, shape |-> s])
  /\ cur' = Len(reqs) + 1

NewRequest(c, s) ==
  /\ phase = "loop"
  /\ Len(reqs) < MaxReq
  /\ reqs' = Append(reqs, [from |-> c, shape |-> s])
  /\ cur' = Len(reqs) + 1

StartWait(p) ==
  /\ phase' = p
  /\ started' = now
  /\ waited' = 0

Return(status, b) ==
  /\ phase' = "loop"
  /\ cur' = 0
  /\ started' = 0
  /\ waited' = 0
  /\ last' = [sn |-> cur, status |-> status, got |-> b]

\* A handler calls RidenModbus: a read with an uninitialised buffer, or a write.
Call(s) ==
  /\ NewRequest(Local, s)
  /\ StartWait("wait_idle")
  /\ buf' = 0
  /\ UNCHANGED <<lineVars, now, bridgeVars, last>>

\* Mutant: the timeout only ends the wait.
WaitIterationTrue ==
  /\ Waiting
  /\ active # 0
  /\ Task
  /\ IF TimedOut THEN Return("ok", buf')
                 ELSE UNCHANGED <<phase, cur, last, started, waited>>
  /\ UNCHANGED <<now, reqs>>

\* One round of the loop of wait_for_inactive.  The time is looked at after
\* modbus.task(), whether or not that has just ended the transaction.
WaitIteration ==
  /\ Waiting
  /\ active # 0
  /\ Task
  /\ IF TimedOut THEN Return("timeout", buf')
                 ELSE UNCHANGED <<phase, cur, last, started, waited>>
  /\ UNCHANGED <<now, reqs>>

SendRequest ==
  /\ phase = "wait_idle"
  /\ active = 0
  /\ \/ /\ Send(cur, IF reqs[cur].shape \in Reads THEN cur ELSE 0)
        /\ StartWait("wait_answer")
        /\ UNCHANGED <<cur, last>>
     \/ /\ SEND_FAILS
        /\ Return("send_failed", buf)
        /\ UNCHANGED lineVars
  /\ UNCHANGED <<now, buf, bridgeVars, reqs>>

AnswerSeen ==
  /\ phase = "wait_answer"
  /\ active = 0
  /\ Return("ok", buf)
  /\ UNCHANGED <<lineVars, now, buf, bridgeVars, reqs>>

\* RidenModbus::loop, called by loop() before the handlers.
LoopTask ==
  /\ phase = "loop"
  /\ Task
  /\ UNCHANGED <<phase, cur, started, waited, now, reqs, last>>

-----------------------------------------------------------------------------
(* RidenModbusBridge::modbus_tcp_raw_callback                              *)

\* Mutant: the bridge prepares for the answer before it waits for its turn.
TcpRequestEager(c, s) ==
  /\ NewRequest(c, s)
  /\ phase' = "bridge_wait"
  /\ transaction_id' = Len(reqs) + 1
  /\ ip' = c
  /\ onRaw' = TRUE
  /\ UNCHANGED <<lineVars, started, waited, now, buf, replies, last>>

TcpRequest(c, s) ==
  /\ NewRequest(c, s)
  /\ phase' = "bridge_wait"
  /\ UNCHANGED <<lineVars, started, waited, now, buf, bridgeVars, last>>

\* Mutant: the loop does not run the library.
BridgeIterationIdle ==
  /\ phase = "bridge_wait"
  /\ active # 0
  /\ UNCHANGED vars

\* This loop has no time limit of its own.
BridgeIteration ==
  /\ phase = "bridge_wait"
  /\ active # 0
  /\ Task
  /\ UNCHANGED <<phase, cur, started, waited, now, reqs, last>>

\* Mutant: onRaw is not called after a successful send.
ForwardOnly ==
  /\ phase = "bridge_wait"
  /\ active = 0
  /\ Send(cur, 0)
  /\ transaction_id' = cur
  /\ ip' = reqs[cur].from
  /\ phase' = "loop"
  /\ cur' = 0
  /\ UNCHANGED <<onRaw, replies, started, waited, now, buf, reqs, last>>

Forward ==
  /\ phase = "bridge_wait"
  /\ active = 0
  /\ \/ /\ Send(cur, 0)
        /\ transaction_id' = cur
        /\ ip' = reqs[cur].from
        /\ onRaw' = TRUE
        /\ UNCHANGED replies
     \* errorResponce takes an IP address and is given the slave's address.
     \/ /\ SEND_FAILS
        /\ replies' = Append(replies, [kind |-> "error", to |-> UnitAddress,
                                       tid |-> cur, sn |-> 0])
        /\ UNCHANGED <<lineVars, onRaw, transaction_id, ip>>
  /\ phase' = "loop"
  /\ cur' = 0
  /\ UNCHANGED <<started, waited, now, buf, reqs, last>>

-----------------------------------------------------------------------------
(* The rest of the world                                                   *)

Tick ==
  /\ LineTick
  /\ now' = (now + 1) % CLOCK
  /\ waited' = IF Waiting THEN Min2(waited + 1, TIMEOUT + 1) ELSE waited
  /\ UNCHANGED <<phase, cur, started, buf, bridgeVars, reqs, last>>

PowerSupply ==
  /\ Psu
  /\ UNCHANGED <<phase, cur, started, waited, now, buf, bridgeVars, reqs, last>>

Next ==
  \/ \E s \in Shapes : Call(s)
  \/ WaitIteration
  \/ SendRequest
  \/ AnswerSeen
  \/ LoopTask
  \/ \E c \in TcpClients, s \in Shapes : TcpRequest(c, s)
  \/ BridgeIteration
  \/ Forward
  \/ Tick
  \/ PowerSupply

Spec == Init /\ [][Next]_vars

\* The thread goes on, time passes, and a request the power supply has
\* received is answered or lost; nobody has to make a request.
Fairness ==
  /\ WF_vars(WaitIteration)
  /\ WF_vars(SendRequest)
  /\ WF_vars(AnswerSeen)
  /\ WF_vars(LoopTask)
  /\ WF_vars(BridgeIteration)
  /\ WF_vars(Forward)
  /\ WF_vars(Tick)
  /\ WF_vars(PowerSupply)

FairSpec == Spec /\ Fairness

-----------------------------------------------------------------------------
(* Properties                                                              *)

\* All variables have their types; serial numbers are those of requests.
LineTypeOK ==
  /\ active \in 0..Len(reqs)
  /\ age \in 0..(LIB_TIMEOUT + 1)
  /\ data \in 0..Len(reqs)
  /\ wire \in Seq(1..Len(reqs))
  /\ rx \in [kind : FrameKinds, sn : 0..Len(reqs)]
  /\ executed \in SUBSET (1..Len(reqs))

ThreadTypeOK ==
  /\ reqs \in Seq([from : Origins, shape : Shapes])
  /\ phase \in Phases
  /\ cur \in 0..Len(reqs)
  /\ started \in 0..(CLOCK - 1)
  /\ waited \in 0..(TIMEOUT + 1)
  /\ now \in 0..(CLOCK - 1)
  /\ buf \in 0..Len(reqs)
  /\ last \in [sn : 0..Len(reqs), status : Statuses, got : 0..Len(reqs)]

ReplyRec(n) == [kind : {"forwarded", "error"}, to : TcpClients \cup {UnitAddress},
                tid : 1..n, sn : 0..n]

BridgeTypeOK ==
  /\ onRaw \in BOOLEAN
  /\ transaction_id \in 0..Len(reqs)
  /\ ip \in TcpClients \cup {NoClient}
  /\ replies \in Seq(ReplyRec(Len(reqs)))

TypeOK == LineTypeOK /\ ThreadTypeOK /\ BridgeTypeOK

Forwarded == {i \in DOMAIN replies : replies[i].kind = "forwarded"}

\* Whatever the power supply does, and however the callback nests in the
\* waits of other handlers: what the bridge forwards goes, under the
\* transaction number of a request some client made, to that very client,
\* and no request is answered twice.
ForwardedOnce ==
  \A i \in Forwarded :
    /\ replies[i].to = reqs[replies[i].tid].from
    /\ \A j \in Forwarded : replies[j].tid = replies[i].tid => j = i

\* A RidenModbus call that reports success was carried out by the power
\* supply, and a read then returns the answer to that very read, even when
\* an earlier call has given up on an answer that was still to come.
HonestResult ==
  last.status = "ok" =>
    /\ last.sn \in executed
    /\ reqs[last.sn].shape \in Reads => last.got = last.sn

\* What a TCP client gets is the answer to the request it made, though the
\* RTU answer itself does not say whose it is: the callback forwards "the
\* response" (riden_modbus_bridge.cpp:94), not the next one.
AnswerMatchesRequest ==
  \A i \in Forwarded : replies[i].sn = replies[i].tid

\* wait_for_inactive waits "until no transaction is active or timeout has
\* passed" (riden_modbus.cpp:691): it does not give up earlier.
GivesUpOnlyAfterTimeout ==
  [][Waiting /\ phase' = "loop" /\ last'.status = "timeout"
     => waited >= TIMEOUT]_vars

\* Every call of a handler, and every wait of the bridge, comes to an end,
\* also when the power supply stays silent and when millis() wraps.
HandlersReturn == phase # "loop" ~> phase = "loop"

\* To its callers RidenModbus is a line on which accesses are carried out in
\* the order in which they were made, whoever made them and whoever gave up.
Accesses == INSTANCE RegisterAccess WITH
  asked <- Len(reqs), performed <- executed, pending <- cur,
  outcome <- [sn |-> last.sn, ok |-> last.status = "ok"]
ImplementsRegisterAccess == Accesses!Spec

\* A TCP client whose request the bridge has taken is answered, however many
\* other requests wait at the same time.
ClientAnswered ==
  \A n \in 1..MaxReq :
    (n \in DOMAIN reqs /\ reqs[n].from # Local)
      ~> \E i \in Forwarded : replies[i].tid = n
=============================================================================
