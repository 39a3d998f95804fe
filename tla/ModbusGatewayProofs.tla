------------------------ MODULE ModbusGatewayProofs ------------------------
(***************************************************************************)
(* Proofs about ModbusGateway, for any number of clients, requests, any    *)
(* timeouts, any clock modulus.                                            *)
(***************************************************************************)
EXTENDS ModbusGateway, TLAPS

-----------------------------------------------------------------------------
(* Types                                                                   *)

\* While the thread serves somebody, cur is that request, and while the
\* bridge's callback is installed, its state names a request and a client.
StateNamesRequest ==
  /\ phase # "loop" => cur # 0
  /\ phase = "bridge_wait" => reqs[cur].from \in TcpClients
  /\ onRaw = TRUE => transaction_id # 0 /\ ip \in TcpClients
  /\ rx.kind \in {"answer", "exception"} => rx.sn # 0

TypeInv == TypeOK /\ StateNamesRequest

LEMMA WiderSeq ==
  ASSUME NEW S, NEW T, S \subseteq T, NEW s \in Seq(S)
  PROVE  s \in Seq(T)
  OBVIOUS

LEMMA AppendSeq ==
  ASSUME NEW S, NEW s \in Seq(S), NEW e \in S
  PROVE  /\ Append(s, e) \in Seq(S)
         /\ Len(Append(s, e)) = Len(s) + 1
         /\ \A i \in 1..Len(s) : Append(s, e)[i] = s[i]
         /\ Append(s, e)[Len(s) + 1] = e
  OBVIOUS

\* What modbus.task() does to the line.
LEMMA TaskLine ==
  ASSUME Task
  PROVE  EndTransaction \/ SkipFrame
  BY DEF Task, TaskNoFrame, MasterPDU

\* What it does to the bridge, and what to the buffer of the running call.
LEMMA TaskBridge ==
  ASSUME Task
  PROVE  \/ UNCHANGED bridgeVars
         \/ onRaw = TRUE /\ RtuRawCallback /\ rx.kind \in {"answer", "exception"}
  BY DEF Task, TaskNoFrame

LEMMA TaskBuffer ==
  ASSUME Task
  PROVE  buf' \in {buf, rx.sn}
  BY DEF Task, TaskNoFrame, MasterPDU

LEMMA LineKeepsTypes ==
  ASSUME TypeInv, EndTransaction \/ SkipFrame, UNCHANGED reqs
  PROVE  /\ LineTypeOK'
         /\ rx'.kind \in {"answer", "exception"} => rx'.sn # 0
<1> USE RtuAssumption, GatewayAssumption
      DEF TypeInv, TypeOK, LineTypeOK, ThreadTypeOK, StateNamesRequest, NoFrame,
          FrameKinds
<1>1. CASE EndTransaction
  BY <1>1 DEF EndTransaction
<1>2. CASE SkipFrame
  BY <1>2 DEF SkipFrame
<1> QED
  BY <1>1, <1>2

LEMMA CallbackKeepsTypes ==
  ASSUME TypeInv, onRaw = TRUE, RtuRawCallback, UNCHANGED reqs
  PROVE  BridgeTypeOK' /\ onRaw' = FALSE
<1> USE DEF TypeInv, TypeOK, LineTypeOK, ThreadTypeOK, BridgeTypeOK, StateNamesRequest
<1>1. [kind |-> "forwarded", to |-> ip, tid |-> transaction_id, sn |-> rx.sn]
        \in ReplyRec(Len(reqs))
  BY DEF ReplyRec
<1>2. replies' \in Seq(ReplyRec(Len(reqs)))
  BY <1>1, AppendSeq DEF RtuRawCallback
<1>3. 0 \in 0..Len(reqs)
  OBVIOUS
<1>4. /\ onRaw' = FALSE
      /\ transaction_id' = 0
      /\ ip' = NoClient
  BY DEF RtuRawCallback
<1> QED
  BY <1>2, <1>3, <1>4

\* The types of what modbus.task() changes are kept.
LEMMA TaskType ==
  ASSUME TypeInv, Task, UNCHANGED reqs
  PROVE  /\ LineTypeOK'
         /\ BridgeTypeOK'
         /\ buf' \in 0..Len(reqs)
         /\ onRaw' = TRUE => transaction_id' # 0 /\ ip' \in TcpClients
         /\ rx'.kind \in {"answer", "exception"} => rx'.sn # 0
<1>1. LineTypeOK' /\ (rx'.kind \in {"answer", "exception"} => rx'.sn # 0)
  BY TaskLine, LineKeepsTypes
<1>2. BridgeTypeOK' /\ (onRaw' = TRUE => transaction_id' # 0 /\ ip' \in TcpClients)
  <2>1. CASE UNCHANGED bridgeVars
    BY <2>1 DEF TypeInv, TypeOK, BridgeTypeOK, StateNamesRequest, bridgeVars
  <2>2. CASE onRaw = TRUE /\ RtuRawCallback
    BY <2>2, CallbackKeepsTypes
  <2> QED
    BY <2>1, <2>2, TaskBridge
<1>3. buf' \in 0..Len(reqs)
  BY TaskBuffer DEF TypeInv, TypeOK, LineTypeOK, ThreadTypeOK
<1> QED
  BY <1>1, <1>2, <1>3

\* What a new request does to the request list and to the sets of serial
\* numbers.
LEMMA NewRequestType ==
  ASSUME TypeOK, NEW c \in Origins, NEW s \in Shapes, NewRequest(c, s)
  PROVE  /\ reqs' \in Seq([from : Origins, shape : Shapes])
         /\ Len(reqs) \in Nat
         /\ Len(reqs') = Len(reqs) + 1
         /\ cur' = Len(reqs')
         /\ reqs'[cur'] = [from |-> c, shape |-> s]
         /\ \A i \in 1..Len(reqs) : reqs'[i] = reqs[i]
<1> USE DEF TypeOK, ThreadTypeOK, NewRequest
<1>1. [from |-> c, shape |-> s] \in [from : Origins, shape : Shapes]
  OBVIOUS
<1> QED
  BY <1>1, AppendSeq

LEMMA LongerList ==
  ASSUME TypeOK, Len(reqs) \in Nat, Len(reqs') = Len(reqs) + 1,
         UNCHANGED lineVars, UNCHANGED bridgeVars
  PROVE  LineTypeOK' /\ BridgeTypeOK'
<1> USE DEF TypeOK, lineVars, bridgeVars
<1>1. 1..Len(reqs) \subseteq 1..Len(reqs') /\ 0..Len(reqs) \subseteq 0..Len(reqs')
  OBVIOUS
<1>2. ReplyRec(Len(reqs)) \subseteq ReplyRec(Len(reqs'))
  BY <1>1 DEF ReplyRec
<1>3. LineTypeOK'
  BY <1>1, WiderSeq DEF LineTypeOK
<1>4. BridgeTypeOK'
  <2>1. replies' \in Seq(ReplyRec(Len(reqs')))
    BY <1>2, WiderSeq DEF BridgeTypeOK
  <2>2. transaction_id' \in 0..Len(reqs')
    BY <1>1 DEF BridgeTypeOK
  <2> QED
    BY <2>1, <2>2 DEF BridgeTypeOK
<1> QED
  BY <1>3, <1>4

LEMMA NewRequestThread ==
  ASSUME TypeOK, NEW c \in Origins, NEW s \in Shapes, NewRequest(c, s),
         phase' \in Phases, started' \in 0..(CLOCK - 1), waited' \in 0..(TIMEOUT + 1),
         buf' \in {buf, 0}, UNCHANGED <<now, last>>
  PROVE  ThreadTypeOK' /\ cur' # 0
<1>1. /\ reqs' \in Seq([from : Origins, shape : Shapes])
      /\ Len(reqs) \in Nat
      /\ Len(reqs') = Len(reqs) + 1
      /\ cur' = Len(reqs')
  BY NewRequestType
<1>2. buf' \in 0..Len(reqs')
  BY <1>1 DEF TypeOK, ThreadTypeOK
<1>3. last' \in [sn : 0..Len(reqs'), status : Statuses, got : 0..Len(reqs')]
  BY <1>1 DEF TypeOK, ThreadTypeOK
<1> QED
  BY <1>1, <1>2, <1>3 DEF TypeOK, ThreadTypeOK

\* readHreg, writeHreg and rawRequest keep the types of the line.
LEMMA SendType ==
  ASSUME TypeOK, cur # 0, NEW d \in {0, cur}, Send(cur, d), UNCHANGED reqs
  PROVE  LineTypeOK' /\ UNCHANGED rx
<1> USE RtuAssumption DEF TypeOK, LineTypeOK, ThreadTypeOK, Send
<1>1. wire' \in Seq(1..Len(reqs))
  BY AppendSeq
<1> QED
  BY <1>1

\* The power supply keeps the types of the line.
LEMMA PsuType ==
  ASSUME TypeOK, Psu, UNCHANGED reqs,
         rx.kind \in {"answer", "exception"} => rx.sn # 0
  PROVE  LineTypeOK' /\ (rx'.kind \in {"answer", "exception"} => rx'.sn # 0)
<1> USE DEF TypeOK, LineTypeOK, ThreadTypeOK
<1>1. wire # <<>> => Head(wire) \in 1..Len(reqs) /\ Tail(wire) \in Seq(1..Len(reqs))
  OBVIOUS
<1>2. ASSUME NEW kind \in {"answer", "exception"}, PsuReply(kind)
      PROVE  /\ wire' \in Seq(1..Len(reqs)) /\ Head(wire) \in 1..Len(reqs)
             /\ rx' \in [kind : FrameKinds, sn : 0..Len(reqs)]
             /\ rx'.kind \in {"answer", "exception"} => rx'.sn # 0
             /\ UNCHANGED <<active, age, data>>
  <2>1. rx' \in {[kind |-> kind, sn |-> Head(wire)], Garbled}
    BY <1>2 DEF PsuReply
  <2>2. wire # <<>> /\ wire' = Tail(wire) /\ UNCHANGED <<active, age, data>>
    BY <1>2 DEF PsuReply
  <2>3. Head(wire) \in 1..Len(reqs) /\ Tail(wire) \in Seq(1..Len(reqs))
    BY <1>1, <2>2
  <2>4. CASE rx' = Garbled
    BY <2>2, <2>3, <2>4 DEF Garbled, FrameKinds
  <2>5. CASE rx' = [kind |-> kind, sn |-> Head(wire)]
    <3>1. Head(wire) \in 0..Len(reqs) /\ Head(wire) # 0
      BY <2>3
    <3>2. kind \in FrameKinds
      BY DEF FrameKinds
    <3>3. rx' \in [kind : FrameKinds, sn : 0..Len(reqs)] /\ rx'.sn # 0
      BY <2>5, <3>1, <3>2
    <3> QED
      BY <2>2, <2>3, <3>3
  <2> QED
    BY <2>1, <2>4, <2>5
<1>3. CASE PsuAnswer
  BY <1>2, <1>3 DEF PsuAnswer
<1>4. CASE PsuRefuse
  BY <1>2, <1>4 DEF PsuRefuse
<1>5. CASE PsuIgnore
  BY <1>1, <1>5 DEF PsuIgnore
<1> QED
  BY <1>3, <1>4, <1>5 DEF Psu

\* A return leaves the types of the thread's state as they are.
LEMMA ReturnType ==
  ASSUME ThreadTypeOK, NEW st \in Statuses, NEW b \in 0..Len(reqs), Return(st, b),
         UNCHANGED <<reqs, now>>, buf' \in 0..Len(reqs)
  PROVE  ThreadTypeOK' /\ phase' = "loop"
  BY GatewayAssumption DEF ThreadTypeOK, Return, Phases

LEMMA TypeInit == Init => TypeInv
<1> SUFFICES ASSUME Init PROVE TypeInv
  OBVIOUS
<1> USE RtuAssumption, GatewayAssumption DEF Init, LineInit
<1>1. Len(reqs) = 0 /\ reqs \in Seq([from : Origins, shape : Shapes])
  OBVIOUS
<1>2. LineTypeOK
  BY <1>1 DEF LineTypeOK, NoFrame, FrameKinds
<1>3. ThreadTypeOK
  BY <1>1 DEF ThreadTypeOK, Phases, Statuses
<1>4. BridgeTypeOK
  <2>1. replies \in Seq(ReplyRec(Len(reqs)))
    OBVIOUS
  <2>2. onRaw \in BOOLEAN
    BY Zenon
  <2>3. transaction_id \in 0..Len(reqs)
    BY <1>1
  <2>4. ip \in TcpClients \cup {NoClient}
    OBVIOUS
  <2> QED
    BY <2>1, <2>2, <2>3, <2>4, Zenon DEF BridgeTypeOK
<1>5. StateNamesRequest
  BY DEF StateNamesRequest, NoFrame
<1> QED
  BY <1>2, <1>3, <1>4, <1>5 DEF TypeInv, TypeOK

LEMMA TypeStep == TypeInv /\ [Next]_vars => TypeInv'
<1> SUFFICES ASSUME TypeInv, [Next]_vars PROVE TypeInv'
  OBVIOUS
<1> USE RtuAssumption, GatewayAssumption DEF TypeInv, TypeOK
<1>1. ASSUME NEW s \in Shapes, Call(s) PROVE TypeInv'
  <2>1. Local \in Origins /\ NewRequest(Local, s)
    BY <1>1 DEF Call, Origins
  <2>2. /\ phase' = "wait_idle"
        /\ started' \in 0..(CLOCK - 1)
        /\ waited' \in 0..(TIMEOUT + 1)
        /\ buf' = 0
        /\ UNCHANGED <<lineVars, now, bridgeVars, last>>
    BY <1>1 DEF Call, StartWait, ThreadTypeOK
  <2>3. ThreadTypeOK' /\ cur' # 0
    BY <2>1, <2>2, NewRequestThread DEF Phases
  <2>4. LineTypeOK' /\ BridgeTypeOK'
    BY <2>1, <2>2, NewRequestType, LongerList
  <2>5. StateNamesRequest'
    BY <2>2, <2>3 DEF StateNamesRequest, lineVars, bridgeVars
  <2> QED
    BY <2>3, <2>4, <2>5
<1>2. CASE WaitIteration
  <2>1. ThreadTypeOK'
    <3>1. CASE TimedOut
      BY <1>2, <3>1, TaskType, ReturnType DEF WaitIteration, Statuses
    <3>2. CASE ~TimedOut
      BY <1>2, <3>2, TaskType DEF WaitIteration, ThreadTypeOK
    <3> QED
      BY <3>1, <3>2
  <2>2. StateNamesRequest'
    BY <1>2, TaskType DEF WaitIteration, Waiting, Return, StateNamesRequest
  <2> QED
    BY <1>2, <2>1, <2>2, TaskType DEF WaitIteration
<1>3. CASE SendRequest
  <2>1. cur # 0
    BY <1>3 DEF SendRequest, StateNamesRequest
  <2>2. BridgeTypeOK'
    BY <1>3 DEF SendRequest, BridgeTypeOK, bridgeVars
  <2>3. ASSUME NEW d \in {0, cur}, Send(cur, d), StartWait("wait_answer"),
               UNCHANGED <<cur, last>>
        PROVE  TypeInv'
    <3>1. LineTypeOK' /\ UNCHANGED rx
      BY <1>3, <2>1, <2>3, SendType DEF SendRequest
    <3>2. ThreadTypeOK'
      BY <1>3, <2>3 DEF SendRequest, StartWait, ThreadTypeOK, Phases
    <3>3. StateNamesRequest'
      BY <1>3, <2>1, <2>3, <3>1
      DEF SendRequest, StartWait, StateNamesRequest, bridgeVars
    <3> QED
      BY <2>2, <3>1, <3>2, <3>3
  <2>4. CASE Return("send_failed", buf) /\ UNCHANGED lineVars
    <3>1. ThreadTypeOK'
      BY <1>3, <2>4, ReturnType DEF SendRequest, Statuses, ThreadTypeOK
    <3>2. LineTypeOK'
      BY <1>3, <2>4 DEF SendRequest, LineTypeOK, lineVars
    <3>3. StateNamesRequest'
      BY <1>3, <2>4 DEF SendRequest, Return, StateNamesRequest, lineVars, bridgeVars
    <3> QED
      BY <2>2, <3>1, <3>2, <3>3
  <2> QED
    BY <1>3, <2>3, <2>4 DEF SendRequest
<1>4. CASE AnswerSeen
  <2>1. ThreadTypeOK'
    BY <1>4, ReturnType DEF AnswerSeen, Statuses, ThreadTypeOK
  <2> QED
    BY <1>4, <2>1
    DEF AnswerSeen, Return, LineTypeOK, BridgeTypeOK, StateNamesRequest, lineVars,
        bridgeVars
<1>5. CASE LoopTask
  <2>1. ThreadTypeOK'
    BY <1>5, TaskType DEF LoopTask, ThreadTypeOK
  <2> QED
    BY <1>5, <2>1, TaskType DEF LoopTask, StateNamesRequest
<1>6. ASSUME NEW c \in TcpClients, NEW s \in Shapes, TcpRequest(c, s)
      PROVE  TypeInv'
  <2>1. c \in Origins /\ NewRequest(c, s)
    BY <1>6 DEF TcpRequest, Origins
  <2>2. /\ phase' = "bridge_wait"
        /\ UNCHANGED <<lineVars, started, waited, now, buf, bridgeVars, last>>
    BY <1>6 DEF TcpRequest
  <2>3. ThreadTypeOK' /\ cur' # 0
    BY <2>1, <2>2, NewRequestThread DEF ThreadTypeOK, Phases
  <2>4. reqs'[cur'].from = c /\ Len(reqs) \in Nat /\ Len(reqs') = Len(reqs) + 1
    <3>1. /\ reqs'[cur'] = [from |-> c, shape |-> s]
          /\ Len(reqs) \in Nat
          /\ Len(reqs') = Len(reqs) + 1
      BY <2>1, NewRequestType
    <3> QED
      BY <3>1
  <2>6. LineTypeOK' /\ BridgeTypeOK'
    BY <2>2, <2>4, LongerList
  <2>5. StateNamesRequest'
    BY <1>6, <2>2, <2>3, <2>4 DEF StateNamesRequest, lineVars, bridgeVars
  <2> QED
    BY <2>3, <2>5, <2>6
<1>7. CASE BridgeIteration
  <2>1. ThreadTypeOK'
    BY <1>7, TaskType DEF BridgeIteration, ThreadTypeOK
  <2> QED
    BY <1>7, <2>1, TaskType DEF BridgeIteration, StateNamesRequest
<1>8. CASE Forward
  <2>1. cur # 0 /\ reqs[cur].from \in TcpClients
    BY <1>8 DEF Forward, StateNamesRequest
  <2>2. ThreadTypeOK'
    BY <1>8 DEF Forward, ThreadTypeOK, Phases
  <2>3. CASE Send(cur, 0) /\ transaction_id' = cur /\ ip' = reqs[cur].from
             /\ onRaw' = TRUE /\ UNCHANGED replies
    <3>1. LineTypeOK' /\ UNCHANGED rx
      BY <1>8, <2>1, <2>3, SendType DEF Forward
    <3>2. BridgeTypeOK'
      BY <1>8, <2>1, <2>3 DEF Forward, BridgeTypeOK, ThreadTypeOK
    <3>3. StateNamesRequest'
      BY <1>8, <2>1, <2>3, <3>1 DEF Forward, StateNamesRequest
    <3> QED
      BY <2>2, <3>1, <3>2, <3>3
  <2>4. CASE replies' = Append(replies, [kind |-> "error", to |-> UnitAddress,
                                         tid |-> cur, sn |-> 0])
             /\ UNCHANGED <<lineVars, onRaw, transaction_id, ip>>
    <3>1. [kind |-> "error", to |-> UnitAddress, tid |-> cur, sn |-> 0]
            \in ReplyRec(Len(reqs))
      BY <2>1 DEF ReplyRec, ThreadTypeOK
    <3>2. replies' \in Seq(ReplyRec(Len(reqs)))
      BY <2>4, <3>1, AppendSeq DEF BridgeTypeOK
    <3>3. BridgeTypeOK'
      BY <1>8, <2>4, <3>2 DEF Forward, BridgeTypeOK
    <3>4. LineTypeOK' /\ StateNamesRequest'
      BY <1>8, <2>4 DEF Forward, LineTypeOK, StateNamesRequest, lineVars
    <3> QED
      BY <2>2, <3>3, <3>4
  <2> QED
    BY <1>8, <2>3, <2>4 DEF Forward
<1>9. CASE Tick
  <2>1. ThreadTypeOK'
    BY <1>9 DEF Tick, Min2, ThreadTypeOK
  <2>2. LineTypeOK'
    BY <1>9 DEF Tick, LineTick, LineTypeOK
  <2> QED
    BY <1>9, <2>1, <2>2
    DEF Tick, LineTick, BridgeTypeOK, StateNamesRequest, bridgeVars
<1>10. CASE PowerSupply
  <2>1. LineTypeOK' /\ (rx'.kind \in {"answer", "exception"} => rx'.sn # 0)
    BY <1>10, PsuType DEF PowerSupply, StateNamesRequest
  <2> QED
    BY <1>10, <2>1
    DEF PowerSupply, ThreadTypeOK, BridgeTypeOK, StateNamesRequest, bridgeVars
<1>11. CASE UNCHANGED vars
  BY <1>11 DEF vars, lineVars, bridgeVars, LineTypeOK, ThreadTypeOK, BridgeTypeOK,
               StateNamesRequest
<1> QED
  BY <1>1, <1>2, <1>3, <1>4, <1>5, <1>6, <1>7, <1>8, <1>9, <1>10, <1>11 DEF Next

\* Every variable keeps its type, and the state of a waiting handler and of
\* the bridge always names a request somebody made.
THEOREM TypeCorrect == Spec => []TypeOK
<1>1. TypeInv => TypeOK
  BY DEF TypeInv
<1> QED
  BY <1>1, TypeInit, TypeStep, PTL DEF Spec

-----------------------------------------------------------------------------
(* What the bridge forwards, whatever the power supply does                *)

\* The bridge's state names an unanswered request of a client, and so does
\* the request whose turn it still waits for; they are not the same.
BridgeInv ==
  /\ onRaw = TRUE =>
       /\ ip = reqs[transaction_id].from
       /\ \A i \in Forwarded : replies[i].tid # transaction_id
  /\ phase = "bridge_wait" =>
       /\ \A i \in Forwarded : replies[i].tid # cur
       /\ onRaw = TRUE => transaction_id # cur
  /\ ForwardedOnce

\* Facts about replies that TypeInv gives.
LEMMA ReplyFields ==
  ASSUME TypeInv, NEW i \in Forwarded
  PROVE  /\ i \in 1..Len(replies)
         /\ replies[i].tid \in 1..Len(reqs)
         /\ replies[i].kind = "forwarded"
<1>1. i \in 1..Len(replies) /\ replies[i].kind = "forwarded"
  BY DEF Forwarded, TypeInv, TypeOK, BridgeTypeOK
<1>2. replies[i] \in ReplyRec(Len(reqs))
  BY <1>1 DEF TypeInv, TypeOK, BridgeTypeOK
<1> QED
  BY <1>1, <1>2 DEF ReplyRec

\* A step that leaves the bridge and the requests alone and starts no wait.
LEMMA BridgeUntouched ==
  ASSUME TypeInv, BridgeInv, UNCHANGED <<reqs, bridgeVars>>,
         phase' = "bridge_wait" => UNCHANGED <<phase, cur>>
  PROVE  BridgeInv'
<1>1. Forwarded' = Forwarded /\ UNCHANGED <<onRaw, transaction_id, ip, replies, reqs>>
  BY DEF Forwarded, bridgeVars
<1> QED
  BY <1>1 DEF BridgeInv, ForwardedOnce

\* A new request is not yet forwarded, and the old ones keep their places.
LEMMA BridgeNewRequest ==
  ASSUME TypeInv, BridgeInv, NEW c \in Origins, NEW s \in Shapes, NewRequest(c, s),
         UNCHANGED bridgeVars
  PROVE  BridgeInv'
<1>1. /\ Len(reqs) \in Nat
      /\ Len(reqs') = Len(reqs) + 1
      /\ cur' = Len(reqs) + 1
      /\ \A i \in 1..Len(reqs) : reqs'[i] = reqs[i]
  BY NewRequestType DEF TypeInv
<1>2. Forwarded' = Forwarded /\ UNCHANGED <<onRaw, transaction_id, ip, replies>>
  BY DEF Forwarded, bridgeVars
<1>3. \A i \in Forwarded : replies[i].tid \in 1..Len(reqs)
  BY ReplyFields
<1>4. onRaw = TRUE => transaction_id \in 1..Len(reqs)
  BY <1>1 DEF TypeInv, TypeOK, BridgeTypeOK, StateNamesRequest
<1>5. ForwardedOnce'
  BY <1>1, <1>2, <1>3 DEF BridgeInv, ForwardedOnce
<1>6. onRaw' = TRUE => /\ ip' = reqs'[transaction_id'].from
                       /\ \A i \in Forwarded' : replies'[i].tid # transaction_id'
  BY <1>1, <1>2, <1>4 DEF BridgeInv
<1>7. /\ \A i \in Forwarded' : replies'[i].tid # cur'
      /\ onRaw' = TRUE => transaction_id' # cur'
  BY <1>1, <1>2, <1>3, <1>4
<1> QED
  BY <1>5, <1>6, <1>7 DEF BridgeInv

\* What one more reply adds to Forwarded.
LEMMA MoreReplies ==
  ASSUME TypeInv, NEW r \in ReplyRec(Len(reqs)), replies' = Append(replies, r)
  PROVE  /\ \A i \in Forwarded : i \in Forwarded' /\ replies'[i] = replies[i]
         /\ \A i \in Forwarded' : i \in Forwarded \/ (i = Len(replies) + 1 /\ replies'[i] = r)
         /\ r.kind # "forwarded" => Forwarded' = Forwarded
<1>1. replies \in Seq(ReplyRec(Len(reqs)))
  BY DEF TypeInv, TypeOK, BridgeTypeOK
<1>2. /\ replies' \in Seq(ReplyRec(Len(reqs)))
      /\ Len(replies') = Len(replies) + 1
      /\ \A i \in 1..Len(replies) : replies'[i] = replies[i]
      /\ replies'[Len(replies) + 1] = r
  BY <1>1, AppendSeq
<1>3. DOMAIN replies = 1..Len(replies) /\ DOMAIN replies' = 1..Len(replies')
      /\ Len(replies) \in Nat
  BY <1>1, <1>2
<1> QED
  BY <1>2, <1>3 DEF Forwarded

\* The callback forwards to the request named by the bridge's state, which
\* had no answer yet.
LEMMA BridgeCallback ==
  ASSUME TypeInv, BridgeInv, onRaw = TRUE, RtuRawCallback, UNCHANGED reqs,
         phase' = "bridge_wait" => UNCHANGED <<phase, cur>>
  PROVE  BridgeInv'
<1> DEFINE r == [kind |-> "forwarded", to |-> ip, tid |-> transaction_id, sn |-> rx.sn]
<1>1. r \in ReplyRec(Len(reqs)) /\ replies' = Append(replies, r)
  BY DEF RtuRawCallback, TypeInv, TypeOK, LineTypeOK, ThreadTypeOK, BridgeTypeOK,
         StateNamesRequest, ReplyRec
<1>2. /\ \A i \in Forwarded : i \in Forwarded' /\ replies'[i] = replies[i]
      /\ \A i \in Forwarded' : i \in Forwarded \/ (i = Len(replies) + 1 /\ replies'[i] = r)
  <2> HIDE DEF r
  <2> QED
    BY <1>1, MoreReplies
<1>3. r.to = reqs[r.tid].from /\ r.tid = transaction_id
  BY DEF BridgeInv
<1>4. \A i \in Forwarded : replies[i].tid # r.tid
  BY <1>3 DEF BridgeInv
<1> HIDE DEF r
<1>5. ForwardedOnce'
  <2>1. ASSUME NEW i \in Forwarded'
        PROVE  replies'[i].to = reqs'[replies'[i].tid].from
    BY <1>2, <1>3 DEF BridgeInv, ForwardedOnce
  <2>2. ASSUME NEW i \in Forwarded', NEW j \in Forwarded',
               replies'[j].tid = replies'[i].tid
        PROVE  j = i
    BY <1>2, <1>4, <2>2 DEF BridgeInv, ForwardedOnce
  <2> QED
    BY <2>1, <2>2 DEF ForwardedOnce
<1>6. onRaw' = FALSE
  BY DEF RtuRawCallback
<1>7. phase' = "bridge_wait" => \A i \in Forwarded' : replies'[i].tid # cur'
  BY <1>2, <1>3 DEF BridgeInv
<1> QED
  BY <1>5, <1>6, <1>7 DEF BridgeInv

LEMMA BridgeTask ==
  ASSUME TypeInv, BridgeInv, Task, UNCHANGED reqs,
         phase' = "bridge_wait" => UNCHANGED <<phase, cur>>
  PROVE  BridgeInv'
  BY TaskBridge, BridgeUntouched, BridgeCallback

LEMMA BridgeForward ==
  ASSUME TypeInv, BridgeInv, Forward
  PROVE  BridgeInv'
<1>1. phase = "bridge_wait" /\ phase' = "loop" /\ UNCHANGED reqs
  BY DEF Forward
<1>2. CASE transaction_id' = cur /\ ip' = reqs[cur].from /\ onRaw' = TRUE
           /\ UNCHANGED replies
  <2>1. Forwarded' = Forwarded
    BY <1>2 DEF Forwarded
  <2> QED
    BY <1>1, <1>2, <2>1 DEF BridgeInv, ForwardedOnce
<1>3. ASSUME replies' = Append(replies, [kind |-> "error", to |-> UnitAddress,
                                       tid |-> cur, sn |-> 0]),
             UNCHANGED <<onRaw, transaction_id, ip>>
      PROVE  BridgeInv'
  <2> DEFINE r == [kind |-> "error", to |-> UnitAddress, tid |-> cur, sn |-> 0]
  <2>1. r \in ReplyRec(Len(reqs)) /\ r.kind # "forwarded" /\ replies' = Append(replies, r)
    BY <1>1, <1>3 DEF ReplyRec, TypeInv, TypeOK, ThreadTypeOK, StateNamesRequest
  <2> HIDE DEF r
  <2>2. Forwarded' = Forwarded /\ \A i \in Forwarded : replies'[i] = replies[i]
    BY <2>1, MoreReplies
  <2>3. ForwardedOnce'
    BY <1>1, <2>2 DEF BridgeInv, ForwardedOnce
  <2>4. onRaw' = TRUE => /\ ip' = reqs'[transaction_id'].from
                         /\ \A i \in Forwarded' : replies'[i].tid # transaction_id'
    BY <1>1, <1>3, <2>2 DEF BridgeInv
  <2> QED
    BY <1>1, <2>3, <2>4 DEF BridgeInv
<1> QED
  BY <1>2, <1>3 DEF Forward

LEMMA BridgeStep == TypeInv /\ BridgeInv /\ [Next]_vars => BridgeInv'
<1> SUFFICES ASSUME TypeInv, BridgeInv, [Next]_vars PROVE BridgeInv'
  OBVIOUS
<1>1. ASSUME NEW s \in Shapes, Call(s) PROVE BridgeInv'
  <2>1. Local \in Origins /\ NewRequest(Local, s) /\ UNCHANGED bridgeVars
    BY <1>1 DEF Call, Origins
  <2> QED
    BY <2>1, BridgeNewRequest
<1>2. CASE WaitIteration
  <2>1. Task /\ UNCHANGED reqs /\ phase' # "bridge_wait"
    BY <1>2 DEF WaitIteration, Waiting, Return
  <2> QED
    BY <2>1, BridgeTask
<1>3. CASE SendRequest \/ AnswerSeen
  BY <1>3, BridgeUntouched DEF SendRequest, AnswerSeen, Return, StartWait
<1>4. CASE LoopTask \/ BridgeIteration
  <2>1. Task /\ UNCHANGED <<reqs, phase, cur>>
    BY <1>4 DEF LoopTask, BridgeIteration
  <2> QED
    BY <2>1, BridgeTask
<1>5. ASSUME NEW c \in TcpClients, NEW s \in Shapes, TcpRequest(c, s)
      PROVE  BridgeInv'
  <2>1. c \in Origins /\ NewRequest(c, s) /\ UNCHANGED bridgeVars
    BY <1>5 DEF TcpRequest, Origins
  <2> QED
    BY <2>1, BridgeNewRequest
<1>6. CASE Forward
  BY <1>6, BridgeForward
<1>7. CASE Tick \/ PowerSupply \/ UNCHANGED vars
  BY <1>7, BridgeUntouched DEF Tick, PowerSupply, vars
<1> QED
  BY <1>1, <1>2, <1>3, <1>4, <1>5, <1>6, <1>7 DEF Next

\* Whatever the power supply answers, refuses, loses or delays, the bridge
\* forwards at most one frame for a client's request, and to that client.
THEOREM BridgeForwardsOnce == Spec => []ForwardedOnce
<1>1. Init => BridgeInv
  BY DEF Init, BridgeInv, ForwardedOnce, Forwarded
<1>2. BridgeInv => ForwardedOnce
  BY DEF BridgeInv
<1> QED
  BY <1>1, <1>2, TypeInit, TypeStep, BridgeStep, PTL DEF Spec

-----------------------------------------------------------------------------
(* Results, when every request is answered in time                         *)

\* The power supply answers every request before the library gives up.
HealthyLine ==
  /\ PSU_SILENT = FALSE
  /\ PSU_REFUSES = FALSE
  /\ PSU_LATENCY <= LIB_TIMEOUT

\* Then the line holds the active request, or its answer, and nothing else,
\* and the library's pointer belongs to the active request.
LineInv ==
  /\ active = 0 => wire = <<>> /\ rx = NoFrame
  /\ active # 0 => \/ wire = <<active>> /\ rx = NoFrame /\ age <= PSU_LATENCY
                   \/ /\ wire = <<>>
                      /\ rx = [kind |-> "answer", sn |-> active]
                      /\ active \in executed
  /\ data # 0 => data = active

\* The callback is installed only for the active request, and a call that
\* waits for its answer is either the active request or has been served.
ThreadInv ==
  /\ Waiting => reqs[cur].from = Local
  /\ onRaw = TRUE => active = transaction_id
  /\ phase = "wait_answer" =>
       \/ active = cur /\ (reqs[cur].shape \in Reads => data = cur)
       \/ active = 0 /\ cur \in executed /\ (reqs[cur].shape \in Reads => buf = cur)

ResultInv == HonestResult /\ AnswerMatchesRequest

HealthyInv == TypeInv /\ BridgeInv /\ LineInv /\ ThreadInv /\ ResultInv

\* On a healthy line modbus.task() does one of three things: nothing, hand
\* the answer to the active request to the library, or hand it to the bridge.
LEMMA HealthyTask ==
  ASSUME HealthyLine, HealthyInv, Task
  PROVE  \/ UNCHANGED <<lineVars, bridgeVars, buf>>
         \/ /\ active # 0 /\ active \in executed /\ wire = <<>> /\ onRaw # TRUE
            /\ EndTransaction
            /\ UNCHANGED bridgeVars
            /\ data # 0 /\ data = cur => buf' = active
         \/ /\ active # 0 /\ onRaw = TRUE /\ rx.sn = active /\ wire = <<>>
            /\ EndTransaction
            /\ RtuRawCallback
            /\ UNCHANGED buf
<1> USE DEF HealthyInv
<1>1. active \in Nat /\ age \in Nat /\ LIB_TIMEOUT \in Nat /\ PSU_LATENCY \in Nat
  BY RtuAssumption DEF TypeInv, TypeOK, LineTypeOK, ThreadTypeOK
<1>2. CASE TaskNoFrame /\ UNCHANGED <<bridgeVars, buf>>
  <2>1. rx = NoFrame
    BY <1>2 DEF TaskNoFrame, LineInv
  <2>2. ~Expired
    BY <1>1, <2>1 DEF Expired, LineInv, HealthyLine, NoFrame
  <2>3. SkipFrame
    BY <1>2, <2>2 DEF TaskNoFrame
  <2> QED
    BY <1>2, <2>1, <2>3 DEF SkipFrame, lineVars
<1>3. CASE rx.kind \in {"answer", "exception"}
  <2>1. /\ active # 0 /\ active \in executed /\ wire = <<>>
        /\ rx = [kind |-> "answer", sn |-> active]
    BY <1>3 DEF LineInv, NoFrame
  <2>2. rx.kind = "answer" /\ rx.sn = active
    BY <2>1
  <2>3. CASE onRaw /\ RtuRawCallback /\ EndTransaction /\ UNCHANGED buf
    BY <2>1, <2>2, <2>3
  <2>4. CASE ~onRaw /\ MasterPDU /\ UNCHANGED bridgeVars
    <3>1. data # 0 /\ data = cur => buf' = active
      BY <2>2, <2>4 DEF MasterPDU
    <3>2. EndTransaction
      BY <2>4 DEF MasterPDU
    <3> QED
      BY <2>1, <2>4, <3>1, <3>2
  <2> QED
    BY <1>3, <2>1, <2>3, <2>4 DEF Task, TaskNoFrame
<1> QED
  BY <1>2, <1>3 DEF Task

\* The line after modbus.task().
LEMMA HealthyTaskLine ==
  ASSUME HealthyLine, HealthyInv, Task
  PROVE  LineInv'
<1>1. CASE UNCHANGED <<lineVars, bridgeVars, buf>>
  BY <1>1 DEF HealthyInv, LineInv, lineVars
<1>2. CASE wire = <<>> /\ EndTransaction
  BY <1>2 DEF EndTransaction, HealthyInv, LineInv, NoFrame
<1> QED
  BY <1>1, <1>2, HealthyTask

\* What was forwarded after modbus.task() is what was asked for.
LEMMA HealthyTaskReplies ==
  ASSUME HealthyLine, HealthyInv, Task, UNCHANGED reqs
  PROVE  AnswerMatchesRequest'
<1>1. CASE UNCHANGED bridgeVars
  BY <1>1 DEF HealthyInv, ResultInv, AnswerMatchesRequest, Forwarded, bridgeVars
<1>2. CASE onRaw = TRUE /\ rx.sn = active /\ RtuRawCallback
  <2> DEFINE r == [kind |-> "forwarded", to |-> ip, tid |-> transaction_id, sn |-> rx.sn]
  <2>1. r \in ReplyRec(Len(reqs)) /\ replies' = Append(replies, r)
    BY <1>2
    DEF RtuRawCallback, TypeInv, TypeOK, LineTypeOK, ThreadTypeOK, BridgeTypeOK,
        StateNamesRequest, ReplyRec, HealthyInv
  <2>2. r.sn = r.tid
    BY <1>2 DEF HealthyInv, ThreadInv
  <2> HIDE DEF r
  <2>3. \A i \in Forwarded' : (i \in Forwarded /\ replies'[i] = replies[i])
                              \/ replies'[i] = r
    BY <2>1, MoreReplies DEF HealthyInv
  <2> QED
    BY <2>2, <2>3 DEF HealthyInv, ResultInv, AnswerMatchesRequest
<1> QED
  BY <1>1, <1>2, HealthyTask

\* A wait that goes on after modbus.task().
LEMMA HealthyTaskThread ==
  ASSUME HealthyLine, HealthyInv, Task, UNCHANGED reqs,
         \/ UNCHANGED <<phase, cur>>
         \/ phase' = "loop"
  PROVE  ThreadInv'
<1>0. Waiting' => Waiting /\ UNCHANGED <<phase, cur>>
  BY DEF Waiting
<1>1. Waiting' => reqs'[cur'].from = Local
  BY <1>0 DEF HealthyInv, ThreadInv
<1>2. CASE UNCHANGED <<lineVars, bridgeVars, buf>>
  BY <1>1, <1>2 DEF HealthyInv, ThreadInv, lineVars, bridgeVars
<1>3. CASE /\ active # 0 /\ active \in executed /\ onRaw # TRUE
           /\ EndTransaction
           /\ UNCHANGED bridgeVars
           /\ data # 0 /\ data = cur => buf' = active
  <2>1. onRaw' # TRUE
    BY <1>3 DEF bridgeVars
  <2>2. ASSUME phase' = "wait_answer"
        PROVE  /\ active' = 0 /\ cur' \in executed'
               /\ reqs'[cur'].shape \in Reads => buf' = cur'
    <3>1. phase = "wait_answer" /\ cur' = cur /\ cur # 0
      BY <2>2 DEF HealthyInv, TypeInv, StateNamesRequest
    <3>2. active = cur /\ (reqs[cur].shape \in Reads => data = cur)
      BY <1>3, <3>1 DEF HealthyInv, ThreadInv
    <3> QED
      BY <1>3, <3>1, <3>2 DEF EndTransaction
  <2> QED
    BY <1>1, <2>1, <2>2 DEF ThreadInv
<1>4. CASE /\ active # 0 /\ onRaw = TRUE
           /\ EndTransaction
           /\ RtuRawCallback
  <2>1. onRaw' # TRUE
    BY <1>4 DEF RtuRawCallback
  <2>2. phase' # "wait_answer"
    <3> SUFFICES ASSUME phase' = "wait_answer" PROVE FALSE
      OBVIOUS
    <3>1. phase = "wait_answer" /\ Waiting
      BY DEF Waiting
    <3>2. active = transaction_id /\ active = cur /\ reqs[cur].from = Local
      BY <1>4, <3>1 DEF HealthyInv, ThreadInv
    <3>3. reqs[transaction_id].from \in TcpClients
      BY <1>4 DEF HealthyInv, BridgeInv, TypeInv, StateNamesRequest
    <3> QED
      BY <3>2, <3>3, GatewayAssumption
  <2> QED
    BY <1>1, <2>1, <2>2 DEF ThreadInv
<1> QED
  BY <1>2, <1>3, <1>4, HealthyTask

\* The request that is sent is the only one on the line.
LEMMA HealthySend ==
  ASSUME HealthyLine, HealthyInv, active = 0, cur # 0, NEW d \in {0, cur}, Send(cur, d)
  PROVE  LineInv'
<1>1. wire = <<>> /\ rx = NoFrame
  BY DEF HealthyInv, LineInv
<1>2. wire' = <<cur>>
  BY <1>1 DEF Send
<1> QED
  BY <1>1, <1>2, RtuAssumption DEF Send, LineInv

\* A past result stays what it was when requests are added or carried out.
LEMMA ResultKept ==
  ASSUME TypeInv, HonestResult, UNCHANGED last, executed \subseteq executed',
         \A i \in 1..Len(reqs) : reqs'[i] = reqs[i]
  PROVE  HonestResult'
<1>1. last.status = "ok" => last.sn \in 1..Len(reqs)
  BY DEF HonestResult, TypeInv, TypeOK, LineTypeOK
<1> QED
  BY <1>1 DEF HonestResult

LEMMA RepliesKept ==
  ASSUME AnswerMatchesRequest, UNCHANGED replies
  PROVE  AnswerMatchesRequest'
  BY DEF AnswerMatchesRequest, Forwarded

\* A new request touches neither the line nor the bridge.
LEMMA HealthyNewRequest ==
  ASSUME HealthyLine, HealthyInv, NEW c \in Origins, NEW s \in Shapes, NewRequest(c, s),
         \/ phase' = "wait_idle" /\ c = Local
         \/ phase' = "bridge_wait",
         UNCHANGED <<lineVars, bridgeVars, last>>
  PROVE  LineInv' /\ ThreadInv' /\ ResultInv'
<1>1. /\ reqs'[cur'] = [from |-> c, shape |-> s]
      /\ \A i \in 1..Len(reqs) : reqs'[i] = reqs[i]
  BY NewRequestType DEF HealthyInv, TypeInv
<1>2. LineInv'
  BY DEF HealthyInv, LineInv, lineVars
<1>3. ThreadInv'
  BY <1>1 DEF HealthyInv, ThreadInv, Waiting, lineVars, bridgeVars
<1>4. ResultInv'
  BY <1>1, ResultKept, RepliesKept DEF HealthyInv, ResultInv, lineVars, bridgeVars
<1> QED
  BY <1>2, <1>3, <1>4

LEMMA HealthyStep ==
  ASSUME HealthyLine, HealthyInv, [Next]_vars
  PROVE  HealthyInv'
<1>1. TypeInv' /\ BridgeInv'
  BY TypeStep, BridgeStep DEF HealthyInv
<1>2. SUFFICES LineInv' /\ ThreadInv' /\ ResultInv'
  BY <1>1 DEF HealthyInv
<1>3. ASSUME NEW s \in Shapes, Call(s) PROVE LineInv' /\ ThreadInv' /\ ResultInv'
  <2>1. /\ Local \in Origins /\ NewRequest(Local, s) /\ phase' = "wait_idle"
        /\ UNCHANGED <<lineVars, bridgeVars, last>>
    BY <1>3 DEF Call, StartWait, Origins
  <2> QED
    BY <2>1, HealthyNewRequest
<1>4. CASE WaitIteration
  <2>1. Task /\ UNCHANGED reqs
    BY <1>4 DEF WaitIteration
  <2>2. UNCHANGED <<phase, cur>> \/ phase' = "loop"
    BY <1>4 DEF WaitIteration, Return
  <2>3. LineInv' /\ ThreadInv' /\ AnswerMatchesRequest'
    BY <2>1, <2>2, HealthyTaskLine, HealthyTaskThread, HealthyTaskReplies
  <2>4. HonestResult'
    <3>1. CASE TimedOut
      BY <1>4, <3>1 DEF WaitIteration, Return, HonestResult
    <3>2. CASE ~TimedOut
      <4>1. UNCHANGED last /\ executed' = executed
        BY <1>4, <2>1, <3>2, TaskLine DEF WaitIteration, EndTransaction, SkipFrame
      <4> QED
        BY <2>1, <4>1, ResultKept DEF HealthyInv, ResultInv
    <3> QED
      BY <3>1, <3>2
  <2> QED
    BY <2>3, <2>4 DEF ResultInv
<1>5. CASE SendRequest
  <2>1. /\ phase = "wait_idle" /\ active = 0 /\ cur # 0 /\ Waiting
        /\ UNCHANGED <<buf, bridgeVars, reqs>>
    BY <1>5 DEF SendRequest, HealthyInv, TypeInv, StateNamesRequest, Waiting
  <2>2. onRaw # TRUE
    BY <2>1 DEF HealthyInv, ThreadInv, TypeInv, StateNamesRequest
  <2>3. AnswerMatchesRequest'
    BY <2>1, RepliesKept DEF HealthyInv, ResultInv, bridgeVars
  <2>4. ASSUME Send(cur, IF reqs[cur].shape \in Reads THEN cur ELSE 0),
               StartWait("wait_answer"), UNCHANGED <<cur, last>>
        PROVE  LineInv' /\ ThreadInv' /\ HonestResult'
    <3>1. LineInv'
      BY <2>1, <2>4, HealthySend
    <3>2. ThreadInv'
      BY <2>1, <2>2, <2>4
      DEF Send, StartWait, HealthyInv, ThreadInv, Waiting, bridgeVars
    <3>3. HonestResult'
      BY <2>1, <2>4, ResultKept DEF Send, HealthyInv, ResultInv
    <3> QED
      BY <3>1, <3>2, <3>3
  <2>5. ASSUME Return("send_failed", buf), UNCHANGED lineVars
        PROVE  LineInv' /\ ThreadInv' /\ HonestResult'
    BY <2>1, <2>2, <2>5
    DEF Return, HealthyInv, LineInv, ThreadInv, HonestResult, Waiting, lineVars,
        bridgeVars
  <2> QED
    BY <1>5, <2>3, <2>4, <2>5 DEF SendRequest, ResultInv
<1>6. CASE AnswerSeen
  <2>1. /\ phase = "wait_answer" /\ active = 0 /\ cur # 0 /\ Return("ok", buf)
        /\ UNCHANGED <<lineVars, bridgeVars, reqs>>
    BY <1>6 DEF AnswerSeen, HealthyInv, TypeInv, StateNamesRequest
  <2>2. cur \in executed /\ (reqs[cur].shape \in Reads => buf = cur)
    BY <2>1 DEF HealthyInv, ThreadInv
  <2>3. HonestResult'
    BY <2>1, <2>2 DEF Return, HonestResult, lineVars
  <2>4. LineInv' /\ ThreadInv'
    BY <2>1 DEF Return, HealthyInv, LineInv, ThreadInv, Waiting, lineVars, bridgeVars
  <2>5. AnswerMatchesRequest'
    BY <2>1, RepliesKept DEF HealthyInv, ResultInv, bridgeVars
  <2> QED
    BY <2>3, <2>4, <2>5 DEF ResultInv
<1>7. CASE LoopTask \/ BridgeIteration
  <2>1. Task /\ UNCHANGED <<reqs, phase, cur, last>>
    BY <1>7 DEF LoopTask, BridgeIteration
  <2>2. LineInv' /\ ThreadInv' /\ AnswerMatchesRequest'
    BY <2>1, HealthyTaskLine, HealthyTaskThread, HealthyTaskReplies
  <2>3. executed' = executed
    BY <2>1, TaskLine DEF EndTransaction, SkipFrame
  <2>4. HonestResult'
    BY <2>1, <2>3, ResultKept DEF HealthyInv, ResultInv
  <2> QED
    BY <2>2, <2>4 DEF ResultInv
<1>8. ASSUME NEW c \in TcpClients, NEW s \in Shapes, TcpRequest(c, s)
      PROVE  LineInv' /\ ThreadInv' /\ ResultInv'
  <2>1. /\ c \in Origins /\ NewRequest(c, s) /\ phase' = "bridge_wait"
        /\ UNCHANGED <<lineVars, bridgeVars, last>>
    BY <1>8 DEF TcpRequest, Origins
  <2> QED
    BY <2>1, HealthyNewRequest
<1>9. CASE Forward
  <2>1. /\ phase = "bridge_wait" /\ active = 0 /\ cur # 0 /\ phase' = "loop"
        /\ UNCHANGED <<reqs, last>>
    BY <1>9 DEF Forward, HealthyInv, TypeInv, StateNamesRequest
  <2>2. ASSUME Send(cur, 0), transaction_id' = cur, UNCHANGED replies
        PROVE  LineInv' /\ ThreadInv' /\ ResultInv'
    <3>1. LineInv'
      BY <2>1, <2>2, HealthySend
    <3>2. ThreadInv'
      BY <2>1, <2>2 DEF Send, ThreadInv, Waiting
    <3>3. ResultInv'
      BY <2>1, <2>2, ResultKept, RepliesKept DEF Send, HealthyInv, ResultInv
    <3> QED
      BY <3>1, <3>2, <3>3
  <2>3. ASSUME replies' = Append(replies, [kind |-> "error", to |-> UnitAddress,
                                         tid |-> cur, sn |-> 0]),
               UNCHANGED <<lineVars, onRaw, transaction_id, ip>>
        PROVE  LineInv' /\ ThreadInv' /\ ResultInv'
    <3> DEFINE r == [kind |-> "error", to |-> UnitAddress, tid |-> cur, sn |-> 0]
    <3>1. r \in ReplyRec(Len(reqs)) /\ r.kind # "forwarded" /\ replies' = Append(replies, r)
      BY <2>1, <2>3 DEF ReplyRec, HealthyInv, TypeInv, TypeOK, ThreadTypeOK
    <3> HIDE DEF r
    <3>2. Forwarded' = Forwarded /\ \A i \in Forwarded : replies'[i] = replies[i]
      BY <3>1, MoreReplies DEF HealthyInv
    <3>3. AnswerMatchesRequest'
      BY <3>2 DEF HealthyInv, ResultInv, AnswerMatchesRequest
    <3>4. LineInv' /\ ThreadInv'
      BY <2>1, <2>3 DEF HealthyInv, LineInv, ThreadInv, Waiting, lineVars
    <3>5. HonestResult'
      BY <2>1, <2>3, ResultKept DEF HealthyInv, ResultInv, lineVars
    <3> QED
      BY <3>3, <3>4, <3>5 DEF ResultInv
  <2> QED
    BY <1>9, <2>2, <2>3 DEF Forward
<1>10. CASE Tick
  <2>1. LineInv'
    <3>1. age \in Nat /\ PSU_LATENCY \in Nat
      BY RtuAssumption DEF HealthyInv, TypeInv, TypeOK, LineTypeOK
    <3>2. CASE active # 0 /\ wire # <<>>
      <4>1. age < PSU_LATENCY /\ age' \in {age, age + 1}
        BY <1>10, <3>2 DEF Tick, LineTick
      <4>2. age' <= PSU_LATENCY
        BY <3>1, <4>1
      <4> QED
        BY <1>10, <3>2, <4>2 DEF Tick, LineTick, HealthyInv, LineInv
    <3>3. CASE active = 0 \/ wire = <<>>
      BY <1>10, <3>3 DEF Tick, LineTick, HealthyInv, LineInv
    <3> QED
      BY <3>2, <3>3
  <2>2. ThreadInv' /\ ResultInv'
    BY <1>10, RepliesKept
    DEF Tick, LineTick, HealthyInv, ThreadInv, ResultInv, HonestResult, Waiting,
        bridgeVars
  <2> QED
    BY <2>1, <2>2
<1>11. CASE PowerSupply
  <2>1. PsuAnswer /\ UNCHANGED <<phase, cur, buf, bridgeVars, reqs, last>>
    BY <1>11 DEF PowerSupply, Psu, PsuRefuse, PsuIgnore, HealthyLine
  <2>2. active # 0 /\ wire = <<active>> /\ rx = NoFrame
    BY <2>1 DEF PsuAnswer, PsuReply, HealthyInv, LineInv
  <2>3. Head(wire) = active /\ Tail(wire) = <<>>
    BY <2>2
  <2>4. /\ rx' = [kind |-> "answer", sn |-> active]
        /\ wire' = <<>>
        /\ executed' = executed \cup {active}
        /\ UNCHANGED <<active, age, data>>
    BY <2>1, <2>2, <2>3 DEF PsuAnswer, PsuReply
  <2>5. LineInv'
    BY <2>2, <2>4 DEF HealthyInv, LineInv
  <2>6. ThreadInv'
    BY <2>1, <2>4 DEF HealthyInv, ThreadInv, Waiting, bridgeVars
  <2>7. ResultInv'
    BY <2>1, <2>4, ResultKept, RepliesKept DEF HealthyInv, ResultInv, bridgeVars
  <2> QED
    BY <2>5, <2>6, <2>7
<1>12. CASE UNCHANGED vars
  BY <1>12, RepliesKept
  DEF vars, lineVars, bridgeVars, HealthyInv, LineInv, ThreadInv, ResultInv,
      HonestResult, Waiting
<1> QED
  BY <1>3, <1>4, <1>5, <1>6, <1>7, <1>8, <1>9, <1>10, <1>11, <1>12 DEF Next

LEMMA HealthyInit == Init => HealthyInv
<1> SUFFICES ASSUME Init PROVE HealthyInv
  OBVIOUS
<1>1. TypeInv
  BY TypeInit
<1>2. Forwarded = {}
  BY DEF Init, Forwarded
<1> QED
  BY <1>1, <1>2
  DEF Init, LineInit, HealthyInv, BridgeInv, LineInv, ThreadInv, ResultInv,
      ForwardedOnce, HonestResult, AnswerMatchesRequest, Waiting

\* When the power supply answers every request within the library's timeout,
\* whatever RidenModbus's own timeout and whenever it strikes: a call that
\* reports success was carried out, and a read returns its own answer.
THEOREM HonestOnHealthyLine == HealthyLine => (Spec => []HonestResult)
<1> SUFFICES ASSUME HealthyLine PROVE Spec => []HonestResult
  OBVIOUS
<1>1. HealthyInv /\ [Next]_vars => HealthyInv'
  BY HealthyStep
<1>2. HealthyInv => HonestResult
  BY DEF HealthyInv, ResultInv
<1> QED
  BY <1>1, <1>2, HealthyInit, PTL DEF Spec

\* On such a line every client gets the answer to its own request.
THEOREM ClientsGetTheirAnswers == HealthyLine => (Spec => []AnswerMatchesRequest)
<1> SUFFICES ASSUME HealthyLine PROVE Spec => []AnswerMatchesRequest
  OBVIOUS
<1>1. HealthyInv /\ [Next]_vars => HealthyInv'
  BY HealthyStep
<1>2. HealthyInv => AnswerMatchesRequest
  BY DEF HealthyInv, ResultInv
<1> QED
  BY <1>1, <1>2, HealthyInit, PTL DEF Spec

-----------------------------------------------------------------------------
(* The order in which accesses are carried out                             *)

\* Requests reach the power supply in the order in which they are made, on
\* any line, and one that waits for its turn has not reached it.
OrderInv ==
  /\ phase = "loop" => cur = 0
  /\ cur # 0 => cur = Len(reqs)
  /\ \A i \in 1..Len(wire) : \A n \in executed : n < wire[i]
  /\ \A i, j \in 1..Len(wire) : i < j => wire[i] < wire[j]
  /\ phase \in {"wait_idle", "bridge_wait"} =>
       /\ \A i \in 1..Len(wire) : wire[i] < cur
       /\ \A n \in executed : n < cur

LEMMA TailSeq ==
  ASSUME NEW S, NEW s \in Seq(S), s # <<>>
  PROVE  /\ Head(s) = s[1] /\ Head(s) \in S
         /\ Tail(s) \in Seq(S)
         /\ Len(s) \in Nat \ {0}
         /\ Len(Tail(s)) = Len(s) - 1
         /\ \A i \in 1..Len(Tail(s)) : Tail(s)[i] = s[i + 1]
  OBVIOUS

LEMMA OrderNewRequest ==
  ASSUME TypeInv, OrderInv, NEW c \in Origins, NEW s \in Shapes, NewRequest(c, s),
         UNCHANGED <<wire, executed>>, phase' # "loop"
  PROVE  OrderInv'
<1>1. Len(reqs') = Len(reqs) + 1 /\ cur' = Len(reqs) + 1 /\ Len(reqs) \in Nat
  BY DEF NewRequest, TypeInv, TypeOK, ThreadTypeOK
<1>2. \A i \in 1..Len(wire) : wire[i] \in 1..Len(reqs)
  BY DEF TypeInv, TypeOK, LineTypeOK
<1>3. \A n \in executed : n \in 1..Len(reqs)
  BY DEF TypeInv, TypeOK, LineTypeOK
<1>4. \A i \in 1..Len(wire) : wire[i] < Len(reqs) + 1
  BY <1>1, <1>2
<1>5. \A n \in executed : n < Len(reqs) + 1
  BY <1>1, <1>3
<1> QED
  BY <1>1, <1>4, <1>5 DEF OrderInv

\* cur is sent; its caller waits, or has gone.
LEMMA OrderSend ==
  ASSUME TypeInv, OrderInv, phase \in {"wait_idle", "bridge_wait"}, NEW d, Send(cur, d),
         UNCHANGED reqs,
         \/ phase' = "wait_answer" /\ cur' = cur
         \/ phase' = "loop" /\ cur' = 0
  PROVE  OrderInv'
<1> DEFINE S == 1..Len(reqs)
<1>1. wire \in Seq(S) /\ cur \in S /\ wire' = Append(wire, cur) /\ executed' = executed
  BY DEF TypeInv, TypeOK, LineTypeOK, ThreadTypeOK, StateNamesRequest, Send
<1> HIDE DEF S
<1>2. /\ Len(wire') = Len(wire) + 1 /\ Len(wire) \in Nat
      /\ \A i \in 1..Len(wire) : wire'[i] = wire[i]
      /\ wire'[Len(wire) + 1] = cur
  BY <1>1, AppendSeq
<1>3. \A i \in 1..Len(wire') : i \in 1..Len(wire) \/ i = Len(wire) + 1
  BY <1>2
<1>4. \A i \in 1..Len(wire') : \A n \in executed' : n < wire'[i]
  BY <1>1, <1>2, <1>3 DEF OrderInv
<1>5. ASSUME NEW i \in 1..Len(wire'), NEW j \in 1..Len(wire'), i < j
      PROVE  wire'[i] < wire'[j]
  <2>1. i \in 1..Len(wire)
    BY <1>2, <1>5
  <2> QED
    BY <1>2, <1>3, <1>5, <2>1 DEF OrderInv
<1>6. /\ phase' = "loop" => cur' = 0
      /\ cur' # 0 => cur' = Len(reqs')
      /\ phase' \notin {"wait_idle", "bridge_wait"}
  BY DEF OrderInv
<1> QED
  BY <1>4, <1>5, <1>6 DEF OrderInv

\* The power supply takes the oldest request from the line.
LEMMA OrderPsu ==
  ASSUME TypeInv, OrderInv, wire # <<>>, wire' = Tail(wire),
         executed' \in {executed, executed \cup {Head(wire)}},
         UNCHANGED <<phase, cur, reqs>>
  PROVE  OrderInv' /\ \A n \in executed : n < Head(wire)
<1>1. /\ Head(wire) = wire[1] /\ Len(wire) \in Nat \ {0}
      /\ Len(wire') = Len(wire) - 1
      /\ \A i \in 1..Len(wire') : wire'[i] = wire[i + 1]
  BY TailSeq DEF TypeInv, TypeOK, LineTypeOK
<1>2. 1 \in 1..Len(wire) /\ \A i \in 1..Len(wire') : i + 1 \in 2..Len(wire)
  BY <1>1
<1>3. \A i \in 1..Len(wire') : i + 1 \in 1..Len(wire) /\ 1 < i + 1
  BY <1>2
<1>4. \A n \in executed : n < Head(wire)
  BY <1>1, <1>2 DEF OrderInv
<1>5. \A i \in 1..Len(wire') : \A n \in executed' : n < wire'[i]
  <2>1. \A i \in 1..Len(wire') : \A n \in executed : n < wire'[i]
    BY <1>1, <1>3 DEF OrderInv
  <2>2. \A i \in 1..Len(wire') : wire[1] < wire'[i]
    BY <1>1, <1>2, <1>3 DEF OrderInv
  <2> QED
    BY <1>1, <2>1, <2>2
<1>6. \A i, j \in 1..Len(wire') : i < j => wire'[i] < wire'[j]
  <2> SUFFICES ASSUME NEW i \in 1..Len(wire'), NEW j \in 1..Len(wire'), i < j
               PROVE  wire'[i] < wire'[j]
    OBVIOUS
  <2>1. i + 1 < j + 1
    OBVIOUS
  <2> QED
    BY <1>1, <1>3, <2>1 DEF OrderInv
<1>7. phase' \in {"wait_idle", "bridge_wait"} =>
        /\ \A i \in 1..Len(wire') : wire'[i] < cur'
        /\ \A n \in executed' : n < cur'
  <2> SUFFICES ASSUME phase \in {"wait_idle", "bridge_wait"}
               PROVE  /\ \A i \in 1..Len(wire') : wire'[i] < cur
                      /\ \A n \in executed' : n < cur
    OBVIOUS
  <2>1. \A i \in 1..Len(wire) : wire[i] < cur
    BY DEF OrderInv
  <2>2. \A n \in executed : n < cur
    BY DEF OrderInv
  <2> QED
    BY <1>1, <1>2, <1>3, <2>1, <2>2
<1>8. /\ phase' = "loop" => cur' = 0
      /\ cur' # 0 => cur' = Len(reqs')
  BY DEF OrderInv
<1> QED
  BY <1>4, <1>5, <1>6, <1>7, <1>8 DEF OrderInv

LEMMA OrderStep == TypeInv /\ OrderInv /\ [Next]_vars => OrderInv'
<1> SUFFICES ASSUME TypeInv, OrderInv, [Next]_vars PROVE OrderInv'
  OBVIOUS
<1>1. ASSUME NEW s \in Shapes, Call(s) PROVE OrderInv'
  BY <1>1, OrderNewRequest DEF Call, StartWait, Origins, lineVars
<1>2. ASSUME NEW c \in TcpClients, NEW s \in Shapes, TcpRequest(c, s) PROVE OrderInv'
  BY <1>2, OrderNewRequest DEF TcpRequest, Origins, lineVars
<1>3. CASE SendRequest
  <2>1. ASSUME Return("send_failed", buf), UNCHANGED lineVars PROVE OrderInv'
    BY <1>3, <2>1 DEF SendRequest, Return, OrderInv, lineVars
  <2> QED
    BY <1>3, <2>1, OrderSend DEF SendRequest, StartWait
<1>4. CASE Forward
  <2>1. ASSUME UNCHANGED lineVars PROVE OrderInv'
    BY <1>4, <2>1 DEF Forward, OrderInv, lineVars
  <2> QED
    BY <1>4, <2>1, OrderSend DEF Forward
<1>5. CASE WaitIteration \/ LoopTask \/ BridgeIteration
  <2>1. UNCHANGED <<wire, executed, reqs>>
    BY <1>5, TaskLine DEF WaitIteration, LoopTask, BridgeIteration, EndTransaction, SkipFrame
  <2>2. UNCHANGED <<phase, cur>> \/ (phase' = "loop" /\ cur' = 0)
    BY <1>5 DEF WaitIteration, LoopTask, BridgeIteration, Return
  <2> QED
    BY <2>1, <2>2 DEF OrderInv
<1>6. CASE AnswerSeen
  BY <1>6 DEF AnswerSeen, Return, OrderInv, lineVars
<1>7. CASE PowerSupply
  <2>1. /\ wire # <<>> /\ wire' = Tail(wire)
        /\ executed' \in {executed, executed \cup {Head(wire)}}
        /\ UNCHANGED <<phase, cur, reqs>>
    BY <1>7 DEF PowerSupply, Psu, PsuAnswer, PsuRefuse, PsuIgnore, PsuReply
  <2> QED
    BY <2>1, OrderPsu
<1>8. CASE Tick \/ UNCHANGED vars
  BY <1>8 DEF Tick, LineTick, vars, lineVars, OrderInv
<1> QED
  BY <1>1, <1>2, <1>3, <1>4, <1>5, <1>6, <1>7, <1>8 DEF Next

\* On a line that answers in time RidenModbus keeps the promise that its
\* callers rely on, for any number of handlers and clients: each access is
\* carried out at most once, after those made before it and before those
\* made after it, and a caller that is told "true" has been served.
THEOREM GatewayImplementsAccess == HealthyLine => (Spec => ImplementsRegisterAccess)
<1> SUFFICES ASSUME HealthyLine PROVE Spec => ImplementsRegisterAccess
  OBVIOUS
<1>1. Init => Accesses!Init
  <2> SUFFICES ASSUME Init PROVE Accesses!Init
    OBVIOUS
  <2>1. Len(reqs) = 0 /\ executed = {} /\ cur = 0 /\ last.sn = 0 /\ last.status = "none"
    BY DEF Init, LineInit
  <2>2. (last.status = "ok") = FALSE
    BY <2>1
  <2> QED
    BY <2>1, <2>2 DEF Accesses!Init
<1>5. Init => OrderInv
  BY DEF Init, LineInit, OrderInv
<1>2. HealthyInv /\ OrderInv /\ [Next]_vars => [Accesses!Next]_(Accesses!vars)
  <2> SUFFICES ASSUME HealthyInv, OrderInv, [Next]_vars
               PROVE  [Accesses!Next]_(Accesses!vars)
    OBVIOUS
  <2>1. ASSUME NEW c \in Origins, NEW s \in Shapes, NewRequest(c, s),
               UNCHANGED <<executed, last>>
        PROVE  Accesses!Ask
    BY <2>1 DEF NewRequest, OrderInv, Accesses!Ask, HealthyInv, TypeInv, TypeOK, ThreadTypeOK
  <2>2. ASSUME NEW status \in {"ok", "timeout", "send_failed"}, NEW b, Return(status, b),
               phase # "loop", status = "ok" => cur \in executed, UNCHANGED <<reqs, executed>>
        PROVE  Accesses!Next
    <3>1. cur # 0 /\ last' = [sn |-> cur, status |-> status, got |-> b] /\ cur' = 0
      BY <2>2 DEF Return, HealthyInv, TypeInv, StateNamesRequest
    <3>2. Accesses!Return(status = "ok")
      BY <2>2, <3>1 DEF Accesses!Return
    <3> QED
      BY <3>2 DEF Accesses!Next
  <2>3. ASSUME NEW s \in Shapes, Call(s) PROVE Accesses!Next
    BY <2>1, <2>3 DEF Call, Origins, lineVars, Accesses!Next
  <2>4. ASSUME NEW c \in TcpClients, NEW s \in Shapes, TcpRequest(c, s)
        PROVE  Accesses!Next
    BY <2>1, <2>4 DEF TcpRequest, Origins, lineVars, Accesses!Next
  <2>5. CASE WaitIteration \/ LoopTask \/ BridgeIteration
    <3>1. UNCHANGED <<executed, reqs>>
      BY <2>5, TaskLine DEF WaitIteration, LoopTask, BridgeIteration, EndTransaction, SkipFrame
    <3>2. \/ UNCHANGED <<cur, last>>
          \/ phase # "loop" /\ Return("timeout", buf')
      BY <2>5 DEF WaitIteration, LoopTask, BridgeIteration, Waiting
    <3> QED
      BY <2>2, <3>1, <3>2 DEF Accesses!vars
  <2>6. CASE SendRequest
    <3>1. CASE UNCHANGED <<cur, last>> /\ UNCHANGED <<executed, reqs>>
      BY <3>1 DEF Accesses!vars
    <3> QED
      BY <2>2, <2>6, <3>1 DEF SendRequest, Send, lineVars
  <2>7. CASE AnswerSeen
    BY <2>2, <2>7 DEF AnswerSeen, HealthyInv, ThreadInv, StateNamesRequest, TypeInv, lineVars
  <2>8. CASE Forward
    <3>1. cur # 0 /\ cur' = 0 /\ UNCHANGED <<executed, reqs, last>>
      BY <2>8 DEF Forward, Send, HealthyInv, TypeInv, StateNamesRequest, lineVars
    <3> QED
      BY <3>1 DEF Accesses!Leave, Accesses!Next
  <2>9. CASE PowerSupply
    <3>1. /\ wire # <<>> /\ wire' = Tail(wire)
          /\ executed' = executed \cup {Head(wire)}
          /\ UNCHANGED <<phase, cur, reqs, last>>
      BY <2>9 DEF PowerSupply, Psu, PsuAnswer, PsuRefuse, PsuIgnore, PsuReply, HealthyLine
    <3>2. Head(wire) \in 1..Len(reqs)
      BY <3>1, TailSeq DEF HealthyInv, TypeInv, TypeOK, LineTypeOK
    <3>3. \A n \in executed : n < Head(wire)
      BY <3>1, OrderPsu DEF HealthyInv
    <3>4. Accesses!Perform(Head(wire))
      BY <3>1, <3>3 DEF Accesses!Perform
    <3> QED
      BY <3>2, <3>4 DEF Accesses!Next
  <2>10. CASE Tick \/ UNCHANGED vars
    BY <2>10 DEF Tick, LineTick, vars, lineVars, Accesses!vars
  <2> QED
    BY <2>3, <2>4, <2>5, <2>6, <2>7, <2>8, <2>9, <2>10 DEF Next
<1>3. HealthyInv /\ [Next]_vars => HealthyInv'
  BY HealthyStep
<1>4. HealthyInv => TypeInv
  BY DEF HealthyInv
<1> QED
  BY <1>1, <1>2, <1>3, <1>4, <1>5, HealthyInit, OrderStep, PTL
  DEF Spec, ImplementsRegisterAccess, Accesses!Spec
=============================================================================
