-------------------------- MODULE InstrumentAccess --------------------------
(***************************************************************************)
(* What the raw socket server and the VXI-11 server promise together: the  *)
(* one SCPI parser is either free, and then executes what raw clients      *)
(* send, or belongs to one VXI-11 client, and then executes nothing else.  *)
(* A VXI-11 client always gets it ("I always gain priority").              *)
(***************************************************************************)
EXTENDS Sequences

CONSTANTS RawConns, VxiConns, NoConn

VARIABLES
  owner,  \* the VXI-11 client that has the parser, or NoConn
  done    \* the lines executed so far: by whom

Init == owner = NoConn /\ done = <<>>

\* c has a line executed.
Executes(c) ==
  /\ done' # <<>>
  /\ done'[Len(done')].by = c
  /\ done' = Append(done, done'[Len(done')])
  /\ UNCHANGED owner

Claim(v) == owner' = v /\ UNCHANGED done
Release == owner' = NoConn /\ UNCHANGED done
RawLine(c) == owner = NoConn /\ Executes(c)
VxiLine(v) == owner = v /\ Executes(v)

Next ==
  \/ \E v \in VxiConns : Claim(v) \/ VxiLine(v)
  \/ \E c \in RawConns : RawLine(c)
  \/ Release

Spec == Init /\ [][Next]_<<owner, done>>
=============================================================================
