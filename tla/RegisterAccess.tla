--------------------------- MODULE RegisterAccess ---------------------------
(***************************************************************************)
(* What RidenModbus promises its callers, with the bridge and the late     *)
(* answers hidden: one register access is pending at a time; one that      *)
(* reports success has been carried out, one that reports failure may or   *)
(* may not be, perhaps later; and accesses are carried out at most once    *)
(* and in the order in which they were made.  RegisterCalls is built on    *)
(* this promise.                                                           *)
(***************************************************************************)
EXTENDS Naturals

VARIABLES
  asked,      \* number of accesses made so far; each is known by its number
  performed,  \* those carried out
  pending,    \* the one whose caller waits, or 0
  outcome     \* what the last caller to return was told

vars == <<asked, performed, pending, outcome>>

Init ==
  /\ asked = 0
  /\ performed = {}
  /\ pending = 0
  /\ outcome = [sn |-> 0, ok |-> FALSE]

Ask ==
  /\ pending = 0
  /\ asked' = asked + 1
  /\ pending' = asked + 1
  /\ UNCHANGED <<performed, outcome>>

Perform(n) ==
  /\ \A m \in performed : m < n
  /\ performed' = performed \cup {n}
  /\ UNCHANGED <<asked, pending, outcome>>

Return(ok) ==
  /\ pending # 0
  /\ ok => pending \in performed
  /\ pending' = 0
  /\ outcome' = [sn |-> pending, ok |-> ok]
  /\ UNCHANGED <<asked, performed>>

\* The bridge does not wait for the answer: its client gets it later.
Leave ==
  /\ pending # 0
  /\ pending' = 0
  /\ UNCHANGED <<asked, performed, outcome>>

Next ==
  \/ Ask
  \/ \E n \in 1..asked : Perform(n)
  \/ \E ok \in BOOLEAN : Return(ok)
  \/ Leave

Spec == Init /\ [][Next]_vars
=============================================================================
