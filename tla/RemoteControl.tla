--------------------------- MODULE RemoteControl ---------------------------
(***************************************************************************)
(* Everybody who controls the power supply, together: SCPI clients,        *)
(* browsers, the NTP callback that sets its clock, and, as changes that    *)
(* happen between two register accesses, its front panel and Modbus TCP    *)
(* clients.                                                                *)
(***************************************************************************)
EXTENDS HttpPages

vars == <<callVars, errors>>

Init == CallsInit /\ ScpiInit

\* on_time_received in main.cpp; 12 March 2025 as localtime gives it.
SetClock ==
  /\ \/ \E v \in Encode("clock", <<125, 2, 12, 8, 30, 0>>) :
          Start("set_clock", <<125, 2, 12, 8, 30, 0>>, <<Write("Clock", v)>>)
     \/ /\ Finished /\ task = "set_clock"
        /\ End(~failed, <<>>, [i \in {"Date", "Time"} |->
                                 IF i = "Date" THEN <<2025, 3, 12>> ELSE <<8, 30, 0>>])
  /\ UNCHANGED errors

Next ==
  \/ Access /\ UNCHANGED errors
  \/ Scpi
  \/ Http
  \/ SetClock

Spec == Init /\ [][Next]_vars

-----------------------------------------------------------------------------
(* Properties                                                              *)

PageTasks == {"status", "psu", "root", "lxi_identification", "modbus_qps",
              "set_i", "set_v", "toggle_out", "toggle_set", "toggle_status", "set_clock"}
Tasks == {"none"} \cup PageTasks \cup DOMAIN SetCommands \cup DOMAIN Queries
Errors == {"command", "parameter", "illegal_parameter_value", "overflow"}

\* All variables have their types; a value stored fits its register, and the
\* error queue its array.
TypeOK ==
  /\ history \in Seq([Registers -> 0..(WORD - 1)])
  /\ Len(history) \in 1..(1 + MaxMoves + 2 * MaxTasks)
  /\ Len(late) <= 1
  /\ task \in Tasks
  /\ param \in Seq(Int)
  /\ \A k \in DOMAIN todo : todo[k].first \in 0..256 /\ todo[k].count \in 1..20
  /\ at \in 0..Len(history)
  /\ DOMAIN got \subseteq Registers
  /\ failed \in BOOLEAN
  /\ reply.task \in Tasks /\ DOMAIN reply.shown \subseteq Registers
  /\ asked \in [Followed -> Seq(Int)]
  /\ touched \subseteq Followed
  /\ moves \in 0..MaxMoves
  /\ tasks \in 0..MaxTasks
  /\ errors \in Seq(Errors)
  /\ Len(errors) <= SCPI_ERROR_QUEUE_SIZE

\* What each page shows; items in one set belong together.  Calibration, which
\* the full page shows too, lies on both sides of register 60.
StatusItems ==
  {{"SystemTemperatureCelsius", "SystemTemperatureFahrenheit", "VoltageSet", "CurrentSet",
    "VoltageOut", "CurrentOut", "PowerOut", "VoltageIn", "Keypad", "Protection",
    "OutputMode", "Output"}}
  \cup {{i} : i \in {"CurrentRange", "BatteryMode", "VoltageBattery",
                     "ProbeTemperatureCelsius", "ProbeTemperatureFahrenheit", "AH", "WH"}}

PsuItems ==
  StatusItems
  \cup {{i} : i \in {"Clock", "TakeOk", "TakeOut", "PowerOnBoot", "Buzzer", "Logo",
                     "Language", "Brightness", "M1", "M2", "M3", "M4", "M5", "M6",
                     "M7", "M8", "M9"}}

ShownItems(name) ==
  CASE name \in {"status", "toggle_status"} -> StatusItems
    [] name = "psu" -> PsuItems
    [] name \in DOMAIN Queries -> {{Queries[name].item}}
    [] OTHER -> {}

\* Every page and every answer that is sent shows registers that were read, and
\* read while the request was handled; what belongs together (both halves of a
\* counter, date and time, a preset, and on the status page the output's state
\* with its settings and measurements) is of one moment, though the page is
\* read in pieces and others change registers between them.
ShownTogether ==
  reply.ok =>
    \A G \in ShownItems(reply.task) :
      LET R == (UNION {Regs(i) : i \in G}) \cap Registers
      IN  \E t \in DOMAIN history :
            \A r \in R : r \in DOMAIN reply.shown /\ reply.shown[r] = history[t][r]

\* What the power supply is to hold when `p' was asked of setting i.  A level
\* is cut to a step, and one step more may be lost to rounding; levels that
\* are negative or need more than 16 bits are undefined.
LevelHeld(p, value, multi) ==
  p \div Step(multi) \in 0..(WORD - 1) =>
    value * Step(multi) <= p /\ p < (value + 2) * Step(multi)

Held(i, p, v) ==
  CASE i \in {"VoltageSet", "M0_OVP"} -> LevelHeld(p[1], v[1], ModelOf(PSU_ID).v)
    [] i \in {"CurrentSet", "M0_OCP"} -> LevelHeld(p[1], v[1], ModelOf(PSU_ID).i)
    [] i = "Date" -> \A k \in 1..3 : v[k] = p[k] % WORD
    [] i = "Time" -> \A k \in 1..3 : v[k] = p[k] % BYTE
    [] OTHER -> v[1] = p[1]

\* A setting that was acknowledged (a page that says OK, a SCPI command that
\* leaves no error) is in the power supply with the value asked for, and stays
\* until somebody sets it anew: an earlier call that was given up and is
\* carried out late does not take it back.
AcknowledgedHolds ==
  \A i \in Followed :
    asked[i] # <<>> =>
      Held(i, asked[i], [k \in 1..Layout[i][2] |-> Now[Layout[i][1] + k - 1]])

SettingOf(name) ==
  CASE name = "SystemDateQ" -> "Date"
    [] name = "SystemTimeQ" -> "Time"
    [] OTHER -> Queries[name].item

\* The query of a setting answers, in the units it was set in, what the last
\* acknowledged command, page or clock synchronisation asked for: conversions
\* there and back agree.
AnswerAgrees(i, p, a) ==
  CASE i = "VoltageSet" -> LevelHeld(p[1], a[1] \div Step(ModelOf(PSU_ID).v), ModelOf(PSU_ID).v)
    [] i = "CurrentSet" -> LevelHeld(p[1], a[1] \div Step(ModelOf(PSU_ID).i), ModelOf(PSU_ID).i)
    [] i = "Time" -> \A k \in 1..3 : a[k] = p[k] % BYTE
    [] OTHER -> a = p

SettingsReadBack ==
  (reply.ok /\ reply.task \in DOMAIN Queries) =>
    LET i == SettingOf(reply.task)
    IN  (i \in Followed /\ asked[i] # <<>>) =>
          AnswerAgrees(i, asked[i], reply.answer)

\* An acknowledged toggle has seen the output both on and off, whoever else
\* switches it meanwhile; only one that could not read the state has no claim
\* but that the output was on (riden_http_server.cpp:470).
ToggleFlips ==
  (reply.ok /\ reply.task = "toggle_status") =>
    LET states == {history[t][OutputRegister] : t \in DOMAIN history}
    IN  IF reply.param[2] = 1 THEN {0, 1} \subseteq states ELSE 1 \in states
=============================================================================
