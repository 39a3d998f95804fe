---------------------------- MODULE ScpiCommands ----------------------------
(***************************************************************************)
(* The SCPI commands of RidenScpi: their parameter checks, the register    *)
(* access each of them makes, its answer and its error.  Parsing, units    *)
(* and the error queue are those of scpi-parser, which is not in src/.     *)
(***************************************************************************)
EXTENDS RegisterCalls

CONSTANTS
  Levels,                \* voltages and currents clients ask for, in 1/SCALE
  SCPI_ERROR_QUEUE_SIZE  \* 17 in the code

ASSUME ScpiAssumption ==
  /\ Levels \subseteq Int
  /\ SCPI_ERROR_QUEUE_SIZE \in Nat \ {0}

VARIABLE errors  \* the error queue, which all clients share

ScpiInit == errors = <<>>

\* The setting commands: the parameters they let through and what they call.
Sets(legal, call) == [legal |-> legal, item |-> call.item, kind |-> call.kind]

DisplayCommands ==
  [ Rcl               |-> Sets(1..9, OutputCalls.set_preset),
    DisplayBrightness |-> Sets(0..5, OptionCalls.set_brightness),
    DisplayLanguage   |-> Sets(0..4, OptionCalls.set_language) ]

SystemCommands ==
  [ SystemDate |-> Sets(Int, ClockCalls.set_date),
    SystemTime |-> Sets(Int, ClockCalls.set_time) ]

SourceCommands ==
  [ OutputState   |-> Sets({0, 1}, OutputCalls.set_output_on),
    SourceVoltage |-> Sets(Int, MeasurementCalls.set_voltage_set),
    SourceCurrent |-> Sets(Int, MeasurementCalls.set_current_set) ]

LimitCommands ==
  [ SourceVoltageLimit |-> Sets(Int, PresetCalls.set_over_voltage_protection),
    SourceCurrentLimit |-> Sets(Int, PresetCalls.set_over_current_protection),
    SystemBeeperState  |-> Sets({0, 1}, OptionCalls.set_buzzer_enabled) ]

SetCommands ==
  [c \in DOMAIN DisplayCommands \cup DOMAIN SystemCommands
           \cup DOMAIN SourceCommands \cup DOMAIN LimitCommands |->
     CASE c \in DOMAIN DisplayCommands -> DisplayCommands[c]
       [] c \in DOMAIN SystemCommands -> SystemCommands[c]
       [] c \in DOMAIN SourceCommands -> SourceCommands[c]
       [] c \in DOMAIN LimitCommands -> LimitCommands[c]]

\* The query commands.  MEAS:TEMP? takes one of two sensors.
SettingQueries ==
  [ DisplayBrightnessQ |-> OptionCalls.get_brightness,
    DisplayLanguageQ |-> OptionCalls.get_language,
    SystemDateQ |-> ClockCalls.get_clock,
    SystemTimeQ |-> ClockCalls.get_clock,
    SystemBeeperStateQ |-> OptionCalls.is_buzzer_enabled ]

SourceQueries ==
  [ OutputStateQ |-> OutputCalls.get_output_on,
    OutputModeQ |-> MeasurementCalls.get_output_mode,
    SourceVoltageQ |-> MeasurementCalls.get_voltage_set,
    SourceVoltageProtectionTrippedQ |-> MeasurementCalls.get_protection,
    SourceCurrentQ |-> MeasurementCalls.get_current_set,
    SourceCurrentProtectionTrippedQ |-> MeasurementCalls.get_protection ]

MeasureQueries ==
  [ MeasureVoltageQ |-> MeasurementCalls.get_voltage_out,
    MeasureCurrentQ |-> MeasurementCalls.get_current_out,
    MeasurePowerQ |-> MeasurementCalls.get_power_out,
    MeasureTemperatureQ_SYSTEM |-> MeasurementCalls.get_system_temperature_celsius,
    MeasureTemperatureQ_PROBE |-> OutputCalls.get_probe_temperature_celsius ]

Queries ==
  [c \in DOMAIN SettingQueries \cup DOMAIN SourceQueries \cup DOMAIN MeasureQueries |->
     CASE c \in DOMAIN SettingQueries -> SettingQueries[c]
       [] c \in DOMAIN SourceQueries -> SourceQueries[c]
       [] c \in DOMAIN MeasureQueries -> MeasureQueries[c]]

\* What a query answers, given what RidenModbus returned to it.
Answer(c, v) ==
  CASE c = "SystemDateQ" -> <<v[1] + 1900, v[2] + 1, v[3]>>
    [] c = "SystemTimeQ" -> <<v[4], v[5], v[6]>>
    [] c = "SourceVoltageProtectionTrippedQ" -> <<IF v[1] = 1 THEN 1 ELSE 0>>
    [] c = "SourceCurrentProtectionTrippedQ" -> <<IF v[1] = 2 THEN 1 ELSE 0>>
    [] OTHER -> v

-----------------------------------------------------------------------------
(* The error queue: a full one ends in "overflow".                         *)

\* Mutant: the queue grows.
PushUnbounded(q, e) == Append(q, e)

Push(q, e) == IF Len(q) < SCPI_ERROR_QUEUE_SIZE THEN Append(q, e)
              ELSE [q EXCEPT ![Len(q)] = "overflow"]

Fails(e) == errors' = Push(errors, e)

\* A command that ends before it gets to the power supply.
Reject ==
  /\ Idle
  /\ tasks' = tasks + 1
  /\ reply' = NoReply
  /\ UNCHANGED <<history, late, task, param, todo, at, got, failed, asked, touched,
                 moves>>

ScpiSet(c, p) ==
  LET cmd == SetCommands[c]
  IN  \/ /\ p[1] \in cmd.legal
         /\ \E values \in Encode(cmd.kind, p) : Start(c, p, <<Write(cmd.item, values)>>)
         /\ UNCHANGED errors
      \/ /\ p[1] \notin cmd.legal
         /\ Reject
         /\ Fails("illegal_parameter_value")

\* A parameter that is missing, is no number or no choice, or has another
\* unit: the error comes from the parser or, for a unit, from the handler.
ScpiBadParameter ==
  /\ Reject
  /\ Fails("parameter")

\* MeasureTemperatureQ adds an error of its own to the parser's.
ScpiBadSensor ==
  /\ Reject
  /\ errors' = Push(Push(errors, "parameter"), "illegal_parameter_value")

ScpiQuery(c) ==
  /\ Start(c, <<>>, <<ReadItem(Queries[c].item)>>)
  /\ UNCHANGED errors

\* The registers of an item as a sequence, unwatched ones as 0.
Values(i) ==
  [k \in 1..Layout[i][2] |-> LET r == Layout[i][1] + k - 1
                             IN  IF r \in DOMAIN got THEN got[r] ELSE 0]

\* The call of RidenModbus has failed.  OutputModeQ says nothing of it.
ScpiFailed ==
  /\ Finished /\ failed
  /\ task \in DOMAIN SetCommands \cup DOMAIN Queries
  /\ End(FALSE, <<>>, NoSetting)
  /\ IF task = "OutputModeQ" THEN UNCHANGED errors ELSE Fails("command")

ScpiDone ==
  /\ Finished /\ ~failed
  /\ \/ /\ task \in DOMAIN SetCommands
        /\ End(TRUE, <<>>, Setting(SetCommands[task].item, param))
     \/ /\ task \in DOMAIN Queries
        /\ End(TRUE, Answer(task, Decode(Queries[task].kind, Values(Queries[task].item))),
               NoSetting)
  /\ UNCHANGED errors

\* SYSTem:ERRor[:NEXT]? takes one error, *CLS all of them.
ErrorsRead ==
  /\ task = "none"
  /\ errors # <<>>
  /\ errors' \in {Tail(errors), <<>>}
  /\ UNCHANGED callVars

-----------------------------------------------------------------------------
(* What clients send: both sides of every limit, and what exceeds a byte.  *)

Around(lo, hi) == {<<n>> : n \in {0, lo, hi, hi + 1, BYTE + hi}}

Parameters(c) ==
  CASE c = "Rcl" -> Around(1, 9)
    [] c = "DisplayBrightness" -> Around(0, 5)
    [] c = "DisplayLanguage" -> Around(0, 4)
    [] c = "SystemDate" -> {<<2024, 2, 29>>}
    [] c = "SystemTime" -> {<<23, 59, 58>>, <<BYTE, 0, 1>>}
    [] c \in {"OutputState", "SystemBeeperState"} -> {<<0>>, <<1>>}
    [] OTHER -> {<<x>> : x \in Levels}

Scpi ==
  \/ \E c \in DOMAIN SetCommands : \E p \in Parameters(c) : ScpiSet(c, p)
  \/ ScpiBadParameter
  \/ ScpiBadSensor
  \/ \E c \in DOMAIN Queries : ScpiQuery(c)
  \/ ScpiFailed
  \/ ScpiDone
  \/ ErrorsRead
=============================================================================
