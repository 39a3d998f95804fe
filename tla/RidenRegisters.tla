--------------------------- MODULE RidenRegisters ---------------------------
(***************************************************************************)
(* The registers of the power supply, the functions of RidenModbus that    *)
(* read and write them, and the conversions between a register and the     *)
(* number a caller sees.  No state of its own.                             *)
(*                                                                         *)
(* Voltages, currents and the like are doubles in the code; here they are  *)
(* whole numbers of 1/SCALE volt, ampere or watt, SCALE being the largest  *)
(* of the code's multipliers.                                              *)
(***************************************************************************)
EXTENDS Integers, Sequences

CONSTANTS
  WORD,   \* uint16_t counts modulo WORD (2^16)
  BYTE,   \* uint8_t counts modulo BYTE (2^8)
  PSU_ID  \* contents of register Id when begin() read it

\* A register holds a year; a byte a minute, and the number of a preset.
ASSUME RegistersAssumption ==
  /\ WORD \in Nat /\ WORD > 9999
  /\ BYTE \in Nat /\ BYTE > 59 /\ BYTE <= WORD
  /\ PSU_ID \in Nat

SCALE == 10000

Layout == \* <<first register, how many>>
  [ Id |-> <<0, 1>>, SerialNumber |-> <<1, 2>>, Firmware |-> <<3, 1>>,
    SystemTemperatureCelsius |-> <<4, 2>>, SystemTemperatureFahrenheit |-> <<6, 2>>,
    VoltageSet |-> <<8, 1>>, CurrentSet |-> <<9, 1>>,
    VoltageOut |-> <<10, 1>>, CurrentOut |-> <<11, 1>>, PowerOut |-> <<12, 2>>,
    VoltageIn |-> <<14, 1>>, Keypad |-> <<15, 1>>, Protection |-> <<16, 1>>,
    OutputMode |-> <<17, 1>>, Output |-> <<18, 1>>, Preset |-> <<19, 1>>,
    CurrentRange |-> <<20, 1>>, BatteryMode |-> <<32, 1>>, VoltageBattery |-> <<33, 1>>,
    ProbeTemperatureCelsius |-> <<34, 2>>, ProbeTemperatureFahrenheit |-> <<36, 2>>,
    AH |-> <<38, 2>>, WH |-> <<40, 2>>,
    Clock |-> <<48, 6>>, Date |-> <<48, 3>>, Time |-> <<51, 3>>,
    Calibration |-> <<55, 8>>,
    TakeOk |-> <<66, 1>>, TakeOut |-> <<67, 1>>, PowerOnBoot |-> <<68, 1>>,
    Buzzer |-> <<69, 1>>, Logo |-> <<70, 1>>, Language |-> <<71, 1>>,
    Brightness |-> <<72, 1>>,
    M0 |-> <<80, 4>>, M0_OVP |-> <<82, 1>>, M0_OCP |-> <<83, 1>>,
    M1 |-> <<84, 4>>, M2 |-> <<88, 4>>, M3 |-> <<92, 4>>, M4 |-> <<96, 4>>,
    M5 |-> <<100, 4>>, M6 |-> <<104, 4>>, M7 |-> <<108, 4>>, M8 |-> <<112, 4>>,
    M9 |-> <<116, 4>>, SYSTEM |-> <<256, 1>> ]

SUBSET_END == 42
M9_OCP == 119

Min2(a, b) == IF a <= b THEN a ELSE b
Regs(i) == Layout[i][1] .. (Layout[i][1] + Layout[i][2] - 1)

-----------------------------------------------------------------------------
(* begin(): the model, known by its id, decides the multipliers.  Later    *)
(* branches are reached only when the earlier ones do not apply.           *)

Multipliers(v, i, p) == [v |-> v, i |-> i, p |-> p]

Known(id) ==
  id \in 60060..60065 \/ id \in 60120..60129 \/ id \in 60180..60189 \/ id >= 60241

ModelOf(id) ==
  IF id \in 60125..60129 THEN Multipliers(1000, 100, 1000)       \* RD6012P
  ELSE IF id \in 60060..60064 THEN Multipliers(100, 1000, 100)   \* RD6006
  ELSE IF id = 60065 THEN Multipliers(1000, 10000, 1000)         \* RD6006P
  ELSE Multipliers(100, 100, 100)

Step(multi) == SCALE \div multi

-----------------------------------------------------------------------------
(* From a parameter to registers: a write's values, as a set of sequences. *)

\* uint16_t(x * multi), computed in doubles: the product of a number that is
\* a multiple of the step may come out just below the whole number it stands
\* for.  Out of range the conversion is undefined: saturated or wrapped.
LevelToValues(x, multi) ==
  LET k == x \div Step(multi)
  IN  IF k \in 0..(WORD - 1)
      THEN {k} \cup (IF k > 0 /\ x % Step(multi) = 0 THEN {k - 1} ELSE {})
      ELSE {0, WORD - 1, k % WORD}

\* tm counts years from 1900 and months from 0.
TmToValues(tm) == <<tm[1] + 1900, tm[2] + 1, tm[3], tm[4], tm[5], tm[6]>>

Encode(kind, p) ==
  CASE kind = "word"  -> {[k \in DOMAIN p |-> p[k] % WORD]}
    [] kind = "byte"  -> {[k \in DOMAIN p |-> p[k] % BYTE]}
    [] kind = "flag"  -> {<<IF p[1] # 0 THEN 1 ELSE 0>>}
    [] kind = "volts" -> {<<v>> : v \in LevelToValues(p[1], ModelOf(PSU_ID).v)}
    [] kind = "amps"  -> {<<v>> : v \in LevelToValues(p[1], ModelOf(PSU_ID).i)}
    [] kind = "clock" -> {TmToValues(p)}
    [] kind = "preset" ->
         {<<a, b, c, d>> : a \in LevelToValues(p[1], ModelOf(PSU_ID).v),
                           b \in LevelToValues(p[2], ModelOf(PSU_ID).i),
                           c \in LevelToValues(p[3], ModelOf(PSU_ID).v),
                           d \in LevelToValues(p[4], ModelOf(PSU_ID).i)}

-----------------------------------------------------------------------------
(* From registers to what the caller is given.                             *)

Pair(v) == v[1] * WORD + v[2]

\* Mutant: the month is left as the power supply counts it.
ValuesToTmMonth(v) == <<v[1] - 1900, v[2], v[3], v[4], v[5], v[6]>>

ValuesToTm(v) == <<v[1] - 1900, v[2] - 1, v[3], v[4], v[5], v[6]>>

Decode(kind, v) ==
  CASE kind = "word"  -> v
    [] kind = "byte"  -> <<v[1] % BYTE>>
    [] kind = "flag"  -> <<IF v[1] # 0 THEN 1 ELSE 0>>
    [] kind = "volts" -> <<v[1] * Step(ModelOf(PSU_ID).v)>>
    [] kind = "amps"  -> <<v[1] * Step(ModelOf(PSU_ID).i)>>
    [] kind = "power" -> <<Pair(v) * Step(ModelOf(PSU_ID).p)>>
    [] kind = "pair"  -> <<Pair(v)>>
    [] kind = "temperature" -> <<IF v[1] = 0 THEN v[2] ELSE -v[2]>>
    [] kind = "enum2" -> <<IF v[1] \in 1..2 THEN v[1] ELSE 255>>  \* Protection
    [] kind = "enum1" -> <<IF v[1] \in 0..1 THEN v[1] ELSE 255>>  \* OutputMode
    [] kind = "clock" -> ValuesToTm(v)
    [] kind = "preset" ->
         <<v[1] * Step(ModelOf(PSU_ID).v), v[2] * Step(ModelOf(PSU_ID).i),
           v[3] * Step(ModelOf(PSU_ID).v), v[4] * Step(ModelOf(PSU_ID).i)>>

-----------------------------------------------------------------------------
(* The functions of RidenModbus: which item, converted how.                *)

On(item, kind) == [item |-> item, kind |-> kind]

MeasurementCalls ==
  [ get_id |-> On("Id", "word"), get_serial_number |-> On("SerialNumber", "pair"),
    get_firmware_version |-> On("Firmware", "word"),
    get_system_temperature_celsius |-> On("SystemTemperatureCelsius", "temperature"),
    get_system_temperature_fahrenheit |-> On("SystemTemperatureFahrenheit", "temperature"),
    get_voltage_set |-> On("VoltageSet", "volts"), set_voltage_set |-> On("VoltageSet", "volts"),
    get_current_set |-> On("CurrentSet", "amps"), set_current_set |-> On("CurrentSet", "amps"),
    get_voltage_out |-> On("VoltageOut", "volts"), get_current_out |-> On("CurrentOut", "amps"),
    get_power_out |-> On("PowerOut", "power"), is_keypad_locked |-> On("Keypad", "flag"),
    get_protection |-> On("Protection", "enum2"), get_output_mode |-> On("OutputMode", "enum1") ]

OutputCalls ==
  [ get_output_on |-> On("Output", "flag"), set_output_on |-> On("Output", "flag"),
    set_preset |-> On("Preset", "byte"), get_current_range |-> On("CurrentRange", "word"),
    is_battery_mode |-> On("BatteryMode", "flag"),
    get_voltage_battery |-> On("VoltageBattery", "volts"),
    get_probe_temperature_celsius |-> On("ProbeTemperatureCelsius", "temperature"),
    get_probe_temperature_fahrenheit |-> On("ProbeTemperatureFahrenheit", "temperature"),
    get_ah |-> On("AH", "pair"), get_wh |-> On("WH", "pair") ]

ClockCalls ==
  [ get_clock |-> On("Clock", "clock"), set_clock |-> On("Clock", "clock"),
    set_date |-> On("Date", "word"), set_time |-> On("Time", "byte") ]

OptionCalls ==
  [ is_take_ok |-> On("TakeOk", "flag"), set_take_ok |-> On("TakeOk", "flag"),
    is_take_out |-> On("TakeOut", "flag"), set_take_out |-> On("TakeOut", "flag"),
    is_power_on_boot |-> On("PowerOnBoot", "flag"), set_power_on_boot |-> On("PowerOnBoot", "flag"),
    is_buzzer_enabled |-> On("Buzzer", "flag"), set_buzzer_enabled |-> On("Buzzer", "flag"),
    is_logo |-> On("Logo", "flag"), set_logo |-> On("Logo", "flag"),
    get_language |-> On("Language", "word"), set_language |-> On("Language", "word"),
    get_brightness |-> On("Brightness", "byte"), set_brightness |-> On("Brightness", "byte") ]

PresetCalls ==
  [ set_over_voltage_protection |-> On("M0_OVP", "volts"),
    set_over_current_protection |-> On("M0_OCP", "amps") ]
=============================================================================
