------------------------ MODULE RemoteControlLemmas ------------------------
(***************************************************************************)
(* What the tables of RemoteControl say, for any watched items: which      *)
(* registers an item has, what each command and page stores, what each     *)
(* page reads.  RemoteControlProofs rests on these facts and looks into    *)
(* the tables no more.                                                     *)
(***************************************************************************)
EXTENDS RemoteControl, TLAPS

-----------------------------------------------------------------------------
(* What the handlers do, told by their names                               *)

Word == 0..(WORD - 1)

Writers == DOMAIN SetCommands \cup {"set_i", "set_v", "toggle_set", "set_clock"}

\* The settings a handler makes, with the parameters it makes them to.
TargetOf(name, p) ==
  CASE name \in DOMAIN SetCommands -> Setting(SetCommands[name].item, p)
    [] name = "set_i" -> Setting("CurrentSet", p)
    [] name = "set_v" -> Setting("VoltageSet", p)
    [] name \in {"toggle_set", "toggle_status"} -> Setting("Output", <<p[1]>>)
    [] name = "set_clock" -> [i \in {"Date", "Time"} |->
                                IF i = "Date" THEN <<2025, 3, 12>> ELSE <<8, 30, 0>>]
    [] OTHER -> NoSetting

\* The accesses of a handler that only reads.
PlanOf(name) ==
  CASE name \in {"status", "toggle_status"} -> Chunks(SUBSET_END)
    [] name = "psu" -> Chunks(M9_OCP)
    [] name = "root" -> IF Connected THEN send_power_supply_info ELSE <<>>
    [] name = "lxi_identification" -> <<ReadItem("SerialNumber"), ReadItem("Firmware")>>
    [] name = "modbus_qps" -> [k \in 1..QPS_READS |-> ReadItem("VoltageSet")]
    [] name = "toggle_out" -> <<ReadItem("Output")>>
    [] name \in DOMAIN Queries -> <<ReadItem(Queries[name].item)>>
    [] OTHER -> <<>>

\* The part of what a write stores that belongs to item i.
Part(i, w) == [k \in 1..Layout[i][2] |-> w.values[Layout[i][1] + k - w.first]]

\* The registers of item i among regs.
At(i, regs) == [k \in 1..Layout[i][2] |-> regs[Layout[i][1] + k - 1]]

\* Parameters with which a setting may have been asked for.
Legal(i, p) ==
  CASE i \in {"Output", "Buzzer"} -> p \in {<<0>>, <<1>>}
    [] i = "Language" -> p \in {<<n>> : n \in 0..4}
    [] i = "Brightness" -> p \in {<<n>> : n \in 0..5}
    [] i = "Preset" -> p \in {<<n>> : n \in 1..9}
    [] i = "Date" -> p \in {<<2024, 2, 29>>, <<2025, 3, 12>>}
    [] i = "Time" -> p \in {<<23, 59, 58>>, <<BYTE, 0, 1>>, <<8, 30, 0>>}
    [] OTHER -> p = <<p[1]>> /\ p[1] \in Int

FlagRegisters == UNION {Regs(i) : i \in Flags}

\* A register access as the transport takes it; what a write stores in the
\* register of a flag is 0 or 1.
WellFormed(a) ==
  /\ a = [first |-> a.first, count |-> a.count, values |-> a.values]
  /\ a.first \in 0..256
  /\ a.count \in 1..20
  /\ a.values \in Seq(Word)
  /\ IsWrite(a) =>
       /\ Len(a.values) = a.count
       /\ \A r \in Touched(a) \cap FlagRegisters : a.values[r - a.first + 1] \in {0, 1}

\* The write w stores the settings set, all of them and nothing else.
Carries(w, set) ==
  /\ WellFormed(w) /\ IsWrite(w)
  /\ Settings(w) = DOMAIN set \cap Followed
  /\ \A i \in Settings(w) :
       /\ Regs(i) \subseteq Touched(w)
       /\ Legal(i, set[i])
       /\ Held(i, set[i], Part(i, w))

Reads == [first : 0..256, count : 1..20, values : {<<>>}]

\* A handler that begins: its name, parameters and accesses.
Handler(name, p, accesses) ==
  /\ name \in Tasks \ {"none", "toggle_set", "toggle_status"}
  /\ p \in Seq(Int)
  /\ IF name \in Writers THEN \E w : accesses = <<w>> /\ Carries(w, TargetOf(name, p))
                         ELSE accesses = PlanOf(name)

\* Handlers that end at the first read that fails.
Careful == {"status", "toggle_status", "psu", "toggle_out"} \cup DOMAIN Queries

-----------------------------------------------------------------------------
(* Items and their registers                                               *)

LEMMA ItemsFit ==
  \A i \in DOMAIN Layout : Layout[i][1] \in 0..256 /\ Layout[i][2] \in 1..8
  BY DEF Layout

LEMMA RegistersFit ==
  Registers \subseteq 0..256 + 8
  BY ItemsFit, CallsAssumption DEF Registers, Regs

LEMMA LayoutOfSettings ==
  /\ Layout["VoltageSet"] = <<8, 1>> /\ Layout["CurrentSet"] = <<9, 1>>
  /\ Layout["Output"] = <<18, 1>> /\ Layout["Preset"] = <<19, 1>>
  /\ Layout["Date"] = <<48, 3>> /\ Layout["Time"] = <<51, 3>>
  /\ Layout["Clock"] = <<48, 6>>
  /\ Layout["Buzzer"] = <<69, 1>> /\ Layout["Language"] = <<71, 1>>
  /\ Layout["Brightness"] = <<72, 1>>
  /\ Layout["M0_OVP"] = <<82, 1>> /\ Layout["M0_OCP"] = <<83, 1>>
  BY DEF Layout

\* No register belongs to two settings.
LEMMA SettingsApart ==
  \A i, j \in Settable : Regs(i) \cap Regs(j) # {} => i = j
  BY LayoutOfSettings DEF Settable, Regs

LEMMA FlagsAre ==
  FlagRegisters = {15, 18, 69}
  BY DEF Layout, Regs, Flags, FlagRegisters

\* A flag's register belongs to the flag alone.
LEMMA FlagsApart ==
  \A i \in DOMAIN Layout : Regs(i) \cap FlagRegisters # {} => i \in Flags
<1>1. \A i \in DOMAIN Layout : Regs(i) \cap {15, 18, 69} # {} => i \in Flags
  BY DEF Layout, Regs, Flags
<1> QED
  BY <1>1, FlagsAre

LEMMA SettableLayout ==
  \A i \in Settable : /\ Layout[i][1] \in Nat /\ Layout[i][1] \in 0..256
                      /\ Layout[i][2] \in Nat /\ Layout[i][2] \in 1..3
                      /\ Layout[i][2] \in 1..20
                      /\ i \notin {"Date", "Time"} => Layout[i][2] = 1
  BY LayoutOfSettings DEF Settable

-----------------------------------------------------------------------------
(* What a write carries                                                    *)

LEMMA WritesTouch ==
  ASSUME NEW j \in Settable, NEW w, w.first = Layout[j][1], w.count = Layout[j][2]
  PROVE  /\ Touched(w) = Regs(j) \cap Registers
         /\ Settings(w) = {j} \cap Followed
<1>1. Layout[j][1] \in Nat /\ Layout[j][2] \in Nat /\ Layout[j][2] \in 1..3
  BY SettableLayout
<1>2. Registers \subseteq Int
  BY RegistersFit
<1>3. \A r \in Int : r \in Regs(j) <=> r >= Layout[j][1] /\ r < Layout[j][1] + Layout[j][2]
  BY <1>1 DEF Regs
<1>4. Touched(w) = Regs(j) \cap Registers
  BY <1>2, <1>3 DEF Touched
<1>5. \A i \in Followed : i \in Settings(w) <=> Regs(i) \cap Regs(j) # {}
  <2> SUFFICES ASSUME NEW i \in Followed
               PROVE  i \in Settings(w) <=> Regs(i) \cap Regs(j) # {}
    OBVIOUS
  <2>1. Regs(i) \subseteq Int
    BY SettableLayout DEF Followed, Regs
  <2>2. \A r \in Int : r \in Regs(j) <=> r >= Layout[j][1] /\ r < Layout[j][1] + Layout[j][2]
    BY <1>1 DEF Regs
  <2> QED
    BY <2>1, <2>2 DEF Settings
<1>6. Regs(j) # {}
  BY <1>1 DEF Regs
<1>7. Settings(w) \subseteq Followed /\ Followed \subseteq Settable
  BY DEF Settings, Followed
<1> QED
  BY <1>4, <1>5, <1>6, <1>7, SettingsApart

LEMMA WriteCarries ==
  ASSUME NEW j \in Settable, NEW v \in Seq(Word), Len(v) = Layout[j][2], NEW p,
         Legal(j, p), Held(j, p, v), j \in Flags => v[1] \in {0, 1}
  PROVE  Carries(Write(j, v), Setting(j, p))
<1> DEFINE w == Write(j, v)
<1>1. /\ w.first = Layout[j][1] /\ w.count = Layout[j][2] /\ w.values = v
      /\ w = [first |-> w.first, count |-> w.count, values |-> w.values]
  BY DEF Write
<1>2. /\ Layout[j][1] \in Nat /\ Layout[j][1] \in 0..256
      /\ Layout[j][2] \in Nat /\ Layout[j][2] \in 1..3 /\ Layout[j][2] \in 1..20
  BY SettableLayout
<1>3. IsWrite(w)
  BY <1>1, <1>2 DEF IsWrite
<1>4. Touched(w) = Regs(j) \cap Registers /\ Settings(w) = {j} \cap Followed
  BY <1>1, WritesTouch DEF Write
<1> HIDE DEF w
<1>5. ASSUME NEW r \in Touched(w) \cap FlagRegisters
      PROVE  w.values[r - w.first + 1] \in {0, 1}
  <2>1. j \in Flags
    <3>1. j \in DOMAIN Layout
      BY DEF Settable, Layout
    <3> QED
      BY <1>4, <1>5, <3>1, FlagsApart
  <2>2. Layout[j][2] = 1 /\ r = Layout[j][1]
    BY <1>4, <1>5, <2>1, LayoutOfSettings DEF Flags, Settable, Regs
  <2> QED
    BY <1>1, <1>2, <2>1, <2>2
<1>6. WellFormed(w)
  <2>1. w.first \in 0..256 /\ w.count \in 1..20
    BY <1>1, <1>2, Zenon
  <2>2. w.values \in Seq(Word) /\ Len(w.values) = w.count
    BY <1>1
  <2> QED
    BY <1>1, <1>5, <2>1, <2>2, Zenon DEF WellFormed
<1>7. Part(j, w) = v
  <2>1. \A k \in 1..Layout[j][2] : w.values[Layout[j][1] + k - w.first] = v[k]
    BY <1>1, <1>2
  <2> QED
    BY <2>1 DEF Part
<1>8. Regs(j) \subseteq Touched(w) \/ j \notin Followed
  BY <1>4 DEF Followed
<1>9. Setting(j, p)[j] = p /\ DOMAIN Setting(j, p) = {j}
  BY DEF Setting
<1> QED
  BY <1>3, <1>4, <1>6, <1>7, <1>8, <1>9 DEF Carries, w

\* set_clock stores the six registers of date and time.
LEMMA ClockCarries ==
  ASSUME NEW v, NEW p, v \in Encode("clock", <<125, 2, 12, 8, 30, 0>>)
  PROVE  Carries(Write("Clock", v), TargetOf("set_clock", p))
<1> DEFINE w == Write("Clock", v)
           target == TargetOf("set_clock", p)
<1>1. v = <<2025, 3, 12, 8, 30, 0>>
  BY DEF Encode, TmToValues
<1>2. w = [first |-> 48, count |-> 6, values |-> <<2025, 3, 12, 8, 30, 0>>]
  BY <1>1, LayoutOfSettings DEF Write
<1>3. /\ DOMAIN target = {"Date", "Time"}
      /\ target["Date"] = <<2025, 3, 12>> /\ target["Time"] = <<8, 30, 0>>
  <2>1. "set_clock" \notin DOMAIN SetCommands
    BY DEF SetCommands, DisplayCommands, SystemCommands, SourceCommands, LimitCommands
  <2> QED
    BY <2>1 DEF TargetOf
<1>4. Touched(w) = 48..53 \cap Registers
  <2>1. \A r \in Registers : r \in Touched(w) <=> r \in 48..53
    BY <1>2, RegistersFit DEF Touched
  <2> QED
    BY <2>1 DEF Touched
<1>5. Regs("Date") = 48..50 /\ Regs("Time") = 51..53
  BY LayoutOfSettings DEF Regs
<1>6. Settings(w) = {"Date", "Time"} \cap Followed
  <2>1. \A i \in Settable : \A r \in Regs(i) : r \in Int /\ (r \in 48..53 <=> i \in {"Date", "Time"})
    BY LayoutOfSettings DEF Settable, Regs
  <2>2. \A i \in Settable : Layout[i][1] \in Regs(i)
    BY SettableLayout DEF Regs
  <2>3. \A r \in Int : (r >= w.first /\ r < w.first + w.count) <=> r \in 48..53
    BY <1>2
  <2>4. Followed \subseteq Settable
    BY DEF Followed
  <2> HIDE DEF w
  <2> QED
    BY <2>1, <2>2, <2>3, <2>4 DEF Settings
<1>7. WellFormed(w) /\ IsWrite(w)
  <2>1. <<2025, 3, 12, 8, 30, 0>> \in Seq(Word)
    BY RegistersAssumption DEF Word
  <2>2. Len(<<2025, 3, 12, 8, 30, 0>>) = 6 /\ <<2025, 3, 12, 8, 30, 0>> # <<>>
    OBVIOUS
  <2>3. Touched(w) \cap FlagRegisters = {}
    BY <1>4, FlagsAre
  <2> HIDE DEF w
  <2> QED
    BY <1>2, <2>1, <2>2, <2>3 DEF WellFormed, IsWrite
<1>8. Part("Date", w) = <<2025, 3, 12>> /\ Part("Time", w) = <<8, 30, 0>>
  BY <1>2, LayoutOfSettings DEF Part
<1>9. Held("Date", <<2025, 3, 12>>, <<2025, 3, 12>>) /\ Legal("Date", <<2025, 3, 12>>)
  BY RegistersAssumption DEF Held, Legal
<1>10. Held("Time", <<8, 30, 0>>, <<8, 30, 0>>) /\ Legal("Time", <<8, 30, 0>>)
  BY RegistersAssumption DEF Held, Legal
<1>11. \A i \in Followed : Regs(i) \subseteq Registers
  BY DEF Followed
<1> HIDE DEF w, target
<1>12. \A i \in Settings(w) : /\ Regs(i) \subseteq Touched(w)
                              /\ Legal(i, target[i])
                              /\ Held(i, target[i], Part(i, w))
  BY <1>3, <1>4, <1>5, <1>6, <1>8, <1>9, <1>10, <1>11
<1> QED
  BY <1>3, <1>6, <1>7, <1>12 DEF Carries, w, target

-----------------------------------------------------------------------------
(* What the commands and pages store                                       *)

LEMMA Steps ==
  \A multi \in {100, 1000, 10000} : Step(multi) \in {1, 10, 100}
  BY DEF Step, SCALE

LEMMA Models ==
  /\ ModelOf(PSU_ID).v \in {100, 1000, 10000}
  /\ ModelOf(PSU_ID).i \in {100, 1000, 10000}
  BY DEF ModelOf, Multipliers

\* A level is held by the register value it is converted to, whichever way
\* the product was rounded.
LEMMA LevelsHold ==
  ASSUME NEW x \in Int, NEW multi \in {100, 1000, 10000}, NEW v \in LevelToValues(x, multi)
  PROVE  v \in Word /\ LevelHeld(x, v, multi)
<1>1. PICK S \in {1, 10, 100} : Step(multi) = S
  BY Steps
<1> DEFINE k == x \div S
<1>2. k \in Int /\ S * k <= x /\ x < S * k + S
  BY <1>1
<1>3. CASE k \in Word
  <2>1. v = k \/ (v = k - 1 /\ k > 0 /\ x % S = 0)
    BY <1>1, <1>3 DEF LevelToValues, Word
  <2>2. k \in 0..(WORD - 1) /\ WORD \in Nat
    BY <1>3, RegistersAssumption DEF Word
  <2>3. v \in Word
    BY <2>1, <2>2 DEF Word
  <2>5. v * S <= x /\ x < (v + 2) * S
    <3>1. CASE S = 1
      BY <1>2, <2>1, <2>2, <3>1
    <3>2. CASE S = 10
      BY <1>2, <2>1, <2>2, <3>2
    <3>3. CASE S = 100
      BY <1>2, <2>1, <2>2, <3>3
    <3> QED
      BY <3>1, <3>2, <3>3
  <2> QED
    BY <1>1, <2>3, <2>5 DEF LevelHeld
<1>4. CASE k \notin Word
  <2>1. v \in {0, WORD - 1, k % WORD}
    BY <1>1, <1>4 DEF LevelToValues, Word
  <2>2. v \in Word
    BY <1>2, <2>1, RegistersAssumption DEF Word
  <2> QED
    BY <1>1, <1>4, <2>2 DEF LevelHeld, Word
<1> QED
  BY <1>3, <1>4

LEMMA SetCommandNames ==
  DOMAIN SetCommands =
    {"Rcl", "DisplayBrightness", "DisplayLanguage", "SystemDate", "SystemTime",
     "OutputState", "SourceVoltage", "SourceCurrent", "SourceVoltageLimit",
     "SourceCurrentLimit", "SystemBeeperState"}
  BY DEF SetCommands, DisplayCommands, SystemCommands, SourceCommands, LimitCommands

LEMMA SetCommandTable ==
  /\ SetCommands["Rcl"] = [legal |-> 1..9, item |-> "Preset", kind |-> "byte"]
  /\ SetCommands["DisplayBrightness"] = [legal |-> 0..5, item |-> "Brightness", kind |-> "byte"]
  /\ SetCommands["DisplayLanguage"] = [legal |-> 0..4, item |-> "Language", kind |-> "word"]
  /\ SetCommands["SystemDate"] = [legal |-> Int, item |-> "Date", kind |-> "word"]
  /\ SetCommands["SystemTime"] = [legal |-> Int, item |-> "Time", kind |-> "byte"]
  /\ SetCommands["OutputState"] = [legal |-> {0, 1}, item |-> "Output", kind |-> "flag"]
  /\ SetCommands["SourceVoltage"] = [legal |-> Int, item |-> "VoltageSet", kind |-> "volts"]
  /\ SetCommands["SourceCurrent"] = [legal |-> Int, item |-> "CurrentSet", kind |-> "amps"]
  /\ SetCommands["SourceVoltageLimit"] = [legal |-> Int, item |-> "M0_OVP", kind |-> "volts"]
  /\ SetCommands["SourceCurrentLimit"] = [legal |-> Int, item |-> "M0_OCP", kind |-> "amps"]
  /\ SetCommands["SystemBeeperState"] = [legal |-> {0, 1}, item |-> "Buzzer", kind |-> "flag"]
<1>1. SetCommands["Rcl"] = [legal |-> 1..9, item |-> "Preset", kind |-> "byte"]
  BY DEF SetCommands, DisplayCommands, SystemCommands, SourceCommands, LimitCommands,
         MeasurementCalls, OutputCalls, ClockCalls, OptionCalls, PresetCalls, On, Sets
<1>2. SetCommands["DisplayBrightness"] = [legal |-> 0..5, item |-> "Brightness", kind |-> "byte"]
  BY DEF SetCommands, DisplayCommands, SystemCommands, SourceCommands, LimitCommands,
         MeasurementCalls, OutputCalls, ClockCalls, OptionCalls, PresetCalls, On, Sets
<1>3. SetCommands["DisplayLanguage"] = [legal |-> 0..4, item |-> "Language", kind |-> "word"]
  BY DEF SetCommands, DisplayCommands, SystemCommands, SourceCommands, LimitCommands,
         MeasurementCalls, OutputCalls, ClockCalls, OptionCalls, PresetCalls, On, Sets
<1>4. SetCommands["SystemDate"] = [legal |-> Int, item |-> "Date", kind |-> "word"]
  BY DEF SetCommands, DisplayCommands, SystemCommands, SourceCommands, LimitCommands,
         MeasurementCalls, OutputCalls, ClockCalls, OptionCalls, PresetCalls, On, Sets
<1>5. SetCommands["SystemTime"] = [legal |-> Int, item |-> "Time", kind |-> "byte"]
  BY DEF SetCommands, DisplayCommands, SystemCommands, SourceCommands, LimitCommands,
         MeasurementCalls, OutputCalls, ClockCalls, OptionCalls, PresetCalls, On, Sets
<1>6. SetCommands["OutputState"] = [legal |-> {0, 1}, item |-> "Output", kind |-> "flag"]
  BY DEF SetCommands, DisplayCommands, SystemCommands, SourceCommands, LimitCommands,
         MeasurementCalls, OutputCalls, ClockCalls, OptionCalls, PresetCalls, On, Sets
<1>7. SetCommands["SourceVoltage"] = [legal |-> Int, item |-> "VoltageSet", kind |-> "volts"]
  BY DEF SetCommands, DisplayCommands, SystemCommands, SourceCommands, LimitCommands,
         MeasurementCalls, OutputCalls, ClockCalls, OptionCalls, PresetCalls, On, Sets
<1>8. SetCommands["SourceCurrent"] = [legal |-> Int, item |-> "CurrentSet", kind |-> "amps"]
  BY DEF SetCommands, DisplayCommands, SystemCommands, SourceCommands, LimitCommands,
         MeasurementCalls, OutputCalls, ClockCalls, OptionCalls, PresetCalls, On, Sets
<1>9. SetCommands["SourceVoltageLimit"] = [legal |-> Int, item |-> "M0_OVP", kind |-> "volts"]
  BY DEF SetCommands, DisplayCommands, SystemCommands, SourceCommands, LimitCommands,
         MeasurementCalls, OutputCalls, ClockCalls, OptionCalls, PresetCalls, On, Sets
<1>10. SetCommands["SourceCurrentLimit"] = [legal |-> Int, item |-> "M0_OCP", kind |-> "amps"]
  BY DEF SetCommands, DisplayCommands, SystemCommands, SourceCommands, LimitCommands,
         MeasurementCalls, OutputCalls, ClockCalls, OptionCalls, PresetCalls, On, Sets
<1>11. SetCommands["SystemBeeperState"] = [legal |-> {0, 1}, item |-> "Buzzer", kind |-> "flag"]
  BY DEF SetCommands, DisplayCommands, SystemCommands, SourceCommands, LimitCommands,
         MeasurementCalls, OutputCalls, ClockCalls, OptionCalls, PresetCalls, On, Sets
<1> QED
  BY <1>1, <1>2, <1>3, <1>4, <1>5, <1>6, <1>7, <1>8, <1>9, <1>10, <1>11

\* A setting to a voltage or a current.
LEMMA LevelCarries ==
  ASSUME NEW x \in Int, NEW j \in {"VoltageSet", "M0_OVP", "CurrentSet", "M0_OCP"},
         NEW v \in Encode(IF j \in {"VoltageSet", "M0_OVP"} THEN "volts" ELSE "amps", <<x>>)
  PROVE  Carries(Write(j, v), Setting(j, <<x>>))
<1> DEFINE multi == IF j \in {"VoltageSet", "M0_OVP"} THEN ModelOf(PSU_ID).v
                                                      ELSE ModelOf(PSU_ID).i
<1>1. multi \in {100, 1000, 10000}
  BY Models
<1>2. PICK n \in LevelToValues(x, multi) : v = <<n>>
  <2>1. <<x>>[1] = x
    OBVIOUS
  <2> QED
    BY <2>1 DEF Encode
<1>3. n \in Word /\ LevelHeld(x, n, multi)
  BY <1>1, <1>2, LevelsHold
<1>4. Held(j, <<x>>, v)
  BY <1>2, <1>3 DEF Held
<1>5. Legal(j, <<x>>) /\ j \in Settable /\ j \notin Flags
  BY DEF Legal, Settable, Flags
<1>6. v \in Seq(Word) /\ Len(v) = 1
  BY <1>2, <1>3
<1>7. Layout[j][2] = 1
  BY LayoutOfSettings
<1> QED
  BY <1>4, <1>5, <1>6, <1>7, WriteCarries

\* A flag, a choice or the number of a preset.
LEMMA NumberCarries ==
  ASSUME NEW n \in 0..9, NEW kind \in {"flag", "byte", "word"},
         NEW j \in {"Output", "Buzzer", "Preset", "Brightness", "Language"},
         Legal(j, <<n>>), kind = "flag" \/ j \in Flags => n \in {0, 1},
         NEW v \in Encode(kind, <<n>>)
  PROVE  Carries(Write(j, v), Setting(j, <<n>>))
<1>1. v = <<n>>
  <2>1. CASE kind = "flag"
    BY <2>1 DEF Encode
  <2>2. CASE kind = "word"
    <3>1. v = [k \in DOMAIN <<n>> |-> <<n>>[k] % WORD]
      BY <2>2 DEF Encode
    <3>2. n % WORD = n
      BY RegistersAssumption
    <3> QED
      BY <3>1, <3>2
  <2>3. CASE kind = "byte"
    <3>1. v = [k \in DOMAIN <<n>> |-> <<n>>[k] % BYTE]
      BY <2>3 DEF Encode
    <3>2. n % BYTE = n
      BY RegistersAssumption
    <3> QED
      BY <3>1, <3>2
  <2> QED
    BY <2>1, <2>2, <2>3
<1>2. v \in Seq(Word) /\ Len(v) = 1 /\ v[1] = n
  <2>1. n \in Word
    BY RegistersAssumption DEF Word
  <2> QED
    BY <1>1, <2>1
<1>3. Held(j, <<n>>, v) /\ j \in Settable
  BY <1>1 DEF Held, Settable
<1>4. Layout[j][2] = 1
  BY LayoutOfSettings
<1> QED
  BY <1>2, <1>3, <1>4, WriteCarries

LEMMA DateStored ==
  ASSUME NEW v \in Seq(Word), Len(v) = 3, NEW p, Legal("Date", p), Held("Date", p, v)
  PROVE  Carries(Write("Date", v), Setting("Date", p))
<1>1. "Date" \in Settable /\ "Date" \notin Flags
  BY DEF Settable, Flags
<1>2. Len(v) = Layout["Date"][2]
  BY LayoutOfSettings
<1> QED
  BY <1>1, <1>2, WriteCarries

LEMMA DateCarries ==
  ASSUME NEW p, p = <<2024, 2, 29>>, NEW v \in Encode("word", p)
  PROVE  Carries(Write("Date", v), Setting("Date", p))
<1>1. v = [k \in DOMAIN p |-> p[k] % WORD]
  BY DEF Encode
<1>2. DOMAIN p = 1..3 /\ \A k \in 1..3 : p[k] \in 0..9999 /\ p[k] % WORD = p[k]
  BY RegistersAssumption
<1>3. \A k \in 1..3 : v[k] = p[k] % WORD /\ v[k] \in Word
  BY <1>1, <1>2, RegistersAssumption DEF Word
<1>4. v \in Seq(Word) /\ Len(v) = 3
  BY <1>1, <1>2, <1>3
<1>5. Held("Date", p, v)
  BY <1>3 DEF Held
<1>6. Legal("Date", p)
  BY DEF Legal
<1> QED
  BY <1>4, <1>5, <1>6, DateStored

LEMMA TimeCarries ==
  ASSUME NEW p \in {<<23, 59, 58>>, <<BYTE, 0, 1>>}, NEW v \in Encode("byte", p)
  PROVE  Carries(Write("Time", v), Setting("Time", p))
<1>1. v = [k \in DOMAIN p |-> p[k] % BYTE]
  BY DEF Encode
<1>2. DOMAIN p = 1..3 /\ \A k \in 1..3 : p[k] \in Int
  BY RegistersAssumption
<1>3. \A k \in 1..3 : v[k] = p[k] % BYTE /\ v[k] \in Word
  BY <1>1, <1>2, RegistersAssumption DEF Word
<1>4. v \in Seq(Word) /\ Len(v) = 3
  BY <1>1, <1>2, <1>3
<1>5. Held("Time", p, v)
  BY <1>3 DEF Held
<1>6. Legal("Time", p) /\ "Time" \in Settable /\ "Time" \notin Flags
  BY DEF Legal, Settable, Flags
<1>7. Layout["Time"][2] = 3
  BY LayoutOfSettings
<1> QED
  BY <1>4, <1>5, <1>6, <1>7, WriteCarries

\* The write of a SCPI command carries the parameter the client gave it.
LEMMA CommandCarries ==
  ASSUME NEW c \in DOMAIN SetCommands, NEW p \in Parameters(c),
         p[1] \in SetCommands[c].legal,
         NEW v \in Encode(SetCommands[c].kind, p)
  PROVE  p \in Seq(Int) /\ Carries(Write(SetCommands[c].item, v), TargetOf(c, p))
<1>1. TargetOf(c, p) = Setting(SetCommands[c].item, p)
  BY SetCommandNames DEF TargetOf
<1>2. CASE c \in {"SourceVoltage", "SourceCurrent", "SourceVoltageLimit", "SourceCurrentLimit"}
  <2>1. PICK x \in Int : p = <<x>>
    BY <1>2, ScpiAssumption DEF Parameters
  <2>2. /\ SetCommands[c].item \in {"VoltageSet", "M0_OVP", "CurrentSet", "M0_OCP"}
        /\ SetCommands[c].kind =
             IF SetCommands[c].item \in {"VoltageSet", "M0_OVP"} THEN "volts" ELSE "amps"
    <3>1. CASE c \in {"SourceVoltage", "SourceCurrent"}
      BY <3>1, SetCommandTable
    <3>2. CASE c \in {"SourceVoltageLimit", "SourceCurrentLimit"}
      BY <3>2, SetCommandTable
    <3> QED
      BY <1>2, <3>1, <3>2
  <2>3. Carries(Write(SetCommands[c].item, v), Setting(SetCommands[c].item, p))
    BY <2>1, <2>2, LevelCarries
  <2>4. p \in Seq(Int)
    BY <2>1
  <2> QED
    BY <1>1, <2>3, <2>4
<1>3. CASE c \in {"Rcl", "DisplayBrightness", "DisplayLanguage"}
  <2>1. PICK n \in SetCommands[c].legal : p = <<n>>
    BY <1>3 DEF Parameters, Around
  <2>2. n \in 0..9 /\ Legal(SetCommands[c].item, <<n>>)
    BY <1>3, <2>1, SetCommandTable DEF Legal
  <2>3. /\ SetCommands[c].item \in {"Preset", "Brightness", "Language"}
        /\ SetCommands[c].kind \in {"byte", "word"}
    BY <1>3, SetCommandTable
  <2> QED
    BY <1>1, <2>1, <2>2, <2>3, NumberCarries DEF Flags
<1>4. CASE c \in {"OutputState", "SystemBeeperState"}
  <2>1. PICK n \in {0, 1} : p = <<n>>
    BY <1>4 DEF Parameters
  <2>2. /\ SetCommands[c].item \in {"Output", "Buzzer"} /\ SetCommands[c].kind = "flag"
    BY <1>4, SetCommandTable
  <2>3. n \in 0..9 /\ Legal(SetCommands[c].item, <<n>>)
    BY <2>1, <2>2 DEF Legal
  <2> QED
    BY <1>1, <2>1, <2>2, <2>3, NumberCarries
<1>5. CASE c = "SystemDate"
  <2>1. p = <<2024, 2, 29>>
    BY <1>5 DEF Parameters
  <2>2. SetCommands[c].item = "Date" /\ SetCommands[c].kind = "word"
    BY <1>5, SetCommandTable
  <2>3. p \in Seq(Int)
    BY <2>1
  <2> QED
    BY <1>1, <2>1, <2>2, <2>3, DateCarries
<1>6. CASE c = "SystemTime"
  <2>1. p \in {<<23, 59, 58>>, <<BYTE, 0, 1>>}
    BY <1>6 DEF Parameters
  <2>2. p \in Seq(Int)
    <3>1. <<23, 59, 58>> \in Seq(Int)
      OBVIOUS
    <3>2. <<BYTE, 0, 1>> \in Seq(Int)
      BY RegistersAssumption
    <3> QED
      BY <2>1, <3>1, <3>2
  <2>3. SetCommands[c].item = "Time" /\ SetCommands[c].kind = "byte"
    BY <1>6, SetCommandTable
  <2> QED
    BY <1>1, <2>1, <2>2, <2>3, TimeCarries
<1> QED
  BY <1>2, <1>3, <1>4, <1>5, <1>6, SetCommandNames

-----------------------------------------------------------------------------
(* What the queries and pages read                                         *)

LEMMA QueryNames ==
  DOMAIN Queries =
    {"DisplayBrightnessQ", "DisplayLanguageQ", "SystemDateQ", "SystemTimeQ",
     "SystemBeeperStateQ", "OutputStateQ", "OutputModeQ", "SourceVoltageQ",
     "SourceVoltageProtectionTrippedQ", "SourceCurrentQ",
     "SourceCurrentProtectionTrippedQ", "MeasureVoltageQ", "MeasureCurrentQ",
     "MeasurePowerQ", "MeasureTemperatureQ_SYSTEM", "MeasureTemperatureQ_PROBE"}
  BY DEF Queries, SettingQueries, SourceQueries, MeasureQueries

LEMMA QueryTable ==
  /\ Queries["DisplayBrightnessQ"] = [item |-> "Brightness", kind |-> "byte"]
  /\ Queries["DisplayLanguageQ"] = [item |-> "Language", kind |-> "word"]
  /\ Queries["SystemDateQ"] = [item |-> "Clock", kind |-> "clock"]
  /\ Queries["SystemTimeQ"] = [item |-> "Clock", kind |-> "clock"]
  /\ Queries["SystemBeeperStateQ"] = [item |-> "Buzzer", kind |-> "flag"]
  /\ Queries["OutputStateQ"] = [item |-> "Output", kind |-> "flag"]
  /\ Queries["OutputModeQ"] = [item |-> "OutputMode", kind |-> "enum1"]
  /\ Queries["SourceVoltageQ"] = [item |-> "VoltageSet", kind |-> "volts"]
  /\ Queries["SourceVoltageProtectionTrippedQ"] = [item |-> "Protection", kind |-> "enum2"]
  /\ Queries["SourceCurrentQ"] = [item |-> "CurrentSet", kind |-> "amps"]
  /\ Queries["SourceCurrentProtectionTrippedQ"] = [item |-> "Protection", kind |-> "enum2"]
  /\ Queries["MeasureVoltageQ"] = [item |-> "VoltageOut", kind |-> "volts"]
  /\ Queries["MeasureCurrentQ"] = [item |-> "CurrentOut", kind |-> "amps"]
  /\ Queries["MeasurePowerQ"] = [item |-> "PowerOut", kind |-> "power"]
  /\ Queries["MeasureTemperatureQ_SYSTEM"] = [item |-> "SystemTemperatureCelsius", kind |-> "temperature"]
  /\ Queries["MeasureTemperatureQ_PROBE"] = [item |-> "ProbeTemperatureCelsius", kind |-> "temperature"]
<1>1. Queries["DisplayBrightnessQ"] = [item |-> "Brightness", kind |-> "byte"]
  BY DEF Queries, SettingQueries, SourceQueries, MeasureQueries,
         MeasurementCalls, OutputCalls, ClockCalls, OptionCalls, On
<1>2. Queries["DisplayLanguageQ"] = [item |-> "Language", kind |-> "word"]
  BY DEF Queries, SettingQueries, SourceQueries, MeasureQueries,
         MeasurementCalls, OutputCalls, ClockCalls, OptionCalls, On
<1>3. Queries["SystemDateQ"] = [item |-> "Clock", kind |-> "clock"]
  BY DEF Queries, SettingQueries, SourceQueries, MeasureQueries,
         MeasurementCalls, OutputCalls, ClockCalls, OptionCalls, On
<1>4. Queries["SystemTimeQ"] = [item |-> "Clock", kind |-> "clock"]
  BY DEF Queries, SettingQueries, SourceQueries, MeasureQueries,
         MeasurementCalls, OutputCalls, ClockCalls, OptionCalls, On
<1>5. Queries["SystemBeeperStateQ"] = [item |-> "Buzzer", kind |-> "flag"]
  BY DEF Queries, SettingQueries, SourceQueries, MeasureQueries,
         MeasurementCalls, OutputCalls, ClockCalls, OptionCalls, On
<1>6. Queries["OutputStateQ"] = [item |-> "Output", kind |-> "flag"]
  BY DEF Queries, SettingQueries, SourceQueries, MeasureQueries,
         MeasurementCalls, OutputCalls, ClockCalls, OptionCalls, On
<1>7. Queries["OutputModeQ"] = [item |-> "OutputMode", kind |-> "enum1"]
  BY DEF Queries, SettingQueries, SourceQueries, MeasureQueries,
         MeasurementCalls, OutputCalls, ClockCalls, OptionCalls, On
<1>8. Queries["SourceVoltageQ"] = [item |-> "VoltageSet", kind |-> "volts"]
  BY DEF Queries, SettingQueries, SourceQueries, MeasureQueries,
         MeasurementCalls, OutputCalls, ClockCalls, OptionCalls, On
<1>9. Queries["SourceVoltageProtectionTrippedQ"] = [item |-> "Protection", kind |-> "enum2"]
  BY DEF Queries, SettingQueries, SourceQueries, MeasureQueries,
         MeasurementCalls, OutputCalls, ClockCalls, OptionCalls, On
<1>10. Queries["SourceCurrentQ"] = [item |-> "CurrentSet", kind |-> "amps"]
  BY DEF Queries, SettingQueries, SourceQueries, MeasureQueries,
         MeasurementCalls, OutputCalls, ClockCalls, OptionCalls, On
<1>11. Queries["SourceCurrentProtectionTrippedQ"] = [item |-> "Protection", kind |-> "enum2"]
  BY DEF Queries, SettingQueries, SourceQueries, MeasureQueries,
         MeasurementCalls, OutputCalls, ClockCalls, OptionCalls, On
<1>12. Queries["MeasureVoltageQ"] = [item |-> "VoltageOut", kind |-> "volts"]
  BY DEF Queries, SettingQueries, SourceQueries, MeasureQueries,
         MeasurementCalls, OutputCalls, ClockCalls, OptionCalls, On
<1>13. Queries["MeasureCurrentQ"] = [item |-> "CurrentOut", kind |-> "amps"]
  BY DEF Queries, SettingQueries, SourceQueries, MeasureQueries,
         MeasurementCalls, OutputCalls, ClockCalls, OptionCalls, On
<1>14. Queries["MeasurePowerQ"] = [item |-> "PowerOut", kind |-> "power"]
  BY DEF Queries, SettingQueries, SourceQueries, MeasureQueries,
         MeasurementCalls, OutputCalls, ClockCalls, OptionCalls, On
<1>15. Queries["MeasureTemperatureQ_SYSTEM"] = [item |-> "SystemTemperatureCelsius", kind |-> "temperature"]
  BY DEF Queries, SettingQueries, SourceQueries, MeasureQueries,
         MeasurementCalls, OutputCalls, ClockCalls, OptionCalls, On
<1>16. Queries["MeasureTemperatureQ_PROBE"] = [item |-> "ProbeTemperatureCelsius", kind |-> "temperature"]
  BY DEF Queries, SettingQueries, SourceQueries, MeasureQueries,
         MeasurementCalls, OutputCalls, ClockCalls, OptionCalls, On
<1> QED
  BY <1>1, <1>2, <1>3, <1>4, <1>5, <1>6, <1>7, <1>8,
     <1>9, <1>10, <1>11, <1>12, <1>13, <1>14, <1>15, <1>16

LEMMA QueryItems ==
  \A c \in DOMAIN Queries : Queries[c].item \in DOMAIN Layout
<1>1. {"Brightness", "Language", "Clock", "Buzzer", "Output", "OutputMode", "VoltageSet",
       "Protection", "CurrentSet", "VoltageOut", "CurrentOut", "PowerOut",
       "SystemTemperatureCelsius", "ProbeTemperatureCelsius"} \subseteq DOMAIN Layout
  BY DEF Layout
<1> QED
  BY <1>1, QueryNames, QueryTable

LEMMA ReadsAre ==
  \A a \in Reads : WellFormed(a) /\ ~IsWrite(a)
<1> SUFFICES ASSUME NEW a \in Reads
             PROVE  WellFormed(a) /\ ~IsWrite(a)
  OBVIOUS
<1>1. a.values = <<>> /\ <<>> \in Seq(Word)
  BY DEF Reads
<1>2. ~IsWrite(a)
  BY <1>1 DEF IsWrite
<1>3. a.first \in 0..256 /\ a.count \in 1..20
  BY DEF Reads
<1>4. a = [first |-> a.first, count |-> a.count, values |-> a.values]
  BY DEF Reads
<1> QED
  BY <1>1, <1>2, <1>3, <1>4, Zenon DEF WellFormed

LEMMA ItemsRead ==
  \A i \in DOMAIN Layout : ReadItem(i) \in Reads
<1> SUFFICES ASSUME NEW i \in DOMAIN Layout
             PROVE  ReadItem(i) \in Reads
  OBVIOUS
<1>1. Layout[i][1] \in 0..256 /\ Layout[i][2] \in 1..20
  BY ItemsFit
<1> QED
  BY <1>1 DEF ReadItem, Read, Reads

\* All registers up to `last' are read, 20 at a time.
LEMMA ChunksAre ==
  /\ Len(Chunks(SUBSET_END)) = 3
  /\ Chunks(SUBSET_END) \in Seq(Reads)
  /\ Len(Chunks(M9_OCP)) = 6
  /\ Chunks(M9_OCP) \in Seq(Reads)
  /\ \A k \in 1..6 : Chunks(M9_OCP)[k] = Read(20 * (k - 1), 20)
  /\ \A k \in 1..2 : Chunks(SUBSET_END)[k] = Read(20 * (k - 1), 20)
  /\ Chunks(SUBSET_END)[3] = Read(40, 3)
<1>1. (42 + 20) \div 20 = 3 /\ (119 + 20) \div 20 = 6
  OBVIOUS
<1>2. \A k \in 1..6 : Min2(20, 119 + 1 - 20 * (k - 1)) = 20
  BY DEF Min2
<1>3. \A k \in 1..2 : Min2(20, 42 + 1 - 20 * (k - 1)) = 20
  BY DEF Min2
<1>4. Min2(20, 42 + 1 - 20 * (3 - 1)) = 3 /\ 20 * (3 - 1) = 40
  BY DEF Min2
<1>5. \A k \in 1..6 : Read(20 * (k - 1), 20) \in Reads
  BY DEF Read, Reads
<1>6. Read(40, 3) \in Reads
  BY DEF Read, Reads
<1>7. Chunks(M9_OCP) = [k \in 1..6 |-> Read(20 * (k - 1), 20)]
  BY <1>1, <1>2 DEF Chunks, M9_OCP
<1>8. Chunks(SUBSET_END) = [k \in 1..3 |-> IF k \in 1..2 THEN Read(20 * (k - 1), 20) ELSE Read(40, 3)]
  <2>1. Chunks(SUBSET_END) = [k \in 1..3 |-> Read(20 * (k - 1), Min2(20, 42 + 1 - 20 * (k - 1)))]
    BY <1>1 DEF Chunks, SUBSET_END
  <2>2. \A k \in 1..3 : Read(20 * (k - 1), Min2(20, 42 + 1 - 20 * (k - 1)))
                          = IF k \in 1..2 THEN Read(20 * (k - 1), 20) ELSE Read(40, 3)
    <3> SUFFICES ASSUME NEW k \in 1..3
                 PROVE  Read(20 * (k - 1), Min2(20, 42 + 1 - 20 * (k - 1)))
                          = IF k \in 1..2 THEN Read(20 * (k - 1), 20) ELSE Read(40, 3)
      OBVIOUS
    <3>1. CASE k \in 1..2
      BY <1>3, <3>1
    <3>2. CASE k = 3
      BY <1>4, <3>2
    <3> QED
      BY <3>1, <3>2
  <2> QED
    BY <2>1, <2>2
<1>9. \A k \in 1..2 : k \in 1..6
  OBVIOUS
<1> QED
  BY <1>5, <1>6, <1>7, <1>8, <1>9

\* The registers of each item a page shows lie in one of its reads.
LEMMA ItemChunks ==
  /\ \A i \in {"SystemTemperatureCelsius", "SystemTemperatureFahrenheit", "VoltageSet",
               "CurrentSet", "VoltageOut", "CurrentOut", "PowerOut", "VoltageIn", "Keypad",
               "Protection", "OutputMode", "Output"} : Regs(i) \subseteq 0..19
  /\ \A i \in {"CurrentRange", "BatteryMode", "VoltageBattery", "ProbeTemperatureCelsius",
               "ProbeTemperatureFahrenheit", "AH"} : Regs(i) \subseteq 20..39
  /\ Regs("WH") \subseteq 40..42
  /\ Regs("Clock") \subseteq 40..59
  /\ \A i \in {"TakeOk", "TakeOut", "PowerOnBoot", "Buzzer", "Logo", "Language",
               "Brightness"} : Regs(i) \subseteq 60..79
  /\ \A i \in {"M1", "M2", "M3", "M4"} : Regs(i) \subseteq 80..99
  /\ \A i \in {"M5", "M6", "M7", "M8", "M9"} : Regs(i) \subseteq 100..119
  BY DEF Layout, Regs

LEMMA ReadsTouch ==
  ASSUME NEW f \in Int, NEW n \in Int
  PROVE  Touched(Read(f, n)) = Registers \cap f..(f + n - 1)
<1>1. Registers \subseteq Int
  BY RegistersFit
<1>2. Read(f, n).first = f /\ Read(f, n).count = n
  BY DEF Read
<1>3. \A r \in Registers : r \in Touched(Read(f, n)) <=> r \in f..(f + n - 1)
  BY <1>1, <1>2 DEF Touched
<1> QED
  BY <1>3 DEF Touched

LEMMA ChunksTouch ==
  /\ \A k \in 1..6 : Registers \cap 20 * (k - 1) .. 20 * k - 1 = Touched(Chunks(M9_OCP)[k])
  /\ \A k \in 1..2 : Registers \cap 20 * (k - 1) .. 20 * k - 1 = Touched(Chunks(SUBSET_END)[k])
  /\ Registers \cap 40..42 = Touched(Chunks(SUBSET_END)[3])
<1>1. \A f, n \in Int : Touched(Read(f, n)) = Registers \cap f..(f + n - 1)
  BY ReadsTouch
<1>2. \A k \in 1..6 : 20 * (k - 1) \in Int /\ 20 * (k - 1) + 20 - 1 = 20 * k - 1
  OBVIOUS
<1>3. \A k \in 1..6 : Touched(Read(20 * (k - 1), 20)) = Registers \cap 20 * (k - 1) .. 20 * k - 1
  BY <1>1, <1>2
<1>4. Touched(Read(40, 3)) = Registers \cap 40..42
  BY <1>1
<1>5. \A k \in 1..2 : k \in 1..6
  OBVIOUS
<1> QED
  BY <1>3, <1>4, <1>5, ChunksAre

\* Which of the tasks are handlers that only read.
LEMMA PlainReaders ==
  /\ Tasks \ (Writers \cup {"none"})
       = {"status", "psu", "root", "lxi_identification", "modbus_qps", "toggle_out",
          "toggle_status"} \cup DOMAIN Queries
  /\ DOMAIN Queries \cap Writers = {} /\ DOMAIN Queries \subseteq Tasks
  /\ DOMAIN Queries \cap PageTasks = {}
  /\ Writers \subseteq Tasks /\ "none" \notin Writers
  BY QueryNames, SetCommandNames DEF Tasks, PageTasks, Writers

LEMMA PlanCases ==
  /\ PlanOf("status") = Chunks(SUBSET_END)
  /\ PlanOf("toggle_status") = Chunks(SUBSET_END)
  /\ PlanOf("psu") = Chunks(M9_OCP)
  /\ PlanOf("root") = IF Connected THEN send_power_supply_info ELSE <<>>
  /\ PlanOf("lxi_identification") = <<ReadItem("SerialNumber"), ReadItem("Firmware")>>
  /\ PlanOf("modbus_qps") = [k \in 1..QPS_READS |-> ReadItem("VoltageSet")]
  /\ PlanOf("toggle_out") = <<ReadItem("Output")>>
  /\ \A c \in DOMAIN Queries : PlanOf(c) = <<ReadItem(Queries[c].item)>>
  BY QueryNames DEF PlanOf

LEMMA PlansRead ==
  \A name \in Tasks \ (Writers \cup {"none"}) : PlanOf(name) \in Seq(Reads)
<1>1. \A i, j \in DOMAIN Layout : <<ReadItem(i)>> \in Seq(Reads)
                               /\ <<ReadItem(i), ReadItem(j)>> \in Seq(Reads)
  BY ItemsRead
<1>2. {"SerialNumber", "Firmware", "VoltageSet", "Output"} \subseteq DOMAIN Layout
  BY DEF Layout
<1>3. [k \in 1..QPS_READS |-> ReadItem("VoltageSet")] \in Seq(Reads)
  BY <1>2, ItemsRead, HttpAssumption
<1>4. <<>> \in Seq(Reads)
  OBVIOUS
<1>5. \A c \in DOMAIN Queries : PlanOf(c) \in Seq(Reads)
  BY <1>1, PlanCases, QueryItems
<1>6. PlanOf("root") \in Seq(Reads)
  BY <1>1, <1>2, <1>4, PlanCases DEF send_power_supply_info
<1>7. PlanOf("lxi_identification") \in Seq(Reads)
  BY <1>1, <1>2, PlanCases
<1>8. PlanOf("toggle_out") \in Seq(Reads)
  BY <1>1, <1>2, PlanCases
<1>9. /\ PlanOf("modbus_qps") \in Seq(Reads) /\ PlanOf("status") \in Seq(Reads)
      /\ PlanOf("toggle_status") \in Seq(Reads) /\ PlanOf("psu") \in Seq(Reads)
  BY <1>3, PlanCases, ChunksAre
<1> QED
  BY <1>5, <1>6, <1>7, <1>8, <1>9, PlainReaders

\* No register is read twice.
LEMMA PlansApart ==
  ASSUME NEW name \in Careful, NEW j \in 1..Len(PlanOf(name)), NEW k \in 1..Len(PlanOf(name)),
         j # k
  PROVE  Touched(PlanOf(name)[j]) \cap Touched(PlanOf(name)[k]) = {}
<1>1. CASE name = "psu"
  <2>1. j \in 1..6 /\ k \in 1..6
    BY <1>1, PlanCases, ChunksAre
  <2>0. PlanOf(name) = Chunks(M9_OCP)
    BY <1>1, PlanCases
  <2>2. (20 * (j - 1) .. 20 * j - 1) \cap (20 * (k - 1) .. 20 * k - 1) = {}
    BY <2>1
  <2>3. /\ Touched(Chunks(M9_OCP)[j]) = Registers \cap (20 * (j - 1) .. 20 * j - 1)
        /\ Touched(Chunks(M9_OCP)[k]) = Registers \cap (20 * (k - 1) .. 20 * k - 1)
    BY <2>1, ChunksTouch
  <2> QED
    BY <2>0, <2>2, <2>3, Zenon
<1>2. CASE name \in {"status", "toggle_status"}
  <2>0. PlanOf(name) = Chunks(SUBSET_END)
    BY <1>2, PlanCases
  <2>1. j \in {1, 2, 3} /\ k \in {1, 2, 3}
    BY <2>0, ChunksAre
  <2>2. /\ Touched(Chunks(SUBSET_END)[1]) \subseteq 0..19
        /\ Touched(Chunks(SUBSET_END)[2]) \subseteq 20..39
        /\ Touched(Chunks(SUBSET_END)[3]) \subseteq 40..42
    BY ChunksTouch
  <2>3. (0..19) \cap (20..39) = {} /\ (0..19) \cap (40..42) = {} /\ (20..39) \cap (40..42) = {}
    OBVIOUS
  <2> DEFINE T(i) == Touched(Chunks(SUBSET_END)[i])
  <2>4. T(1) \cap T(2) = {} /\ T(1) \cap T(3) = {} /\ T(2) \cap T(3) = {}
    BY <2>2, <2>3
  <2> HIDE DEF T
  <2>5. T(j) \cap T(k) = {}
    BY <2>1, <2>4
  <2> QED
    BY <2>0, <2>5 DEF T
<1>3. CASE name = "toggle_out" \/ name \in DOMAIN Queries
  <2>1. Len(PlanOf(name)) = 1
    BY <1>3, PlanCases
  <2> QED
    BY <2>1
<1> QED
  BY <1>1, <1>2, <1>3 DEF Careful

\* What a page shows is read, and what belongs together is read together.
LEMMA PlansShow ==
  ASSUME NEW name \in Tasks, NEW G \in ShownItems(name)
  PROVE  /\ name \in Careful
         /\ \E j \in 1..Len(PlanOf(name)) :
              (UNION {Regs(i) : i \in G}) \cap Registers \subseteq Touched(PlanOf(name)[j])
<1> DEFINE R == UNION {Regs(i) : i \in G}
<1>1. CASE name \in DOMAIN Queries
  <2>1. G = {Queries[name].item}
    BY <1>1, QueryNames DEF ShownItems
  <2>2. PlanOf(name) = <<ReadItem(Queries[name].item)>>
    BY <1>1, PlanCases
  <2>3. Touched(ReadItem(Queries[name].item)) = Regs(Queries[name].item) \cap Registers
    <3>1. PICK i \in DOMAIN Layout : i = Queries[name].item
      BY <1>1, QueryItems
    <3>2. Layout[i][1] \in Nat /\ Layout[i][2] \in Nat
      BY ItemsFit
    <3>4. Touched(ReadItem(i)) = Registers \cap Layout[i][1]..(Layout[i][1] + Layout[i][2] - 1)
      BY <3>2, ReadsTouch DEF ReadItem
    <3> QED
      BY <3>1, <3>4 DEF Regs
  <2>4. R = Regs(Queries[name].item)
    BY <2>1
  <2> QED
    BY <1>1, <2>2, <2>3, <2>4 DEF Careful
<1>2. CASE name \in {"status", "toggle_status"}
  <2>1. G \in StatusItems
    BY <1>2, QueryNames DEF ShownItems
  <2>2. R \subseteq 0..19 \/ R \subseteq 20..39 \/ R \subseteq 40..42
    BY <2>1, ItemChunks DEF StatusItems
  <2>3. /\ Registers \cap 0..19 = Touched(PlanOf(name)[1])
        /\ Registers \cap 20..39 = Touched(PlanOf(name)[2])
        /\ Registers \cap 40..42 = Touched(PlanOf(name)[3])
        /\ Len(PlanOf(name)) = 3
    BY <1>2, PlanCases, ChunksTouch, ChunksAre
  <2>4. \E j \in 1..3 : R \cap Registers \subseteq Touched(PlanOf(name)[j])
    BY <2>2, <2>3
  <2> QED
    BY <1>2, <2>3, <2>4 DEF Careful
<1>3. CASE name = "psu"
  <2>1. G \in PsuItems
    BY <1>3, QueryNames DEF ShownItems
  <2>2. \/ R \subseteq 0..19 \/ R \subseteq 20..39 \/ R \subseteq 40..59
        \/ R \subseteq 60..79 \/ R \subseteq 80..99 \/ R \subseteq 100..119
    BY <2>1, ItemChunks DEF PsuItems, StatusItems
  <2>3. /\ Registers \cap 0..19 = Touched(PlanOf(name)[1])
        /\ Registers \cap 20..39 = Touched(PlanOf(name)[2])
        /\ Registers \cap 40..59 = Touched(PlanOf(name)[3])
        /\ Registers \cap 60..79 = Touched(PlanOf(name)[4])
        /\ Registers \cap 80..99 = Touched(PlanOf(name)[5])
        /\ Registers \cap 100..119 = Touched(PlanOf(name)[6])
        /\ Len(PlanOf(name)) = 6
    <3>1. PlanOf(name) = Chunks(M9_OCP)
      BY <1>3, PlanCases
    <3>2. \A k \in 1..6 :
            Registers \cap 20 * (k - 1) .. 20 * k - 1 = Touched(Chunks(M9_OCP)[k])
      BY ChunksTouch
    <3>3. /\ 20 * (1 - 1) = 0 /\ 20 * 1 - 1 = 19 /\ 20 * (2 - 1) = 20 /\ 20 * 2 - 1 = 39
          /\ 20 * (3 - 1) = 40 /\ 20 * 3 - 1 = 59 /\ 20 * (4 - 1) = 60 /\ 20 * 4 - 1 = 79
          /\ 20 * (5 - 1) = 80 /\ 20 * 5 - 1 = 99 /\ 20 * (6 - 1) = 100 /\ 20 * 6 - 1 = 119
      OBVIOUS
    <3> QED
      BY <3>1, <3>2, <3>3, ChunksAre
  <2>4. \E j \in 1..6 : R \cap Registers \subseteq Touched(PlanOf(name)[j])
    BY <2>2, <2>3
  <2> QED
    BY <1>3, <2>3, <2>4 DEF Careful
<1> QED
  BY <1>1, <1>2, <1>3 DEF ShownItems
=============================================================================
