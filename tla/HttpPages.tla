----------------------------- MODULE HttpPages -----------------------------
(***************************************************************************)
(* The pages of RidenHttpServer that reach the power supply.  A page that  *)
(* is_connected() keeps away from it is one whose first access fails here: *)
(* RidenModbus checks the same flag.                                       *)
(***************************************************************************)
EXTENDS ScpiCommands

CONSTANT QPS_READS  \* reads of the speed test: 200 in the code

ASSUME HttpAssumption ==
  /\ QPS_READS \in Nat
  /\ "Output" \in Watched

\* Mutant: 16 registers at a time.
ChunksOf16(last) ==
  [k \in 1..((last + 16) \div 16) |->
     Read(16 * (k - 1), Min2(16, last + 1 - 16 * (k - 1)))]

\* RidenModbus::get_all_values reads registers 0..last, 20 at a time.
Chunks(last) ==
  [k \in 1..((last + 20) \div 20) |->
     Read(20 * (k - 1), Min2(20, last + 1 - 20 * (k - 1)))]

StatusGet == Start("status", <<>>, Chunks(SUBSET_END))

PsuGet == Start("psu", <<>>, Chunks(M9_OCP))

SetI(x) ==
  \E v \in Encode("amps", <<x>>) : Start("set_i", <<x>>, <<Write("CurrentSet", v)>>)

SetV(x) ==
  \E v \in Encode("volts", <<x>>) : Start("set_v", <<x>>, <<Write("VoltageSet", v)>>)

\* The root page and the LXI identification show firmware version and serial
\* number, read or not.
send_power_supply_info == <<ReadItem("Firmware"), ReadItem("SerialNumber")>>

RootGet ==
  Start("root", <<>>, IF Connected THEN send_power_supply_info ELSE <<>>)

LxiIdentification ==
  Start("lxi_identification", <<>>, <<ReadItem("SerialNumber"), ReadItem("Firmware")>>)

ModbusQps ==
  Start("modbus_qps", <<>>, [k \in 1..QPS_READS |-> ReadItem("VoltageSet")])

ToggleOut == Start("toggle_out", <<>>, <<ReadItem("Output")>>)

Continue(name, p, accesses) ==
  /\ Begin(name, p, accesses)
  /\ UNCHANGED <<history, late, at, reply, moves, tasks>>

OutputRegister == Layout["Output"][1]

\* Mutant: the output is set to what it was.
ToggleSet ==
  /\ Finished /\ task = "toggle_out"
  /\ LET on == ~failed /\ got[OutputRegister] # 0
         w  == IF on \/ failed THEN 1 ELSE 0
     IN  Continue("toggle_set", <<w, IF failed THEN 0 ELSE 1>>, <<Write("Output", <<w>>)>>)

\* The second half of handle_toggle_out: a state that could not be read
\* counts as off.  param[2] remembers whether it was read.
ToggleWrite ==
  /\ Finished /\ task = "toggle_out"
  /\ LET on == ~failed /\ got[OutputRegister] # 0
         w  == IF on THEN 0 ELSE 1
     IN  Continue("toggle_set", <<w, IF failed THEN 0 ELSE 1>>, <<Write("Output", <<w>>)>>)

\* handle_toggle_out answers with the status page, or with an error.
ToggleAnswer ==
  /\ Finished /\ task = "toggle_set"
  /\ IF failed THEN End(FALSE, <<>>, NoSetting)
               ELSE /\ task' = "toggle_status"
                    /\ todo' = Chunks(SUBSET_END)
                    /\ UNCHANGED <<history, late, param, at, got, failed, reply,
                                   asked, touched, moves, tasks>>

PageDone ==
  /\ Finished
  /\ task \in {"status", "psu", "root", "lxi_identification", "modbus_qps"}
  /\ End(~failed, <<>>, NoSetting)

SetDone ==
  /\ Finished
  /\ \/ task = "set_i" /\ End(~failed, <<>>, Setting("CurrentSet", param))
     \/ task = "set_v" /\ End(~failed, <<>>, Setting("VoltageSet", param))
     \/ task = "toggle_status" /\ End(~failed, <<>>, Setting("Output", <<param[1]>>))

Http ==
  /\ \/ StatusGet
     \/ PsuGet
     \/ \E x \in Levels : SetI(x) \/ SetV(x)
     \/ RootGet
     \/ LxiIdentification
     \/ ModbusQps
     \/ ToggleOut
     \/ ToggleWrite
     \/ ToggleAnswer
     \/ PageDone
     \/ SetDone
  /\ UNCHANGED errors
=============================================================================
