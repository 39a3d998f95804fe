------------------------------- MODULE Dongle -------------------------------
(***************************************************************************)
(* The dongle from power-up to loop(): it loads its configuration from     *)
(* flash, waits for the power supply, joins the WiFi network or opens the  *)
(* configuration portal, and then serves the web page on which its         *)
(* configuration is changed and it is rebooted.                            *)
(*                                                                         *)
(* The EEPROM library keeps the configuration in one flash sector, which   *)
(* it erases and then writes.  The power may fail between any two steps.   *)
(***************************************************************************)
EXTENDS Integers

CONSTANTS
  Timezones,             \* names in TIMEZONES
  NoTimezone,            \* ""
  OtherNames,            \* other texts of less than 100 characters
  Bauds,                 \* numbers of 32 bits, DEFAULT_UART_BAUDRATE among them
  DEFAULT_UART_BAUDRATE,
  PSU_BAUD,              \* the power supply's
  BOOT_TRIES,            \* calls of RidenModbus::begin in five seconds
  PSU_SILENT,            \* whether set_clock may fail
  MaxReboots,            \* bound: reboots by the user
  MaxFailures,           \* bound: power failures
  MaxFaults              \* bound: times that EEPROM.commit() fails

ASSUME DongleAssumption ==
  /\ NoTimezone \notin Timezones
  /\ OtherNames \cap Timezones = {}
  /\ DEFAULT_UART_BAUDRATE \in Bauds
  /\ PSU_BAUD \in Bauds
  /\ BOOT_TRIES \in Nat \ {0}
  /\ PSU_SILENT \in BOOLEAN
  /\ MaxReboots \in Nat /\ MaxFailures \in Nat /\ MaxFaults \in Nat

VARIABLES
  flash,            \* what the sector holds
  config,           \* riden_config
  pc,               \* where the thread is
  after,            \* where it goes on when RidenConfig::commit returns
  tries,            \* calls of RidenModbus::begin in this boot
  connected,        \* in main.cpp; before that, RidenModbus::initialized
  has_time,         \* in main.cpp
  did_update_time,  \* in main.cpp
  ntp,              \* configTime() has been called
  psu_up,           \* the power supply's firmware has booted
  clock_set,        \* its clock is right (history)
  posted,           \* settings the user has been told are saved (history)
  spoiled,          \* since then a save was cut short (history)
  reboots, failures, faults,  \* counters for the bounds
  asked, opened     \* portals asked for and opened (history)

flashVars == <<flash, config, pc, after, posted, spoiled, faults>>
bootVars == <<tries, connected, has_time, did_update_time, ntp, psu_up, clock_set>>
countVars == <<reboots, failures, asked, opened>>
vars == <<flashVars, bootVars, countVars>>

-----------------------------------------------------------------------------
(* RidenConfig                                                             *)

Names == Timezones \cup OtherNames \cup {NoTimezone}
Configs == [tz : Names, portal : BOOLEAN, baud : Bauds]

\* RidenConfigStructV1 has no baud rate.  Anything else is Erased: an erased
\* sector, another program's data or the configuration of a later version.
V1 == [version : {1}, tz : Names, portal : BOOLEAN]
V2 == [version : {2}, tz : Names, portal : BOOLEAN, baud : Bauds]
Erased == [version |-> 0]

Default == [tz |-> NoTimezone, portal |-> FALSE, baud |-> DEFAULT_UART_BAUDRATE]

Stored(c) == [version |-> 2, tz |-> c.tz, portal |-> c.portal, baud |-> c.baud]

\* Mutant: the baud rate of version 2 is not loaded either.
LoadedWithoutBaud(f) ==
  IF f = Erased THEN Default
  ELSE [tz |-> f.tz, portal |-> f.portal, baud |-> DEFAULT_UART_BAUDRATE]

\* What begin() makes of the sector.
Loaded(f) ==
  IF f = Erased THEN Default
  ELSE [tz |-> f.tz, portal |-> f.portal,
        baud |-> IF f.version = 2 THEN f.baud ELSE DEFAULT_UART_BAUDRATE]

Settings(c) == <<c.tz, c.baud>>

\* The caller of commit() goes on at l.
CallCommit(l) == pc' = "commit" /\ after' = l

\* commit() returns.  The user is told only after a post.
Return ==
  /\ pc' = after
  /\ UNCHANGED <<config, after>>

Told ==
  IF after = "loop" THEN posted' = Settings(config) /\ spoiled' = FALSE
                    ELSE UNCHANGED <<posted, spoiled>>

\* EEPROM.commit(): nothing to do, the sector cannot be erased, or it is.  The
\* bytes behind the end of tz_name are not initialized, so there may be
\* something to do though nothing has changed.
Commit ==
  /\ pc = "commit"
  /\ \/ flash = Stored(config) /\ Return /\ Told /\ UNCHANGED <<flash, faults>>
     \/ /\ faults < MaxFaults
        /\ Return
        /\ spoiled' = TRUE
        /\ faults' = faults + 1
        /\ UNCHANGED <<flash, posted>>
     \/ /\ flash' = Erased
        /\ pc' = "write"
        /\ UNCHANGED <<config, after, posted, spoiled, faults>>
  /\ UNCHANGED <<bootVars, countVars>>

Write ==
  /\ pc = "write"
  /\ Return
  /\ \/ flash' = Stored(config) /\ Told /\ UNCHANGED faults
     \/ /\ faults < MaxFaults
        /\ spoiled' = TRUE
        /\ faults' = faults + 1
        /\ UNCHANGED <<flash, posted>>
  /\ UNCHANGED <<bootVars, countVars>>

-----------------------------------------------------------------------------
(* setup()                                                                 *)

Begin ==
  /\ pc = "begin"
  /\ config' = Loaded(flash)
  /\ IF flash = Erased THEN CallCommit("psu") ELSE pc' = "psu" /\ UNCHANGED after
  /\ UNCHANGED <<flash, posted, spoiled, faults, bootVars, countVars>>

\* Mutants: one call too many; no end to the calls.
BeginModbusAgain ==
  /\ pc = "psu"
  /\ \/ /\ psu_up /\ config.baud = PSU_BAUD
        /\ connected' = TRUE
        /\ pc' = "wifi"
        /\ UNCHANGED tries
     \/ /\ tries' = tries + 1
        /\ pc' = IF tries < BOOT_TRIES THEN "psu" ELSE "wifi"
        /\ UNCHANGED connected
  /\ UNCHANGED <<flash, config, after, posted, spoiled, faults, has_time,
                 did_update_time, ntp, psu_up, clock_set, countVars>>

BeginModbusForever ==
  /\ pc = "psu"
  /\ IF psu_up /\ config.baud = PSU_BAUD
     THEN connected' = TRUE /\ pc' = "wifi"
     ELSE UNCHANGED <<connected, pc>>
  /\ UNCHANGED <<flash, config, after, posted, spoiled, faults, tries, has_time,
                 did_update_time, ntp, psu_up, clock_set, countVars>>

\* One call of RidenModbus::begin: the supply answers, or not, or not in time.
\* It understands nothing at another rate than its own.
BeginModbus ==
  /\ pc = "psu"
  /\ \/ /\ psu_up /\ config.baud = PSU_BAUD
        /\ connected' = TRUE
        /\ pc' = "wifi"
        /\ UNCHANGED tries
     \/ /\ tries' = tries + 1
        /\ pc' = IF tries + 1 < BOOT_TRIES THEN "psu" ELSE "wifi"
        /\ UNCHANGED connected
  /\ UNCHANGED <<flash, config, after, posted, spoiled, faults, has_time,
                 did_update_time, ntp, psu_up, clock_set, countVars>>

\* Mutant: the flag is reset in RAM only.
ConnectWifiForgetful ==
  /\ pc = "wifi"
  /\ config' = [config EXCEPT !.portal = FALSE]
  /\ pc' = IF config.portal THEN "portal" ELSE "connect"
  /\ UNCHANGED <<flash, after, posted, spoiled, faults, bootVars, countVars>>

\* Mutant: what get_and_reset_config_portal_on_boot returns is lost.
ConnectWifiPlain ==
  /\ pc = "wifi"
  /\ config' = [config EXCEPT !.portal = FALSE]
  /\ IF config.portal THEN CallCommit("connect") ELSE pc' = "connect" /\ UNCHANGED after
  /\ UNCHANGED <<flash, posted, spoiled, faults, bootVars, countVars>>

\* connect_wifi: get_and_reset_config_portal_on_boot.
ConnectWifi ==
  /\ pc = "wifi"
  /\ IF config.portal
     THEN config' = [config EXCEPT !.portal = FALSE] /\ CallCommit("portal")
     ELSE pc' = "connect" /\ UNCHANGED <<config, after>>
  /\ UNCHANGED <<flash, posted, spoiled, faults, bootVars, countVars>>

OpenPortal ==
  /\ pc = "portal"
  /\ pc' = "in_portal"
  /\ opened' = opened + 1
  /\ UNCHANGED <<flash, config, after, posted, spoiled, faults, bootVars,
                 reboots, failures, asked>>

\* The network is joined.  Without a power supply there is no host name, and the
\* rest of connect_wifi and of setup() asks for nothing.
WifiConnected ==
  /\ pc \in {"connect", "in_portal"}
  /\ pc' = IF connected THEN "mdns" ELSE "loop"
  /\ UNCHANGED <<flash, config, after, posted, spoiled, faults, bootVars, countVars>>

\* With one, MDNS.begin may fail; else the time is asked for and the servers begin.
BeginMdns ==
  /\ pc = "mdns"
  /\ \/ pc' = "loop" /\ ntp' = (config.tz \in Timezones)
     \/ pc' = "no_mdns" /\ UNCHANGED ntp
  /\ UNCHANGED <<flash, config, after, posted, spoiled, faults, tries, connected,
                 has_time, did_update_time, psu_up, clock_set, countVars>>

\* The endless loop when it has failed.
HeldByMdns ==
  /\ pc = "no_mdns"
  /\ UNCHANGED vars

WifiFailed ==
  /\ pc \in {"connect", "in_portal"}
  /\ pc' = "reset"
  /\ UNCHANGED <<flash, config, after, posted, spoiled, faults, bootVars, countVars>>

-----------------------------------------------------------------------------
(* loop()                                                                  *)

\* Mutant: has_time is not looked at.
LoopEarly ==
  /\ pc = "loop"
  /\ IF connected /\ ~did_update_time
     THEN did_update_time' = TRUE /\ clock_set' = has_time
     ELSE UNCHANGED <<did_update_time, clock_set>>
  /\ pc' = "http"
  /\ UNCHANGED <<flash, config, after, posted, spoiled, faults, tries, connected,
                 has_time, ntp, psu_up, countVars>>

\* The clock, with set_clock's result ignored; the other servers' loops change nothing here.
Loop ==
  /\ pc = "loop"
  /\ IF connected /\ has_time /\ ~did_update_time
     THEN /\ did_update_time' = TRUE
          /\ clock_set' \in {TRUE, clock_set \/ ~PSU_SILENT}
     ELSE UNCHANGED <<did_update_time, clock_set>>
  /\ pc' = "http"
  /\ UNCHANGED <<flash, config, after, posted, spoiled, faults, tries, connected,
                 has_time, ntp, psu_up, countVars>>

\* RidenHttpServer: no request that matters here.
NoRequest ==
  /\ pc = "http"
  /\ pc' = "loop"
  /\ UNCHANGED <<flash, config, after, posted, spoiled, faults, bootVars, countVars>>

\* Whatever texts and numbers the form sends.
handle_config_post(tz, baud) ==
  /\ pc = "http"
  /\ config' = [config EXCEPT !.tz = tz, !.baud = baud]
  /\ CallCommit("loop")
  /\ UNCHANGED <<flash, posted, spoiled, faults, bootVars, countVars>>

handle_reboot_dongle_get(config_portal) ==
  /\ pc = "http"
  /\ reboots < MaxReboots
  /\ reboots' = reboots + 1
  /\ IF config_portal
     THEN /\ config' = [config EXCEPT !.portal = TRUE]
          /\ CallCommit("reset")
          /\ asked' = asked + 1
     ELSE /\ pc' = "reset"
          /\ UNCHANGED <<config, after, asked>>
  /\ UNCHANGED <<flash, posted, spoiled, faults, bootVars, failures, opened>>

-----------------------------------------------------------------------------
(* Resets and the rest of the world                                        *)

\* RAM is lost; static variables have their initial values.
Restart ==
  /\ pc' = "begin"
  /\ config' = Default
  /\ after' = "psu"
  /\ tries' = 0
  /\ connected' = FALSE
  /\ has_time' = FALSE
  /\ did_update_time' = FALSE
  /\ ntp' = FALSE

\* ESP.reset() or ESP.restart(); the power supply stays on.
Reset ==
  /\ pc = "reset"
  /\ Restart
  /\ UNCHANGED <<flash, posted, spoiled, faults, psu_up, clock_set, countVars>>

\* The power supply feeds the dongle, and fails with it.
PowerFailure ==
  /\ failures < MaxFailures
  /\ failures' = failures + 1
  /\ Restart
  /\ psu_up' = FALSE
  /\ clock_set' = FALSE
  /\ spoiled' = (spoiled \/ pc = "write")
  /\ UNCHANGED <<flash, posted, faults, reboots, asked, opened>>

PsuBoots ==
  /\ ~psu_up
  /\ psu_up' = TRUE
  /\ UNCHANGED <<flashVars, tries, connected, has_time, did_update_time, ntp,
                 clock_set, countVars>>

on_time_received ==
  /\ ntp
  /\ has_time' = TRUE
  /\ UNCHANGED <<flashVars, tries, connected, did_update_time, ntp, psu_up,
                 clock_set, countVars>>

Init ==
  /\ flash \in {Erased} \cup V1 \cup V2
  /\ config = Default
  /\ pc = "begin"
  /\ after = "psu"
  /\ tries = 0
  /\ connected = FALSE
  /\ has_time = FALSE
  /\ did_update_time = FALSE
  /\ ntp = FALSE
  /\ psu_up = FALSE
  /\ clock_set = FALSE
  /\ posted = Settings(Loaded(flash))
  /\ spoiled = FALSE
  /\ reboots = 0 /\ failures = 0 /\ faults = 0
  /\ asked = IF Loaded(flash).portal THEN 1 ELSE 0
  /\ opened = 0

Thread ==
  \/ Begin
  \/ Commit
  \/ Write
  \/ BeginModbus
  \/ ConnectWifi
  \/ OpenPortal
  \/ WifiConnected
  \/ BeginMdns
  \/ HeldByMdns
  \/ WifiFailed
  \/ Loop
  \/ NoRequest
  \/ \E tz \in Names, baud \in Bauds : handle_config_post(tz, baud)
  \/ \E portal \in BOOLEAN : handle_reboot_dongle_get(portal)
  \/ Reset

Next ==
  \/ Thread
  \/ PowerFailure
  \/ PsuBoots
  \/ on_time_received

Spec == Init /\ [][Next]_vars

\* The thread never stops.  A network that is tried again and again is joined,
\* if need be because the user has done his part in the portal, and a power
\* supply that is told the time again and again takes it.
FairSpec ==
  /\ Spec
  /\ WF_vars(Thread)
  /\ SF_vars(WifiConnected)
  /\ SF_vars(Loop /\ clock_set')

-----------------------------------------------------------------------------
(* Properties                                                              *)

Labels == {"begin", "commit", "write", "psu", "wifi", "portal", "in_portal",
           "connect", "mdns", "no_mdns", "loop", "http", "reset"}

\* All variables have their types.
TypeOK ==
  /\ flash \in {Erased} \cup V1 \cup V2
  /\ config \in Configs
  /\ pc \in Labels
  /\ after \in {"psu", "portal", "connect", "loop", "reset"}
  /\ tries \in 0..BOOT_TRIES
  /\ connected \in BOOLEAN /\ has_time \in BOOLEAN /\ did_update_time \in BOOLEAN
  /\ ntp \in BOOLEAN /\ psu_up \in BOOLEAN /\ clock_set \in BOOLEAN
  /\ posted \in Names \X Bauds
  /\ spoiled \in BOOLEAN
  /\ reboots \in 0..MaxReboots /\ failures \in 0..MaxFailures /\ faults \in 0..MaxFaults
  /\ asked \in 0..(reboots + 1)
  /\ opened \in Nat

\* Settings the user has been told are saved are those of the next boot, and
\* of this one once it has loaded them, wherever the power fails, unless it
\* (or the flash) failed in the middle of a save.
SettingsSurvive ==
  ~spoiled =>
    /\ pc \notin {"commit", "write"} => Settings(Loaded(flash)) = posted
    /\ pc \notin {"commit", "write", "begin"} => Settings(config) = posted

\* The portal opens once for each time it was asked for, and once more at most
\* for each time the flash has failed: it never opens at every boot.
PortalOnRequest == opened <= asked + faults

\* However the flash fails and the power comes and goes, and whether or not the
\* power supply answers at the configured rate, the web page comes up again,
\* with one exception: when MDNS.begin fails, connect_wifi holds the thread, and
\* the dongle has neither page nor servers until its power fails.
WebPageComesUp == []<>(pc = "http") \/ <>[](pc = "no_mdns")

\* Once the power stays on, a portal that is asked for in flash opens.
PortalOpens ==
  (failures = MaxFailures /\ pc = "begin" /\ Loaded(flash).portal) ~> pc = "in_portal"

\* When the time is known the power supply gets it, if nobody reboots any more.
ClockGetsSet ==
  (has_time /\ pc = "loop" /\ reboots = MaxReboots /\ failures = MaxFailures) ~> clock_set
=============================================================================
