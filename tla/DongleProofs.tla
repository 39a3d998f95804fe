---------------------------- MODULE DongleProofs ----------------------------
(***************************************************************************)
(* Proofs about Dongle, for any number of reboots, power failures, flash   *)
(* faults, time zones and baud rates.                                      *)
(***************************************************************************)
EXTENDS Dongle, TLAPS

-----------------------------------------------------------------------------
(* Types                                                                   *)

\* There is a call of RidenModbus::begin left as long as there are calls.
TriesInv ==
  /\ pc = "begin" => tries = 0
  /\ pc \in {"commit", "write"} /\ after = "psu" => tries = 0
  /\ pc = "psu" => tries < BOOT_TRIES

TypeInv ==
  /\ TypeOK
  /\ TriesInv

\* The sector holds a configuration, or none.
LEMMA LoadedTypes ==
  ASSUME NEW f \in {Erased} \cup V1 \cup V2
  PROVE  Loaded(f) \in Configs
<1>1. CASE f = Erased
  BY <1>1, DongleAssumption DEF Loaded, Default, Configs, Names
<1>2. CASE f # Erased /\ f \in V1
  BY <1>2, DongleAssumption DEF Loaded, Configs, V1
<1>3. CASE f # Erased /\ f \in V2
  BY <1>3, DongleAssumption DEF Loaded, Configs, V2
<1> QED
  BY <1>1, <1>2, <1>3

LEMMA StoredTypes ==
  ASSUME NEW c \in Configs
  PROVE  Stored(c) \in V2 /\ Stored(c) # Erased
<1>1. Stored(c) \in V2
  BY DEF Stored, Configs, V2
<1>2. Stored(c).version = 2 /\ Erased.version = 0
  BY DEF Stored, Erased
<1> QED
  BY <1>1, <1>2

\* What has been saved is what is loaded.
LEMMA SavedIsLoaded ==
  ASSUME NEW c \in Configs
  PROVE  /\ Loaded(Stored(c)).portal = c.portal
         /\ Settings(Loaded(Stored(c))) = Settings(c)
<1>1. Stored(c) # Erased
  BY StoredTypes
<1>2. Loaded(Stored(c)) = [tz |-> c.tz, portal |-> c.portal, baud |-> c.baud]
  BY <1>1 DEF Loaded, Stored
<1> QED
  BY <1>2 DEF Settings

LEMMA SettingsTypes ==
  ASSUME NEW c \in Configs
  PROVE  Settings(c) \in Names \X Bauds
  BY DEF Settings, Configs

LEMMA CommitTypes ==
  ASSUME TypeInv, Commit \/ Write
  PROVE  TypeInv'
<1>1. /\ config' = config /\ after' = after /\ UNCHANGED bootVars /\ UNCHANGED countVars
      /\ flash' \in {flash, Erased, Stored(config)}
      /\ pc' \in {after, "write"}
      /\ posted' \in {posted, Settings(config)}
      /\ spoiled' \in {spoiled, TRUE, FALSE}
      /\ faults' = faults \/ (faults < MaxFaults /\ faults' = faults + 1)
      /\ pc \in {"commit", "write"}
  BY DEF Commit, Write, Return, Told
<1>2. flash' \in {Erased} \cup V1 \cup V2
  BY <1>1, StoredTypes DEF TypeInv, TypeOK
<1>3. posted' \in Names \X Bauds
  BY <1>1, SettingsTypes DEF TypeInv, TypeOK
<1>4. faults' \in 0..MaxFaults
  BY <1>1, DongleAssumption DEF TypeInv, TypeOK
<1>5. pc' \in Labels /\ spoiled' \in BOOLEAN
  BY <1>1 DEF TypeInv, TypeOK, Labels
<1>6. TypeOK'
  BY <1>1, <1>2, <1>3, <1>4, <1>5 DEF TypeInv, TypeOK, bootVars, countVars
<1>7. tries' = tries /\ (pc' = "write" \/ pc' = after)
  BY <1>1 DEF bootVars
<1>8. 0 < BOOT_TRIES
  BY DongleAssumption
<1>9. after # "begin"
  BY DEF TypeInv, TypeOK
<1>10. TriesInv'
  BY <1>1, <1>7, <1>8, <1>9 DEF TypeInv, TriesInv
<1> QED
  BY <1>6, <1>10 DEF TypeInv

\* The steps that leave the flash and the history of saves alone.
LEMMA QuietTypes ==
  ASSUME TypeInv,
         Begin \/ BeginModbus \/ ConnectWifi \/ OpenPortal \/ WifiConnected \/ BeginMdns
           \/ WifiFailed \/ Loop \/ NoRequest
  PROVE  TypeInv'
<1>1. UNCHANGED <<flash, posted, spoiled, faults, psu_up, reboots, failures, asked>>
  BY DEF Begin, BeginModbus, ConnectWifi, OpenPortal, WifiConnected, BeginMdns,
         WifiFailed, Loop, NoRequest, bootVars, countVars
<1>2. CASE Begin
  <2>1. /\ config' = Loaded(flash) /\ UNCHANGED bootVars /\ UNCHANGED countVars
        /\ \/ pc' = "commit" /\ after' = "psu"
           \/ pc' = "psu" /\ after' = after
        /\ pc = "begin"
    BY <1>2 DEF Begin, CallCommit
  <2>2. config' \in Configs
    BY <2>1, LoadedTypes DEF TypeInv, TypeOK
  <2>3. TriesInv'
    BY <2>1, DongleAssumption DEF TypeInv, TriesInv, bootVars
  <2>4. TypeOK'
    BY <1>1, <2>1, <2>2 DEF TypeInv, TypeOK, TriesInv, Labels, bootVars, countVars
  <2> QED
    BY <2>3, <2>4 DEF TypeInv
<1>3. CASE BeginModbus
  <2>1. /\ UNCHANGED <<config, after, has_time, did_update_time, ntp, clock_set, countVars>>
        /\ connected' \in {connected, TRUE}
        /\ \/ tries' = tries /\ pc' = "wifi"
           \/ tries' = tries + 1 /\ tries + 1 < BOOT_TRIES /\ pc' = "psu"
           \/ tries' = tries + 1 /\ pc' = "wifi"
        /\ pc = "psu"
    BY <1>3 DEF BeginModbus
  <2>2. tries' \in 0..BOOT_TRIES /\ (pc' = "psu" => tries' < BOOT_TRIES)
    BY <2>1, DongleAssumption DEF TypeInv, TypeOK, TriesInv
  <2>3. pc' \in {"psu", "wifi"}
    BY <2>1
  <2>4. TriesInv'
    BY <2>2, <2>3 DEF TriesInv
  <2>5. connected' \in BOOLEAN
    BY <2>1 DEF TypeInv, TypeOK
  <2>6. TypeOK'
    BY <1>1, <2>1, <2>2, <2>3, <2>5 DEF TypeInv, TypeOK, Labels, countVars
  <2> QED
    BY <2>4, <2>6 DEF TypeInv
<1>4. CASE ConnectWifi
  <2>1. /\ config' \in {config, [config EXCEPT !.portal = FALSE]}
        /\ UNCHANGED bootVars /\ UNCHANGED countVars
        /\ \/ pc' = "commit" /\ after' = "portal"
           \/ pc' = "connect" /\ after' = after
    BY <1>4 DEF ConnectWifi, CallCommit
  <2>2. config' \in Configs
    BY <2>1 DEF TypeInv, TypeOK, Configs
  <2> QED
    BY <1>1, <2>1, <2>2 DEF TypeInv, TypeOK, TriesInv, Labels, bootVars, countVars
<1>5. CASE OpenPortal
  BY <1>1, <1>5 DEF OpenPortal, TypeInv, TypeOK, TriesInv, Labels, bootVars
<1>6. CASE WifiConnected
  BY <1>1, <1>6 DEF WifiConnected, TypeInv, TypeOK, TriesInv, Labels, bootVars, countVars
<1>9. CASE BeginMdns
  <2>1. ntp' \in BOOLEAN
    <3>1. ntp \in BOOLEAN
      BY DEF TypeInv, TypeOK
    <3>2. CASE ntp' = (config.tz \in Timezones)
      BY <3>2
    <3>3. CASE ntp' = ntp
      BY <3>1, <3>3
    <3> QED
      BY <1>9, <3>2, <3>3 DEF BeginMdns
  <2>2. pc' \in {"loop", "no_mdns"}
    BY <1>9 DEF BeginMdns
  <2> QED
    BY <1>1, <1>9, <2>1, <2>2 DEF BeginMdns, TypeInv, TypeOK, TriesInv, Labels, countVars
<1>7. CASE WifiFailed \/ NoRequest
  BY <1>1, <1>7 DEF WifiFailed, NoRequest, TypeInv, TypeOK, TriesInv, Labels, bootVars,
                      countVars
<1>8. CASE Loop
  <2>1. clock_set' \in BOOLEAN /\ did_update_time' \in BOOLEAN
    BY <1>8 DEF Loop, TypeInv, TypeOK
  <2> QED
    BY <1>1, <1>8, <2>1 DEF Loop, TypeInv, TypeOK, TriesInv, Labels, countVars
<1> QED
  BY <1>2, <1>3, <1>4, <1>5, <1>6, <1>7, <1>8, <1>9

LEMMA UserTypes ==
  ASSUME TypeInv,
         NEW tz \in Names, NEW baud \in Bauds, NEW portal \in BOOLEAN,
         handle_config_post(tz, baud) \/ handle_reboot_dongle_get(portal)
  PROVE  TypeInv'
<1>1. CASE handle_config_post(tz, baud)
  <2>1. config' \in Configs
    BY <1>1 DEF handle_config_post, TypeInv, TypeOK, Configs
  <2> QED
    BY <1>1, <2>1 DEF handle_config_post, CallCommit, TypeInv, TypeOK, TriesInv, Labels,
                      bootVars, countVars
<1>2. CASE handle_reboot_dongle_get(portal)
  <2>1. /\ UNCHANGED <<flash, posted, spoiled, faults, bootVars, failures, opened>>
        /\ reboots < MaxReboots /\ reboots' = reboots + 1
        /\ config' \in {config, [config EXCEPT !.portal = TRUE]}
        /\ asked' \in {asked, asked + 1}
        /\ \/ pc' = "commit" /\ after' = "reset"
           \/ pc' = "reset" /\ after' = after
    BY <1>2 DEF handle_reboot_dongle_get, CallCommit
  <2>2. config' \in Configs
    BY <2>1 DEF TypeInv, TypeOK, Configs
  <2>3. reboots' \in 0..MaxReboots /\ asked' \in 0..(reboots' + 1)
    BY <2>1, DongleAssumption DEF TypeInv, TypeOK
  <2> QED
    BY <2>1, <2>2, <2>3 DEF TypeInv, TypeOK, TriesInv, Labels, bootVars
<1> QED
  BY <1>1, <1>2

LEMMA WorldTypes ==
  ASSUME TypeInv, Reset \/ PowerFailure \/ PsuBoots \/ on_time_received
  PROVE  TypeInv'
<1>1. Default \in Configs
  BY DongleAssumption DEF Default, Configs, Names
<1>2. CASE Reset
  <2>1. TriesInv'
    BY <1>2, DongleAssumption DEF Reset, Restart, TriesInv
  <2>2. 0 \in 0..BOOT_TRIES
    BY DongleAssumption
  <2>3. TypeOK'
    BY <1>1, <1>2, <2>2 DEF Reset, Restart, TypeInv, TypeOK, Labels, countVars
  <2> QED
    BY <2>1, <2>3 DEF TypeInv
<1>3. CASE PowerFailure
  <2>1. failures' \in 0..MaxFailures
    BY <1>3, DongleAssumption DEF PowerFailure, TypeInv, TypeOK
  <2>2. spoiled' \in BOOLEAN
    BY <1>3 DEF PowerFailure
  <2>3. TriesInv'
    BY <1>3, DongleAssumption DEF PowerFailure, Restart, TriesInv
  <2>4. 0 \in 0..BOOT_TRIES
    BY DongleAssumption
  <2>5. TypeOK'
    BY <1>1, <1>3, <2>1, <2>2, <2>4 DEF PowerFailure, Restart, TypeInv, TypeOK, Labels
  <2> QED
    BY <2>3, <2>5 DEF TypeInv
<1>4. CASE PsuBoots
  BY <1>4 DEF PsuBoots, TypeInv, TypeOK, TriesInv, flashVars, countVars
<1>5. CASE on_time_received
  BY <1>5 DEF on_time_received, TypeInv, TypeOK, TriesInv, flashVars, countVars
<1> QED
  BY <1>2, <1>3, <1>4, <1>5

LEMMA TypeInvHolds == Spec => []TypeInv
<1>1. Init => TypeInv
  <2> SUFFICES ASSUME Init
               PROVE  TypeInv
    OBVIOUS
  <2>1. config \in Configs
    BY DongleAssumption DEF Init, Default, Configs, Names
  <2>2. posted \in Names \X Bauds
    BY LoadedTypes, SettingsTypes DEF Init
  <2>3. asked \in {0, 1} /\ reboots = 0
    BY DEF Init
  <2>4. /\ 0 \in 0..BOOT_TRIES /\ 0 \in 0..MaxReboots /\ 0 \in 0..MaxFailures
        /\ 0 \in 0..MaxFaults /\ asked \in 0..(reboots + 1)
    BY <2>3, DongleAssumption
  <2>5. TypeOK
    BY <2>1, <2>2, <2>4 DEF Init, TypeOK, Labels
  <2>6. TriesInv
    BY DongleAssumption DEF Init, TriesInv
  <2> QED
    BY <2>5, <2>6 DEF TypeInv
<1>2. TypeInv /\ [Next]_vars => TypeInv'
  <2> SUFFICES ASSUME TypeInv, [Next]_vars
               PROVE  TypeInv'
    OBVIOUS
  <2>1. CASE HeldByMdns \/ UNCHANGED vars
    BY <2>1 DEF HeldByMdns, TypeInv, TypeOK, TriesInv, vars, flashVars, bootVars, countVars
  <2>2. CASE Commit \/ Write
    BY <2>2, CommitTypes
  <2>3. CASE Begin \/ BeginModbus \/ ConnectWifi \/ OpenPortal \/ WifiConnected
               \/ BeginMdns \/ WifiFailed \/ Loop \/ NoRequest
    BY <2>3, QuietTypes
  <2>4. CASE \E tz \in Names, baud \in Bauds : handle_config_post(tz, baud)
    BY <2>4, UserTypes, Zenon
  <2>5. CASE \E portal \in BOOLEAN : handle_reboot_dongle_get(portal)
    <3>1. PICK portal \in BOOLEAN : handle_reboot_dongle_get(portal)
      BY <2>5
    <3>2. PICK tz \in Names, baud \in Bauds : TRUE
      BY DongleAssumption DEF Names
    <3> QED
      BY <3>1, <3>2, UserTypes
  <2>6. CASE Reset \/ PowerFailure \/ PsuBoots \/ on_time_received
    BY <2>6, WorldTypes
  <2> QED
    BY <2>1, <2>2, <2>3, <2>4, <2>5, <2>6 DEF Next, Thread
<1> QED
  BY <1>1, <1>2, PTL DEF Spec

\* The variables keep their types, and the power supply is not asked more
\* often than the five seconds allow.
THEOREM DongleTypeCorrect == Spec => []TypeOK
BY TypeInvHolds, PTL DEF TypeInv

-----------------------------------------------------------------------------
(* What has been saved                                                     *)

\* What commit() is about to write is what the user knows, unless it is the
\* user's own change, of which the user has not been told yet.
SavedInv ==
  ~spoiled =>
    /\ pc # "write" => Settings(Loaded(flash)) = posted
    /\ pc \in {"commit", "write"} /\ after # "loop" => Settings(config) = posted
    /\ pc \notin {"commit", "write", "begin"} => Settings(config) = posted

LEMMA SavedInvHolds == Spec => []SavedInv
<1>1. Init => SavedInv
  BY DEF Init, SavedInv
<1>2. TypeInv /\ SavedInv /\ [Next]_vars => SavedInv'
  <2> SUFFICES ASSUME TypeInv, SavedInv, [Next]_vars
               PROVE  SavedInv'
    OBVIOUS
  <2>0. /\ config \in Configs
        /\ after \in {"psu", "portal", "connect", "loop", "reset"}
    BY DEF TypeInv, TypeOK
  <2>1. CASE Commit
    <3>1. Settings(Loaded(Stored(config))) = Settings(config)
      BY <2>0, SavedIsLoaded
    <3> QED
      BY <2>0, <2>1, <3>1 DEF Commit, Return, Told, SavedInv, Settings
  <2>2. CASE Write
    <3>1. Settings(Loaded(Stored(config))) = Settings(config)
      BY <2>0, SavedIsLoaded
    <3> QED
      BY <2>0, <2>2, <3>1 DEF Write, Return, Told, SavedInv, Settings
  <2>3. CASE Begin
    BY <2>3 DEF Begin, CallCommit, SavedInv
  <2>4. CASE ConnectWifi
    <3>1. Settings(config') = Settings(config)
      BY <2>0, <2>4 DEF ConnectWifi, Settings, Configs
    <3> QED
      BY <2>4, <3>1 DEF ConnectWifi, CallCommit, SavedInv
  <2>5. CASE BeginModbus \/ OpenPortal \/ WifiConnected \/ BeginMdns \/ WifiFailed
               \/ Loop \/ NoRequest
    <3>1. UNCHANGED <<flash, config, posted, spoiled>>
          /\ pc \notin {"commit", "write", "begin"}
          /\ pc' \notin {"commit", "write", "begin"}
      BY <2>5 DEF BeginModbus, OpenPortal, WifiConnected, BeginMdns, WifiFailed, Loop,
                  NoRequest
    <3> QED
      BY <3>1 DEF SavedInv
  <2>6. ASSUME NEW tz \in Names, NEW baud \in Bauds, handle_config_post(tz, baud)
        PROVE  SavedInv'
    BY <2>6 DEF handle_config_post, CallCommit, SavedInv
  <2>7. ASSUME NEW portal \in BOOLEAN, handle_reboot_dongle_get(portal)
        PROVE  SavedInv'
    <3>1. Settings(config') = Settings(config)
      BY <2>0, <2>7 DEF handle_reboot_dongle_get, Settings, Configs
    <3> QED
      BY <2>7, <3>1 DEF handle_reboot_dongle_get, CallCommit, SavedInv
  <2>8. CASE Reset
    BY <2>8 DEF Reset, Restart, SavedInv
  <2>9. CASE PowerFailure
    BY <2>9 DEF PowerFailure, Restart, SavedInv
  <2>10. CASE PsuBoots \/ on_time_received \/ HeldByMdns \/ UNCHANGED vars
    <3>1. UNCHANGED <<flash, config, pc, after, posted, spoiled>>
      BY <2>10 DEF HeldByMdns, PsuBoots, on_time_received, vars, flashVars
    <3> QED
      BY <3>1 DEF SavedInv
  <2> QED
    BY <2>1, <2>2, <2>3, <2>4, <2>5, <2>6, <2>7, <2>8, <2>9, <2>10 DEF Next, Thread
<1> QED
  BY <1>1, <1>2, TypeInvHolds, PTL DEF Spec

\* Whenever the power fails, and as often as it does, settings are lost only
\* when it fails in the middle of a save.
THEOREM SettingsAreKept == Spec => []SettingsSurvive
<1>1. SavedInv => SettingsSurvive
  BY DEF SavedInv, SettingsSurvive
<1> QED
  BY <1>1, SavedInvHolds, PTL

-----------------------------------------------------------------------------
(* The configuration portal                                                *)

Flagged == Loaded(flash).portal = TRUE
Saving == pc \in {"commit", "write"}

\* How often the portal may still open without anybody asking again.
Due ==
  IF Saving
  THEN IF after \in {"portal", "reset"} \/ Flagged THEN 1 ELSE 0
  ELSE (IF Flagged THEN 1 ELSE 0) + (IF pc = "portal" THEN 1 ELSE 0)

\* The flag in RAM is set between begin() and connect_wifi, if it was in
\* flash, and from the user's request to the reset.
FlagInv ==
  /\ Saving /\ after # "reset" => config.portal = FALSE
  /\ pc \in {"psu", "wifi"} /\ config.portal = TRUE => Flagged
  /\ pc \in {"portal", "in_portal", "connect", "mdns", "no_mdns", "loop", "http"}
       => config.portal = FALSE

PortalInv == FlagInv /\ opened + Due <= asked + faults

\* Loading the flag.
LEMMA LoadedFlag ==
  /\ Loaded(Erased).portal = FALSE
  /\ \A c \in Configs : Loaded(Stored(c)).portal = c.portal
<1>1. Loaded(Erased).portal = FALSE
  BY DEF Loaded, Default
<1> QED
  BY <1>1, SavedIsLoaded

\* commit() in the middle and at its end: what is due is due still, unless
\* the flash has failed.
LEMMA CommitOpens ==
  ASSUME TypeInv, PortalInv, Commit \/ Write
  PROVE  PortalInv'
<1>1. /\ Saving /\ UNCHANGED <<config, after, opened, asked>>
      /\ \/ flash' = flash /\ faults' = faults /\ flash = Stored(config) /\ pc' = after
         \/ flash' = flash /\ faults' = faults + 1 /\ pc' = after
         \/ flash' = Erased /\ faults' = faults /\ pc' = "write"
         \/ flash' = Stored(config) /\ faults' = faults /\ pc' = after
  BY DEF Commit, Write, Return, Told, Saving, countVars
<1>2. /\ config \in Configs /\ after \in {"psu", "portal", "connect", "loop", "reset"}
      /\ opened \in Nat /\ asked \in Nat /\ faults \in Nat
  BY DongleAssumption DEF TypeInv, TypeOK
<1>3. Loaded(Erased).portal = FALSE /\ Loaded(Stored(config)).portal = config.portal
  BY <1>2, LoadedFlag
<1>4. FlagInv'
  BY <1>1, <1>2, <1>3 DEF PortalInv, FlagInv, Flagged, Saving
<1>5. Due' <= Due + (faults' - faults)
  BY <1>1, <1>2, <1>3 DEF PortalInv, FlagInv, Flagged, Saving, Due
<1>6. Due \in Nat /\ Due' \in Nat /\ faults' \in Nat
  BY <1>1, <1>2 DEF Due
<1>7. opened + Due <= asked + faults /\ opened' = opened /\ asked' = asked
  BY <1>1 DEF PortalInv
<1>8. opened + Due' <= asked + faults'
  <2>1. \A o, d, e, a, f, g \in Nat : o + d <= a + f /\ e <= d + (g - f) => o + e <= a + g
    OBVIOUS
  <2> QED
    BY <1>2, <1>5, <1>6, <1>7, <2>1
<1> QED
  BY <1>4, <1>7, <1>8 DEF PortalInv

LEMMA PortalInvHolds == Spec => []PortalInv
<1>1. Init => PortalInv
  BY DEF Init, PortalInv, FlagInv, Due, Flagged, Saving, Default
<1>2. TypeInv /\ PortalInv /\ [Next]_vars => PortalInv'
  <2> SUFFICES ASSUME TypeInv, PortalInv, [Next]_vars
               PROVE  PortalInv'
    OBVIOUS
  <2>0. /\ config \in Configs /\ Default.portal = FALSE
        /\ after \in {"psu", "portal", "connect", "loop", "reset"}
        /\ opened \in Nat /\ asked \in Nat /\ faults \in Nat
    BY DongleAssumption DEF TypeInv, TypeOK, Default
  <2>1. CASE Commit \/ Write
    BY <2>1, CommitOpens
  <2>2. CASE Begin
    <3>1. config'.portal = Loaded(flash).portal /\ UNCHANGED <<flash, faults, asked, opened>>
          /\ pc = "begin"
          /\ \/ flash = Erased /\ pc' = "commit" /\ after' = "psu"
             \/ pc' = "psu" /\ after' = after
      BY <2>2 DEF Begin, CallCommit, countVars
    <3>2. Loaded(Erased).portal = FALSE
      BY LoadedFlag
    <3> QED
      BY <2>0, <3>1, <3>2 DEF PortalInv, FlagInv, Due, Flagged, Saving
  <2>3. CASE ConnectWifi
    <3>1. /\ UNCHANGED <<flash, faults, asked, opened>> /\ pc = "wifi"
          /\ \/ config.portal = TRUE /\ config'.portal = FALSE /\ pc' = "commit" /\ after' = "portal"
             \/ config.portal = FALSE /\ config' = config /\ pc' = "connect" /\ after' = after
      BY <2>0, <2>3 DEF ConnectWifi, CallCommit, countVars, Configs
    <3> QED
      BY <2>0, <3>1 DEF PortalInv, FlagInv, Due, Flagged, Saving
  <2>4. CASE OpenPortal
    <3>1. /\ UNCHANGED <<flash, config, after, faults, asked>>
          /\ pc = "portal" /\ pc' = "in_portal" /\ opened' = opened + 1
      BY <2>4 DEF OpenPortal
    <3> QED
      BY <2>0, <3>1 DEF PortalInv, FlagInv, Due, Flagged, Saving
  <2>5. CASE BeginModbus \/ WifiConnected \/ BeginMdns \/ WifiFailed \/ Loop \/ NoRequest
    <3>1. /\ UNCHANGED <<flash, config, after, faults, asked, opened>>
          /\ \/ pc = "psu" /\ pc' \in {"psu", "wifi"}
             \/ /\ pc \in {"in_portal", "connect", "mdns", "loop", "http"}
                /\ pc' \in {"mdns", "no_mdns", "loop", "http", "reset"}
      BY <2>5 DEF BeginModbus, WifiConnected, BeginMdns, WifiFailed, Loop, NoRequest, countVars
    <3> QED
      BY <2>0, <3>1 DEF PortalInv, FlagInv, Due, Flagged, Saving
  <2>6. ASSUME NEW tz \in Names, NEW baud \in Bauds, handle_config_post(tz, baud)
        PROVE  PortalInv'
    <3>1. /\ UNCHANGED <<flash, faults, asked, opened>> /\ config'.portal = config.portal
          /\ pc = "http" /\ pc' = "commit" /\ after' = "loop"
      BY <2>0, <2>6 DEF handle_config_post, CallCommit, countVars, Configs
    <3> QED
      BY <2>0, <3>1 DEF PortalInv, FlagInv, Due, Flagged, Saving
  <2>7. ASSUME NEW portal \in BOOLEAN, handle_reboot_dongle_get(portal)
        PROVE  PortalInv'
    <3>1. /\ UNCHANGED <<flash, faults, opened>> /\ pc = "http"
          /\ \/ pc' = "commit" /\ after' = "reset" /\ asked' = asked + 1
             \/ pc' = "reset" /\ UNCHANGED <<config, after, asked>>
      BY <2>7 DEF handle_reboot_dongle_get, CallCommit
    <3> QED
      BY <2>0, <3>1 DEF PortalInv, FlagInv, Due, Flagged, Saving
  <2>8. CASE Reset \/ PowerFailure
    <3>1. /\ UNCHANGED <<flash, faults, asked, opened>>
          /\ pc' = "begin" /\ after' = "psu" /\ config' = Default
      BY <2>8 DEF Reset, PowerFailure, Restart, countVars
    <3> QED
      BY <2>0, <3>1 DEF PortalInv, FlagInv, Due, Flagged, Saving
  <2>9. CASE PsuBoots \/ on_time_received \/ HeldByMdns \/ UNCHANGED vars
    <3>1. UNCHANGED <<flash, config, pc, after, faults, asked, opened>>
      BY <2>9 DEF HeldByMdns, PsuBoots, on_time_received, vars, flashVars, countVars
    <3> QED
      BY <3>1 DEF PortalInv, FlagInv, Due, Flagged, Saving
  <2> QED
    BY <2>1, <2>2, <2>3, <2>4, <2>5, <2>6, <2>7, <2>8, <2>9 DEF Next, Thread
<1> QED
  BY <1>1, <1>2, TypeInvHolds, PTL DEF Spec

\* A request for the configuration portal opens it once, wherever the power
\* fails in between; only a flash that cannot be written opens it again.
THEOREM PortalOpensOnRequest == Spec => []PortalOnRequest
<1>1. TypeInv /\ PortalInv => PortalOnRequest
  <2> SUFFICES ASSUME TypeInv, PortalInv
               PROVE  PortalOnRequest
    OBVIOUS
  <2>1. Due \in Nat
    BY DEF Due
  <2>2. opened \in Nat /\ asked \in Nat /\ faults \in Nat
    BY DongleAssumption DEF TypeInv, TypeOK
  <2> QED
    BY <2>1, <2>2 DEF PortalInv, PortalOnRequest
<1> QED
  BY <1>1, TypeInvHolds, PortalInvHolds, PTL
=============================================================================
