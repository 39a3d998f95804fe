SPECIFICATION FairSpec
CONSTANTS
  Timezones = {Berlin}
  NoTimezone = NoTimezone
  OtherNames = {Nowhere}
  Bauds = {b1, b2}
  DEFAULT_UART_BAUDRATE = b1
  PSU_BAUD = b2
  BOOT_TRIES = 2
  PSU_SILENT = FALSE
  MaxReboots = 2
  MaxFailures = 1
  MaxFaults = 1
INVARIANTS
  TypeOK
  SettingsSurvive
  PortalOnRequest
PROPERTIES
  WebPageComesUp
  PortalOpens
  ClockGetsSet
