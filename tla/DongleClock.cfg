SPECIFICATION FairSpec
CONSTANTS
  Timezones = {Berlin}
  NoTimezone = NoTimezone
  OtherNames = {}
  Bauds = {b1}
  DEFAULT_UART_BAUDRATE = b1
  PSU_BAUD = b1
  BOOT_TRIES = 2
  PSU_SILENT = TRUE
  MaxReboots = 0
  MaxFailures = 0
  MaxFaults = 0
PROPERTY ClockGetsSet
