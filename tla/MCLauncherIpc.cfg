SPECIFICATION LSpec
CONSTANTS
  work = work
  personal = personal
  v1 = v1
  browser = browser
  ui1 = ui1
  Garbage = Garbage
  Proc <- MCProc
  Value <- MCValue
  Sectors = 2
  MaxIO = 2
  MaxMints = 2
  MaxFaults = 2
  Faults = {"crash", "reboot", "eject", "busy", "keychain", "tool"}
  Conns <- MCConns
  App <- MCApp
  Chromium <- MCApp
  Seeded <- MCApp
  MaxCommands = 1
INVARIANTS PassphraseOpensBundle WipedStaysLocked RoundTrip HomeOnDisk
PROPERTIES ShreddedNeverMounts CommandsEnd
CHECK_DEADLOCK FALSE
