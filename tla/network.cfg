CONSTANTS
  a = a
  b = b
  Clients <- TwoClients
  MaxRequests = 3
  MaxPages = 2
  Addresses <- TwoAddresses
  Errors <- TwoErrors
  MaxDownloads = 3
SPECIFICATION PartSpec
INVARIANTS
  PartTypeOK
  NewestTakesAll
  CalledBackOnce
PROPERTIES
  EveryCallAnswered
CHECK_DEADLOCK FALSE
