CONSTANTS
  a = a
  b = b
  Clients <- OneClient
  MaxRequests = 2
  MaxPages = 1
  Addresses <- TwoAddresses
  Errors <- TwoErrors
  MaxDownloads = 3
SPECIFICATION RestSpec
INVARIANTS
  ClientReceivesItsResult
