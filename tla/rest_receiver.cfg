CONSTANTS
  a = a
  b = b
  Clients <- TwoClients
  MaxRequests = 2
  MaxPages = 1
  Addresses <- TwoAddresses
  Errors <- TwoErrors
  MaxDownloads = 3
SPECIFICATION RestSpec
INVARIANTS
  ResultGoesToAsker
