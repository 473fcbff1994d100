SPECIFICATION Spec
CONSTANTS
  h1 = h1
  h2 = h2
  Handles = {h1, h2}
  Devices = {"wlan0"}
  Sockets = {3, 4}
  Snaplens = {}
  Timeouts = {}
  MaxBlocks = 1
  Tpacket = 3
  Retry = FALSE
  Inquire = FALSE
  Settable = {"rfmon", "promisc"}
  MaxSets = 2
SYMMETRY Symmetry
INVARIANT ListSound
 
CHECK_DEADLOCK FALSE
