SPECIFICATION FairDevicesSpec
CONSTANTS
  h1 = h1
  Handles = {h1}
  Devices = {"any", "toolong", "eth0", "wlan0", "isdn0", "usb", "can", "bt", "nflog", "nfqueue",
             "canusb", "dbus", "snit", "pf", "snoop", "npf", "libdlpi", "dlpi", "en0", "ath0", "dag",
             "snf", "septel"}
  Sockets = {3, 4, 5}
  Snaplens = {10}
  Timeouts = {5}
  MaxBlocks = 2
  Tpacket = 3
  Retry = TRUE
  Inquire = TRUE
  Settable = {"snapshot", "promisc", "rfmon", "immediate", "timeout", "buffer_size"}
  MaxSets = 1
INVARIANT SocketsHeld
INVARIANT MemorySound
INVARIANT FailureLeavesNothing
INVARIANT NonBlockAsSet
INVARIANT CachedSnapshot
PROPERTY ActivationReturns
CHECK_DEADLOCK FALSE
