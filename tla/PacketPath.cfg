SPECIFICATION Spec
CONSTANTS
  t1 = t1
  t2 = t2
  Threads = {t1, t2}
  Links = {"EN10MB", "IEEE802_11_RADIO", "LINUX_SLL", "PPP"}
  Foreign <- MCForeign
  Snaplen = 122
  Jobs <- MCJobs
  Templates <- MCTemplates
  Rebuilt <- MCRebuilt
  MaxFrames = 2
INVARIANTS HandedOwnPacket NumbersCount BuiltArrives WireValid
PROPERTY DecodingAdvances
