\* Three requests, three keys, four ticks.
SPECIFICATION Spec
CONSTANTS
  TimeLow = 2
  BlockWords = 2
  Layouts <- Layouts_
  Order <- Order_
  Workloads <- Workloads_
  AddrSpace = 128
  MBase = 64
  MSize = 40
  NR_MAP = 16
  IoSpaceMax = 10
  Stdins <- Stdins_
  Keys = {1, 2}
  MaxTyped = 2
  MaxTime = 4
  Images <- Images_
  Requests <- Requests_
  MaxRequests = 3
INVARIANTS
  OneOwnerPerAddress
  ConsoleReadsWhatWasTyped
  ClockIsOneReading
  RequestsDoTheirBlocks
CHECK_DEADLOCK FALSE
