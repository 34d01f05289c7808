\* A connection that has ended, or whose stream is used up, stops.
SPECIFICATION StreamSpec
CONSTANTS
  Capacity = 6
  HeaderSize = 2
  Bytes <- MCBytes
  Streams <- MCStreams
INVARIANTS
  HandledAsSent
  FullOnlyWhenWrapped
PROPERTIES
  NothingAfterWrap
  PacketsHandled
CHECK_DEADLOCK FALSE
