SPECIFICATION PipeSpec
CONSTANTS
  Producers <- TwoProducers
  MaxSends = 2
PROPERTIES
  PipeIsFifo
CHECK_DEADLOCK FALSE
