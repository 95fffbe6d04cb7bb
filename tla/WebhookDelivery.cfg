\* One delivery, notice or not, and two overlapping calls.
CONSTANTS
  d1 = d1
  w1 = w1
  w2 = w2
  Deliveries <- MCDeliveries
  Workers <- MCWorkers
  MaxAttempts = 2
  FailureLimit = 2
  MaxFaults = 1
SPECIFICATION HistorySpec
INVARIANTS
  TypeOK
  OneSender
  PostsAreBounded
  FailureCountIsReal
PROPERTIES
  RevivedOnlyByOldRead
  EveryDeliveryEnds
