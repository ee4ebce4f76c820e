SPECIFICATION Spec
CONSTANTS
  QueueCapacity = 2
  BatchSize = 2
  MaxMessages = 4
INVARIANTS
  NoneLostOrReordered
  PublishedIsAccounted
  AtMostOneStranded
PROPERTIES
  
  AcceptedIsWritten
