SPECIFICATION HeapSpec
CONSTANTS
  Buffers <- MCBuffers
  QueueParts <- MCQueueParts
  HeaderSize = 1
  UacpiSizes = {1, 2, 3}
INVARIANTS BlocksConserved AllocationsArePrivate FailsOnlyWhenTaken
