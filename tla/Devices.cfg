SPECIFICATION Spec
CONSTANTS
  Tasks = {"task1", "task2"}
  Depth = 4
  DataBits = 2
  Message <- MCMessage
  WordBits = 4
  Counts = 4
  TxLimit = 2
  RxDepth = 4
  Lengths <- MCLengths
  Commands <- MCCommands
  Pins = {0, 1}
  EocPin = 1
INVARIANTS
  EmptyMeansDelivered
  SpiWordsInOrder
  PinsReadBack
PROPERTIES
  BytesArriveInOrder
  AckIsFresh
  CallsReturn
