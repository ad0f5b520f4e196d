SPECIFICATION Spec
CONSTANTS
  Server <- MCServer
  Device <- MCDevice
  Reading <- MCReading
  Foreign <- MCForeign
  BufferSize = 32
  Memory <- MCMemory
  StrayMax = 1
  Plugins <- MCPlugins
  Damage <- MCDamage
  Faults = {"malloc", "recvfrom"}
INVARIANTS
  TypeOK
  SavedAsSent
  AnswerMeansSaved
  SavedIsAnswered
