SPECIFICATION Spec
CONSTANTS
  Server <- MCServer
  Device <- OneDevice
  Reading <- MCReading
  Foreign <- MCForeign
  BufferSize = 32
  Memory <- MCMemory
  StrayMax = 1
  Plugins <- MCPlugins
  Damage = {}
  Faults = {}
INVARIANT
  DocumentedIsAccepted
