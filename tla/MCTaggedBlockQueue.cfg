CONSTANTS
  Capacity = 4
  Epoch = {0, 1}
  Samples = {silence, voice}
  Silence = silence
  NoBlock = NoBlock
SPECIFICATION Spec
INVARIANTS
  SlotExclusion
PROPERTY ImplementsFifo
