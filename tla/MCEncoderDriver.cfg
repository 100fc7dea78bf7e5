SPECIFICATION Spec
CONSTANTS
  MaxPulses = 8
  Block = 3
  Width = 4
  None = none
INVARIANTS
  TypeOK
  EveryPulseCounts
  AnswerOfOneBlock
