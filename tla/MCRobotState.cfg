SPECIFICATION FairSpec
CONSTANTS
  Top = top
  Drive = drive
  Keys <- TwoKeys
  Widths <- OneToThree
  Angles = {"right", "left"}
  FirstFile <- ThreeLines
  MaxRetries = 1
  MaxSets = 1
INVARIANTS
  TypeOK
  OneSnapshot
PROPERTY RequestSteers
