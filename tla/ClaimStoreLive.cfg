\* Two notes, one edge, one call cut short or one restart.
SPECIFICATION FairSpec
CONSTANTS
  Note = {x, y}
  Owner = {}
  Slot = {s1}
  Value = {v1, v2}
  Retirer = {r1}
  NoFile = NoFile
  NoClaim = NoClaim
  NoDoc = NoDoc
  MaxTime = 3
  MaxEdge = 1
  MaxCut = 1
PROPERTIES
  Converges
  RetiredIsSealed
  SlotIsHandedOn
