\* Three notes, one of them the owner's; two edges; one call cut short.
SPECIFICATION Spec
CONSTANTS
  Note = {o, x, y}
  Owner = {o}
  Slot = {s1}
  Value = {v1, v2}
  Retirer = {r1}
  NoFile = NoFile
  NoClaim = NoClaim
  NoDoc = NoDoc
  MaxTime = 3
  MaxEdge = 2
  MaxCut = 1
INVARIANTS
  TypeOK
  OldFactsAreSealed
  
PROPERTIES
  SealsHold
SYMMETRY Symmetry
