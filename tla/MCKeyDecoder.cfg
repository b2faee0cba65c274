SPECIFICATION NewSpec
CONSTANTS
  NE = NE
  E = E
  Keys <- TwoKeys
  Order <- InOrder
  Vector <- Lines
INVARIANTS
  NoMissedEdge
  RepeatArmed
  OnlyFirstExposed
  FaultsOnlyEarly
PROPERTIES
  RepeatStops
  RepeatTracks
