SPECIFICATION FairSpec
CONSTANTS
  Values <- MCValues
  NoValue <- MCNoValue
  Capacity = 4
INVARIANTS
  TypeOK
  SlotsMatchIndices
  NoDataRace
PROPERTIES
  ImplementsFifo
  EveryValueLeaves
