SPECIFICATION Spec
CONSTANTS
  Keys <- FourKeys
  Values <- ThreeValues
  ScanPrefixes <- TwoPrefixes
  MaxKeySize = 1
  MaxValSize = 2
  LeafLimit = 30
  MaxEntries = 3
INVARIANTS
  StoresTypeOK
  CountsAgree
  LeafSorted
  ScanExact
PROPERTIES
  ImplementsSizedMap
