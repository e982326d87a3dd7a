SPECIFICATION Spec
CONSTANTS
  NoData = NoData
  NInputs = 2
  SentImportances <- MCImportances
  SetFocuses <- MCFocuses
  OutsideTable <- MCOutside
  MaxWrites = 3
INVARIANTS
  TypeOK
  ScanFindsWinner
  DocumentedOrder
  LostOnlyInTheWindow
PROPERTIES
  ActiveSettles
