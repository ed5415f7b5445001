SPECIFICATION Spec
CONSTANTS
  potion = potion
  sword = sword
  blade = blade
  weapon = weapon
  NoKind = NoKind
  NoWear = NoWear
  Kind <- MCKind
  Catalog <- MCCatalog
  Offer <- MCOffer
  Start <- MCStart
  Catalyst = potion
  Wear = {weapon}
  Cells = 2
  Position = {q1, q2}
  MaxId = 4
  MaxGold = 1
  MaxPoints = 2
  MaxHit = 1
  FullPoints = 1
  BoxCell = {b1, b2}
  Elsewhere = {1}
  StoreFails = TRUE
  MayLose = FALSE
  BoxFails = TRUE
  BoxLoadFails = FALSE
  RestoreFails = FALSE
INVARIANTS TypeOK CopiesAgree OneOfEach BindingsHold PaneIsBox
PROPERTY KeepsTheBooks
SYMMETRY Symmetry
