CONSTANTS
  IntMax = 45
  Initial = 4
  Headroom = 2
  Guess = 5
  Lengths = {0, 1, 3, 4, 8, 20, 39, 40, 43, 44, 45, 46, 90}
  Faults = {"malloc", "format"}
  NoCall = NoCall
SPECIFICATION FairSpec
INVARIANTS TypeOK Sound StoresFit
PROPERTIES CallsReturn ImplementsText
