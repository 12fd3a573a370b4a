SPECIFICATION Spec
CONSTANTS
  h1 = h1
  h2 = h2
  o1 = o1
  MaxCommands = 4
  Hashes <- TwoHashes
  Options <- OneOption
SYMMETRY Symmetry
INVARIANTS
  TypeOK
  Persisted
  NoGhosts
  OptionsAssigned
  RemovalIsFinal
PROPERTY NeverRewritten
