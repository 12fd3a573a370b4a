SPECIFICATION Spec
CONSTANTS
  h1 = h1
  h2 = h2
  o1 = o1
  MaxCommands = 3
  Hashes <- OneHash
  Options <- OneOption
INVARIANT OptionsSurviveRestart
