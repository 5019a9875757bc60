CONSTANTS
  a = a  b = b
  None = None
  Clients = {a, b}
  Secret = {a}
  UseCache = TRUE
  Reloaders = {}
  Getters = {}
  MaxVersion = 2
SPECIFICATION Spec
INVARIANTS EtagNamesDefinitions ShutdownIsLast CleanCloseReleases
